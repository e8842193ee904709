------------------------ MODULE CommandCenterProofs ------------------------
(***************************************************************************)
(* Theorems about CommandCenter for any projects, tasks, people, workers,  *)
(* requests and bounds, and about the card Stream keeps of one project of  *)
(* the queue, for any changes, faults and memory of the browser's store.   *)
(***************************************************************************)
EXTENDS CommandCenter, Stream, FiniteSetTheorems, TLAPS

\* What a rebuild of the project copies from its own rows, by day: all but
\* the load of its owner, and the score.
Mine(p) ==
  [day \in Day |->
    [archived |-> project[p].archived, blocked |-> Blocked(p),
     late |-> \E t \in BoardOf(p) : Late(t, day),
     busy |-> \E t \in BoardOf(p) : task[t].category = "IN_PROGRESS",
     step |-> project[p].step, target |-> project[p].target, last |-> last[p],
     override |-> Placed(p, day)]]

Kept(f) ==
  [archived |-> f.archived, blocked |-> f.blocked, late |-> f.late,
   busy |-> f.busy, step |-> f.step, target |-> f.target, last |-> f.last,
   override |-> f.override]

\* A copy is as a rebuild would make it now, but for a load that has drifted.
Good(p, f, drifted) ==
  Kept(f) = Mine(p)[f.asOf] /\ (drifted \/ f.overloaded = Overloaded(p))

Building(w, p) == build[w] # None /\ build[w].project = p
Waiting(p) == \E day \in Day : pending[<<p, day>>] > 0

\* Unless an event is waiting or a worker overtaken, a worker holds a good copy
\* or nobody holds one and the row is good.
CaughtUp(p) ==
  \/ Waiting(p)
  \/ \E w \in overtaken : Building(w, p)
  \/ \E w \in Worker : Building(w, p) /\ Good(p, build[w].facts, w \in drift)
  \/ /\ \A w \in Worker : ~Building(w, p)
     /\ p \in muddled \/ Good(p, row[p], p \in drift)

\* Nothing is copied at an instant to come.
Clock ==
  /\ \A p \in Project, day \in Day : pending[<<p, day>>] > 0 => day <= today
  /\ \A w \in Worker : build[w] # None => build[w].facts.asOf <= today
  /\ \A p \in Project : row[p].asOf <= today

OneLive ==
  \A p \in Project :
    /\ live[p] = {} \/ \E o \in Override : live[p] = {o}
    /\ p \notin crossed => live[p] = {decided[p]} \ {None}

IInv == TypeOK /\ Clock /\ OneLive /\ \A p \in Project : CaughtUp(p)

-----------------------------------------------------------------------------
(***************************************************************************)
(* What is copied.                                                         *)
(***************************************************************************)

LEMMA Days == /\ LastDay \in Nat /\ Day \subseteq Nat /\ 0 \in Day
              /\ \A d \in Day : d <= LastDay
BY BoundsAreNatural DEF Day

LEMMA FactsAreFact ==
  ASSUME TypeOK, NEW p \in Project, NEW day \in Day
  PROVE  Facts(p, day) \in Fact
<1>1. /\ project[p].archived \in BOOLEAN /\ project[p].step \in BOOLEAN
      /\ project[p].target \in Due \cup {None}
      /\ last[p] \in Day /\ score[p] \in Score
  BY DEF TypeOK
<1>2. Placed(p, day) \subseteq Override
  BY DEF TypeOK, Placed
<1>3. Blocked(p) \in BOOLEAN /\ Overloaded(p) \in BOOLEAN
  BY DEF Blocked, Overloaded
<1> QED  BY <1>1, <1>2, <1>3 DEF Facts, Fact

LEMMA FactsAreGood ==
  ASSUME NEW p \in Project, NEW day \in Day, NEW x
  PROVE  Good(p, Facts(p, day), x)
BY DEF Good, Facts, Kept, Mine

\* The rows a rebuild of the project copies, its owner's load aside.
Untouched(p) ==
  /\ project'[p] = project[p] /\ obstacles'[p] = obstacles[p]
  /\ last'[p] = last[p] /\ live'[p] = live[p]
  /\ \A t \in Task : HomeOf[t] = p => task'[t] = task[t]

LEMMA UntouchedIsMine ==
  ASSUME NEW p \in Project, Untouched(p)
  PROVE  Mine(p)' = Mine(p)
<1>1. \A t \in Task : HomeOf[t] = p => task'[t] = task[t]
  BY DEF Untouched
<1>2. /\ \A t \in Task : t \in BoardOf(p) <=> t \in BoardOf(p)'
      /\ BoardOf(p) \subseteq Task /\ BoardOf(p)' \subseteq Task
      /\ \A t \in BoardOf(p) : task'[t] = task[t]
  BY <1>1 DEF BoardOf, OnBoard
<1>3. BoardOf(p)' = BoardOf(p)
  BY <1>2
<1>4. Blocked(p)' = Blocked(p)
  BY <1>2, <1>3 DEF Blocked, Untouched
<1>5. ASSUME NEW d \in Day
      PROVE  (\E t \in BoardOf(p) : Late(t, d))' = (\E t \in BoardOf(p) : Late(t, d))
  BY <1>2, <1>3 DEF Late
<1>6. (\E t \in BoardOf(p) : task[t].category = "IN_PROGRESS")'
        = (\E t \in BoardOf(p) : task[t].category = "IN_PROGRESS")
  BY <1>2, <1>3
<1>7. ASSUME NEW d \in Day PROVE Placed(p, d)' = Placed(p, d)
  BY DEF Placed, Untouched
<1> QED  BY <1>4, <1>5, <1>6, <1>7 DEF Mine, Untouched

LEMMA LoadStays ==
  ASSUME task' = task
  PROVE  \A x : Load(x)' = Load(x)
BY DEF Load, OnBoard

LEMMA OverloadStays ==
  ASSUME NEW p \in Project, project'[p] = project[p],
         project[p].owner # None =>
           /\ Load(project[p].owner)' = Load(project[p].owner)
           /\ capacity'[project[p].owner] = capacity[project[p].owner]
  PROVE  Overloaded(p)' = Overloaded(p)
BY DEF Overloaded

LEMMA InitIInv == Init => IInv
<1> SUFFICES ASSUME Init PROVE IInv
  OBVIOUS
<1> USE DEF Init
<1>1. TypeOK
  <2>1. /\ today \in Day /\ edits \in 0..EditLimit
        /\ project \in [Project -> [category : Category, target : Due \cup {None},
             step : BOOLEAN, owner : Person \cup {None}, archived : BOOLEAN]]
    <3>1. \A p \in Project :
            project[p] \in [category : {EntryCategory}, target : {None}, step : {FALSE},
                           owner : Person, archived : {FALSE}]
      OBVIOUS
    <3>2. \A p \in Project :
            project[p] \in [category : Category, target : Due \cup {None},
               step : BOOLEAN, owner : Person \cup {None}, archived : BOOLEAN]
      BY <3>1, EntryAssumption
    <3> QED  BY <3>2, Days, BoundsAreNatural
  <2>2. /\ task \in [Task -> {None} \cup [category : Category, due : Due \cup {None},
             assignee : Person \cup {None}, archived : BOOLEAN]]
        /\ obstacles \in [Project -> Nat] /\ capacity \in [Person -> Capacity]
        /\ last \in [Project -> Day] /\ score \in [Project -> Score]
    BY Days, BoundsAreNatural
  <2>3. /\ [id |-> 0, expires |-> None] \in Override
        /\ decided \in [Project -> Override \cup {None}]
    BY BoundsAreNatural DEF Override
  <2>4. live \in [Project -> SUBSET Override]
    BY <2>3
  <2>5. /\ crossed \subseteq Project /\ muddled \subseteq Project
        /\ drift \subseteq Project \cup Worker /\ overtaken \subseteq Worker
        /\ pending \in [Project \X Day -> Nat]
    OBVIOUS
  <2>6. /\ build \in [Worker -> {None} \cup [project : Project, facts : Fact]]
        /\ request \in [Session -> {None} \cup
             [op : {"override", "revoke"}, project : Project, found : SUBSET Override]]
    OBVIOUS
  <2>7. ASSUME NEW p \in Project PROVE Facts(p, 0) \in Fact
    <3>1. /\ project[p].archived \in BOOLEAN /\ project[p].step \in BOOLEAN
          /\ project[p].target \in Due \cup {None}
          /\ last[p] \in Day /\ score[p] \in Score
      BY <2>1, <2>2
    <3>2. Placed(p, 0) \subseteq Override
      BY <2>4 DEF Placed
    <3>3. Blocked(p) \in BOOLEAN /\ Overloaded(p) \in BOOLEAN
      BY DEF Blocked, Overloaded
    <3> QED  BY <3>1, <3>2, <3>3, Days DEF Facts, Fact
  <2>8. row \in [Project -> Fact]
    <3>1. row = [p \in Project |-> Facts(p, 0)]
      OBVIOUS
    <3> HIDE DEF Init
    <3> QED  BY <2>7, <3>1
  <2> QED  BY <2>1, <2>2, <2>3, <2>4, <2>5, <2>6, <2>8 DEF TypeOK
<1>2. \A p \in Project : row[p] = Facts(p, 0)
  OBVIOUS
<1>3. Clock
  BY <1>2, Days DEF Clock, Facts
<1>4. OneLive
  BY <1>1 DEF OneLive, TypeOK
<1>5. ASSUME NEW p \in Project PROVE CaughtUp(p)
  <2>1. Good(p, row[p], p \in drift)
    BY <1>2, FactsAreGood, Days
  <2>2. \A w \in Worker : ~Building(w, p)
    BY DEF Building
  <2> QED  BY <2>1, <2>2 DEF CaughtUp
<1> QED  BY <1>1, <1>3, <1>4, <1>5 DEF IInv

-----------------------------------------------------------------------------
(***************************************************************************)
(* Commits.  Whatever a commit changes of a project is announced, or it is *)
(* the load of its owner and counted as a drift.                           *)
(***************************************************************************)

Accounted(p) ==
  \/ Waiting(p)'
  \/ /\ Mine(p)' = Mine(p)
     /\ Waiting(p)' = Waiting(p)
     /\ \/ Overloaded(p)' = Overloaded(p)
        \/ p \in drift' /\ \A w \in Worker : Building(w, p) => w \in drift'

LEMMA AccountedStaysCaughtUp ==
  ASSUME NEW p \in Project, CaughtUp(p), Accounted(p),
         UNCHANGED reading, drift \subseteq drift'
  PROVE  CaughtUp(p)'
<1> SUFFICES ASSUME ~Waiting(p)' PROVE CaughtUp(p)'
  BY DEF CaughtUp
<1>1. /\ row' = row /\ build' = build /\ overtaken' = overtaken /\ muddled' = muddled
  BY DEF reading
<1>2. /\ Mine(p)' = Mine(p) /\ ~Waiting(p)
      /\ \/ Overloaded(p)' = Overloaded(p)
         \/ p \in drift' /\ \A w \in Worker : Building(w, p) => w \in drift'
  BY DEF Accounted
<1>3. \A w : Building(w, p)' = Building(w, p)
  BY <1>1 DEF Building
<1>4. CASE \E w \in overtaken : Building(w, p)
  BY <1>1, <1>3, <1>4 DEF CaughtUp
<1>5. CASE \E w \in Worker : Building(w, p) /\ Good(p, build[w].facts, w \in drift)
  <2>1. PICK w \in Worker : Building(w, p) /\ Good(p, build[w].facts, w \in drift)
    BY <1>5
  <2>2. w \in drift' \/ Overloaded(p)' = Overloaded(p)
    BY <1>2, <2>1
  <2>3. Kept(build[w].facts) = Mine(p)'[build[w].facts.asOf]
    BY <1>2, <2>1 DEF Good
  <2>4. w \in drift' \/ build[w].facts.overloaded = Overloaded(p)'
    BY <2>1, <2>2 DEF Good
  <2>5. Good(p, build[w].facts, w \in drift)'
    BY <1>1, <2>3, <2>4 DEF Good
  <2> QED  BY <1>3, <2>1, <2>5 DEF CaughtUp
<1>6. CASE /\ \A w \in Worker : ~Building(w, p)
           /\ p \in muddled \/ Good(p, row[p], p \in drift)
  <2>1. p \in muddled' \/ Good(p, row[p], p \in drift)'
    BY <1>1, <1>2, <1>6 DEF Good
  <2> QED  BY <1>3, <1>6, <2>1 DEF CaughtUp
<1> QED  BY <1>2, <1>4, <1>5, <1>6 DEF CaughtUp

\* What is waiting after an announcement, and after none.
LEMMA AnnouncedWaits ==
  ASSUME TypeOK, NEW q \in Project, Announced(q)
  PROVE  /\ pending' \in [Project \X Day -> Nat] /\ Waiting(q)'
         /\ \A p \in Project : p # q => Waiting(p)' = Waiting(p)
         /\ \A p \in Project, d \in Day :
              pending'[<<p, d>>] > 0 => pending[<<p, d>>] > 0 \/ d = today
<1>1. pending \in [Project \X Day -> Nat] /\ today \in Day /\ <<q, today>> \in Project \X Day
  BY DEF TypeOK
<1>2. pending' = [pending EXCEPT ![<<q, today>>] = @ + 1]
  BY DEF Announced
<1>3. pending' \in [Project \X Day -> Nat]
  BY <1>1, <1>2
<1>4. pending'[<<q, today>>] > 0
  BY <1>1, <1>2
<1>5. \A p \in Project, d \in Day : <<p, d>> # <<q, today>> =>
        pending'[<<p, d>>] = pending[<<p, d>>]
  BY <1>1, <1>2
<1>6. \A p \in Project, d \in Day : p # q \/ d # today => <<p, d>> # <<q, today>>
  OBVIOUS
<1> QED  BY <1>1, <1>3, <1>4, <1>5, <1>6 DEF Waiting

LEMMA CommitCounts ==
  ASSUME TypeOK, NEW q \in Project, NEW r, Commit(q, r)
  PROVE  /\ edits \in 0..EditLimit /\ edits < EditLimit /\ edits' = edits + 1
         /\ edits' \in 0..EditLimit
         /\ last' \in [Project -> Day] /\ \A p \in Project : p # q => last'[p] = last[p]
BY BoundsAreNatural DEF Commit, TypeOK

LEMMA CommitIsAccounted ==
  ASSUME TypeOK, NEW q \in Project, Announced(q), NEW r, Commit(q, r),
         UNCHANGED <<task, capacity>>,
         \A p \in Project : p # q =>
           project'[p] = project[p] /\ obstacles'[p] = obstacles[p] /\ live'[p] = live[p]
  PROVE  \A p \in Project : Accounted(p)
<1> SUFFICES ASSUME NEW p \in Project, p # q PROVE Accounted(p)
  BY AnnouncedWaits DEF Accounted
<1>1. Waiting(p)' = Waiting(p)
  BY AnnouncedWaits
<1>2. Untouched(p)
  BY CommitCounts DEF Untouched
<1>3. Overloaded(p)' = Overloaded(p)
  BY <1>2, LoadStays, OverloadStays DEF Untouched
<1> QED  BY <1>1, <1>2, <1>3, UntouchedIsMine DEF Accounted

LEMMA AnnouncedKeepsUp ==
  ASSUME TypeOK, Clock, \A p \in Project : CaughtUp(p) /\ Accounted(p),
         NEW q \in Project, Announced(q),
         UNCHANGED <<today, reading>>, drift \subseteq drift'
  PROVE  Clock' /\ \A p \in Project : CaughtUp(p)'
<1>1. \A p \in Project : CaughtUp(p)'
  BY AccountedStaysCaughtUp
<1>2. Clock'
  <2>1. today' = today /\ today \in Nat /\ row' = row /\ build' = build
    BY Days DEF TypeOK, reading
  <2> QED  BY <2>1, AnnouncedWaits DEF Clock
<1> QED  BY <1>1, <1>2

LEMMA StaysOneLive ==
  ASSUME OneLive, UNCHANGED ranking
  PROVE  OneLive'
BY DEF OneLive, ranking

\* Commits that change the rows of one project.
LEMMA ProjectStep ==
  ASSUME IInv, NEW q \in Project,
         UpdateProject(q) \/ TransitionProject(q) \/ AddNote(q) \/ RaiseBlocker(q)
           \/ ResolveBlocker(q) \/ Rescore(q)
  PROVE  IInv'
<1> DEFINE Shape == [category : Category, target : Due \cup {None}, step : BOOLEAN,
                     owner : Person \cup {None}, archived : BOOLEAN]
<1>1. TypeOK /\ Clock /\ OneLive /\ \A p \in Project : CaughtUp(p)
  BY DEF IInv
<1>2. PICK r \in BOOLEAN :
        /\ Announced(q) /\ Commit(q, r)
        /\ UNCHANGED <<today, task, capacity, ranking, reading, request, drift>>
  <2>1. CASE UpdateProject(q)
    <3>1. PICK new : Commit(q, new.owner # project[q].owner \/ new.step # project[q].step)
      BY <2>1 DEF UpdateProject
    <3> QED  BY <2>1, <3>1 DEF UpdateProject
  <2>2. CASE TransitionProject(q)
    BY <2>2 DEF TransitionProject
  <2>3. CASE AddNote(q)
    BY <2>3 DEF AddNote
  <2>4. CASE RaiseBlocker(q)
    BY <2>4 DEF RaiseBlocker, BlockerAnnounced
  <2>5. CASE ResolveBlocker(q)
    BY <2>5 DEF ResolveBlocker, BlockerAnnounced
  <2>6. CASE Rescore(q)
    BY <2>6 DEF Rescore
  <2> QED  BY <2>1, <2>2, <2>3, <2>4, <2>5, <2>6
<1>3. /\ project' \in [Project -> Shape]
      /\ \A p \in Project : p # q => project'[p] = project[p]
  <2>1. project \in [Project -> Shape]
    BY <1>1 DEF TypeOK
  <2>2. CASE project' = project
    BY <2>1, <2>2
  <2>3. CASE UpdateProject(q)
    <3>1. PICK new \in [category : {project[q].category}, target : Due \cup {None},
              step : BOOLEAN, owner : Person \cup {None}, archived : BOOLEAN] :
            project' = [project EXCEPT ![q] = new]
      BY <2>3 DEF UpdateProject
    <3>2. new \in Shape
      BY <2>1, <3>1
    <3> QED  BY <2>1, <3>1, <3>2
  <2>4. CASE TransitionProject(q)
    BY <2>1, <2>4 DEF TransitionProject
  <2> QED  BY <2>2, <2>3, <2>4 DEF AddNote, RaiseBlocker, ResolveBlocker, Rescore
<1>4. /\ obstacles' \in [Project -> Nat]
      /\ \A p \in Project : p # q => obstacles'[p] = obstacles[p]
  <2>1. obstacles \in [Project -> Nat]
    BY <1>1 DEF TypeOK
  <2>2. CASE obstacles' = obstacles
    BY <2>1, <2>2
  <2>3. CASE RaiseBlocker(q)
    BY <2>1, <2>3 DEF RaiseBlocker
  <2>4. CASE ResolveBlocker(q)
    <3>1. obstacles[q] \in Nat /\ obstacles[q] > 0
      BY <2>1, <2>4 DEF ResolveBlocker, Unresolved
    <3>2. obstacles' = [obstacles EXCEPT ![q] = @ - 1]
      BY <2>4 DEF ResolveBlocker
    <3> QED  BY <2>1, <3>1, <3>2
  <2> QED  BY <2>2, <2>3, <2>4 DEF UpdateProject, TransitionProject, AddNote, Rescore
<1>5. score' \in [Project -> Score]
  <2>1. CASE score' = score
    BY <1>1, <2>1 DEF TypeOK
  <2>2. CASE Rescore(q)
    BY <1>1, <2>2 DEF Rescore, TypeOK
  <2> QED  BY <2>1, <2>2 DEF UpdateProject, TransitionProject, AddNote, RaiseBlocker,
                             ResolveBlocker
<1>6. /\ edits' \in 0..EditLimit /\ last' \in [Project -> Day]
      /\ pending' \in [Project \X Day -> Nat]
  BY <1>1, <1>2, CommitCounts, AnnouncedWaits
<1>7. TypeOK'
  BY <1>1, <1>2, <1>3, <1>4, <1>5, <1>6 DEF TypeOK, ranking, reading
<1>8. \A p \in Project : Accounted(p)
  BY <1>1, <1>2, <1>3, <1>4, CommitIsAccounted DEF ranking
<1>9. Clock' /\ \A p \in Project : CaughtUp(p)'
  BY <1>1, <1>2, <1>8, AnnouncedKeepsUp
<1> QED  BY <1>1, <1>2, <1>7, <1>9, StaysOneLive DEF IInv

\* Commits that change a row of the board.
LEMMA TaskStep ==
  ASSUME IInv, NEW t \in Task, CreateTask(t) \/ UpdateTask(t) \/ TransitionTask(t)
  PROVE  IInv'
<1> DEFINE q == HomeOf[t]
           Shape == [category : Category, due : Due \cup {None},
                     assignee : Person \cup {None}, archived : BOOLEAN]
<1>1. /\ TypeOK /\ Clock /\ OneLive /\ \A p \in Project : CaughtUp(p)
      /\ q \in Project
  BY HomeAssumption DEF IInv
<1>2. task[t] # None => task[t] \in Shape
  BY <1>1 DEF TypeOK
<1>3. PICK new \in Shape, r \in BOOLEAN : SaveTask(t, new, r)
  <2>1. CASE CreateTask(t)
    BY <2>1, EntryAssumption DEF CreateTask
  <2>2. CASE UpdateTask(t)
    BY <1>2, <2>2 DEF UpdateTask
  <2>3. CASE TransitionTask(t)
    BY <1>2, <2>3 DEF TransitionTask, OnBoard
  <2> QED  BY <2>1, <2>2, <2>3
<1>4. /\ Commit(q, r) /\ Announced(q) /\ Drifting(q, Moved)
      /\ task' = [task EXCEPT ![t] = new]
      /\ UNCHANGED <<today, project, obstacles, capacity, score, ranking, reading,
                     request>>
  BY <1>3 DEF SaveTask
<1>5. /\ edits' \in 0..EditLimit /\ last' \in [Project -> Day]
      /\ \A p \in Project : p # q => last'[p] = last[p]
      /\ pending' \in [Project \X Day -> Nat]
  BY <1>1, <1>4, CommitCounts, AnnouncedWaits
<1>6. drift \subseteq drift' /\ drift' \subseteq Project \cup Worker
  BY <1>1, <1>4 DEF Drifting, TypeOK
<1>7. task' \in [Task -> {None} \cup Shape]
  BY <1>1, <1>4 DEF TypeOK
<1>8. TypeOK'
  BY <1>1, <1>4, <1>5, <1>6, <1>7 DEF TypeOK, ranking, reading
<1>9. ASSUME NEW p \in Project PROVE Accounted(p)
  <2>1. CASE p = q
    BY <1>1, <1>4, <2>1, AnnouncedWaits DEF Accounted
  <2>2. CASE p # q
    <3>1. Waiting(p)' = Waiting(p)
      BY <1>1, <1>4, <2>2, AnnouncedWaits
    <3>2. Untouched(p)
      BY <1>1, <1>4, <1>5, <2>2 DEF Untouched, TypeOK, ranking
    <3>3. CASE project[p].owner \in Moved
      <4>1. p \in drift' /\ \A w \in Worker : Building(w, p) => w \in drift'
        BY <1>4, <2>2, <3>3 DEF Drifting, Building
      <4> QED  BY <3>1, <3>2, <4>1, UntouchedIsMine DEF Accounted
    <3>4. CASE project[p].owner \notin Moved
      <4>1. project[p].owner # None =>
              Load(project[p].owner)' = Load(project[p].owner)
        BY <1>1, <1>4, <3>4 DEF Moved, TypeOK
      <4>2. Overloaded(p)' = Overloaded(p)
        BY <1>4, <4>1, OverloadStays
      <4> QED  BY <3>1, <3>2, <4>2, UntouchedIsMine DEF Accounted
    <3> QED  BY <3>3, <3>4
  <2> QED  BY <2>1, <2>2
<1>10. Clock' /\ \A p \in Project : CaughtUp(p)'
  BY <1>1, <1>4, <1>6, <1>9, AnnouncedKeepsUp
<1> QED  BY <1>1, <1>4, <1>8, <1>10, StaysOneLive DEF IInv

\* A capacity that changes announces nothing, and the rows it makes stale drift.
LEMMA CapacityStep ==
  ASSUME IInv, NEW x \in Person, UpdateCapacity(x)
  PROVE  IInv'
<1>1. TypeOK /\ Clock /\ OneLive /\ \A p \in Project : CaughtUp(p)
  BY DEF IInv
<1>2. PICK c \in Capacity : capacity' = [capacity EXCEPT ![x] = c]
  BY DEF UpdateCapacity
<1>3. /\ edits < EditLimit /\ edits' = edits + 1 /\ Drifting(None, {x})
      /\ UNCHANGED <<today, project, task, obstacles, last, score, ranking, pending,
                     reading, request>>
  BY DEF UpdateCapacity
<1>4. drift \subseteq drift' /\ drift' \subseteq Project \cup Worker
  BY <1>1, <1>3 DEF Drifting, TypeOK
<1>5. edits' \in 0..EditLimit /\ capacity' \in [Person -> Capacity]
  BY <1>1, <1>2, <1>3, BoundsAreNatural DEF TypeOK
<1>6. TypeOK'
  BY <1>1, <1>3, <1>4, <1>5 DEF TypeOK, ranking, reading
<1>7. ASSUME NEW p \in Project PROVE Accounted(p)
  <2>1. Untouched(p) /\ Waiting(p)' = Waiting(p)
    BY <1>3 DEF Untouched, Waiting, ranking
  <2>2. CASE project[p].owner = x
    <3>1. p # None
      BY NoneIsNothing
    <3>2. p \in drift' /\ \A w \in Worker : Building(w, p) => w \in drift'
      BY <1>3, <2>2, <3>1 DEF Drifting, Building
    <3> QED  BY <2>1, <3>2, UntouchedIsMine DEF Accounted
  <2>3. CASE project[p].owner # x
    <3>1. project[p].owner # None => capacity'[project[p].owner] = capacity[project[p].owner]
      BY <1>1, <1>2, <2>3 DEF TypeOK
    <3>2. Overloaded(p)' = Overloaded(p)
      BY <1>3, <3>1, LoadStays, OverloadStays
    <3> QED  BY <2>1, <3>2, UntouchedIsMine DEF Accounted
  <2> QED  BY <2>2, <2>3
<1>8. \A p \in Project : CaughtUp(p)'
  BY <1>1, <1>3, <1>4, <1>7, AccountedStaysCaughtUp
<1>9. Clock'
  BY <1>1, <1>3 DEF Clock, reading
<1> QED  BY <1>1, <1>3, <1>6, <1>8, <1>9, StaysOneLive DEF IInv

\* Steps that change no row a rebuild copies: a day ends, a request reads the
\* live override, a request is refused.
LEMMA QuietStep ==
  ASSUME IInv, NextDay \/ \E s \in Session : Ask(s) \/ Rejected(s)
  PROVE  IInv'
<1> DEFINE Asked == {None} \cup
             [op : {"override", "revoke"}, project : Project, found : SUBSET Override]
<1>1. TypeOK /\ Clock /\ OneLive /\ \A p \in Project : CaughtUp(p)
  BY DEF IInv
<1>2. UNCHANGED <<facts, ranking, pending, reading, edits, drift>>
  BY DEF NextDay, Ask, Rejected
<1>3. today' \in Day /\ today' >= today
  <2>1. CASE NextDay
    BY <1>1, <2>1, Days DEF NextDay, TypeOK, Day
  <2>2. CASE today' = today
    BY <1>1, <2>2, Days DEF TypeOK
  <2> QED  BY <2>1, <2>2 DEF Ask, Rejected
<1>4. request' \in [Session -> Asked]
  <2>1. request \in [Session -> Asked] /\ \A p \in Project : live[p] \in SUBSET Override
    BY <1>1 DEF TypeOK
  <2>2. CASE NextDay
    BY <2>1, <2>2 DEF NextDay
  <2>3. ASSUME NEW s \in Session, Ask(s) PROVE request' \in [Session -> Asked]
    <3>1. PICK p \in Project, op \in {"override", "revoke"} :
            request' = [request EXCEPT ![s] = [op |-> op, project |-> p, found |-> live[p]]]
      BY <2>3 DEF Ask
    <3> QED  BY <2>1, <3>1
  <2>4. ASSUME NEW s \in Session, Rejected(s) PROVE request' \in [Session -> Asked]
    BY <2>1, <2>4 DEF Rejected, Answered
  <2> QED  BY <2>2, <2>3, <2>4
<1>5. TypeOK'
  BY <1>1, <1>2, <1>3, <1>4 DEF TypeOK, facts, ranking, reading
<1>6. ASSUME NEW p \in Project PROVE Accounted(p)
  <2>1. Untouched(p) /\ Waiting(p)' = Waiting(p)
    BY <1>2 DEF Untouched, Waiting, facts, ranking
  <2>2. Overloaded(p)' = Overloaded(p)
    BY <1>2, LoadStays, OverloadStays DEF facts
  <2> QED  BY <2>1, <2>2, UntouchedIsMine DEF Accounted
<1>7. \A p \in Project : CaughtUp(p)'
  BY <1>1, <1>2, <1>6, AccountedStaysCaughtUp
<1>8. Clock'
  <2>1. today \in Nat /\ today' \in Nat
    BY <1>1, <1>3, Days DEF TypeOK
  <2>2. \A w \in Worker : build[w] # None => build[w].facts.asOf \in Nat
    BY <1>1, Days DEF TypeOK, Fact
  <2>3. \A p \in Project : row[p].asOf \in Nat
    BY <1>1, Days DEF TypeOK, Fact
  <2> QED  BY <1>1, <1>2, <1>3, <2>1, <2>2, <2>3, Days DEF Clock, reading
<1> QED  BY <1>1, <1>2, <1>5, <1>7, <1>8, StaysOneLive DEF IInv

\* The decisions on an override.
LEMMA DecisionStep ==
  ASSUME IInv, NEW s \in Session, OverridePriority(s) \/ RevokeOverride(s)
  PROVE  IInv'
<1> DEFINE p == request[s].project
           found == request[s].found
<1>1. /\ TypeOK /\ Clock /\ OneLive /\ \A q \in Project : CaughtUp(q)
      /\ request[s] # None
  BY DEF IInv, OverridePriority, RevokeOverride
<1>2. p \in Project /\ found \subseteq Override
  BY <1>1 DEF TypeOK
<1>3. /\ Commit(p, TRUE) /\ Announced(p) /\ Answered(s)
      /\ UNCHANGED <<today, project, task, obstacles, capacity, score, reading, drift>>
  BY DEF OverridePriority, RevokeOverride
<1>4. /\ edits' \in 0..EditLimit /\ edits + 1 \in 0..EditLimit
      /\ last' \in [Project -> Day] /\ pending' \in [Project \X Day -> Nat]
  BY <1>1, <1>2, <1>3, CommitCounts, AnnouncedWaits
<1>5. PICK new \in Override \cup {None} :
        /\ live' = [live EXCEPT ![p] = (@ \ found) \cup ({new} \ {None})]
        /\ decided' = [decided EXCEPT ![p] = new]
        /\ crossed' \subseteq crossed \cup {p}
        /\ crossed \ {p} \subseteq crossed'
        /\ new # None => live[p] \ found = {}
        /\ p \notin crossed' => live[p] \ found = {}
  <2>1. CASE OverridePriority(s)
    <3>1. PICK day \in Day \cup {None} :
            /\ live' = [live EXCEPT ![p] =
                          (@ \ found) \cup {[id |-> edits + 1, expires |-> day]}]
            /\ decided' = [decided EXCEPT ![p] = [id |-> edits + 1, expires |-> day]]
      BY <2>1 DEF OverridePriority
    <3>2. [id |-> edits + 1, expires |-> day] \in Override
      BY <1>4 DEF Override
    <3>3. live[p] \ found = {} /\ crossed' = crossed \ {p}
      BY <2>1 DEF OverridePriority, Clashes
    <3>4. [id |-> edits + 1, expires |-> day] # None
      BY <3>2, NoneIsNothing
    <3> QED  BY <3>1, <3>2, <3>3, <3>4
  <2>2. CASE RevokeOverride(s)
    <3>1. /\ live' = [live EXCEPT ![p] = @ \ found]
          /\ decided' = [decided EXCEPT ![p] = None]
          /\ crossed' = IF live[p] \ found = {} THEN crossed \ {p} ELSE crossed \cup {p}
      BY <2>2 DEF RevokeOverride
    <3>2. (live[p] \ found) \cup ({None} \ {None}) = live[p] \ found
      OBVIOUS
    <3> QED  BY <3>1, <3>2
  <2> QED  BY <2>1, <2>2
<1>6. /\ live' \in [Project -> SUBSET Override]
      /\ decided' \in [Project -> Override \cup {None}]
      /\ crossed' \subseteq Project
  BY <1>1, <1>2, <1>5 DEF TypeOK
<1>7. request' \in [Session -> {None} \cup
         [op : {"override", "revoke"}, project : Project, found : SUBSET Override]]
  BY <1>1, <1>3 DEF TypeOK, Answered
<1>8. TypeOK'
  BY <1>1, <1>3, <1>4, <1>6, <1>7 DEF TypeOK, reading
<1>9. OneLive'
  <2>1. /\ live'[p] = (live[p] \ found) \cup ({new} \ {None}) /\ decided'[p] = new
        /\ \A q \in Project : q # p => live'[q] = live[q] /\ decided'[q] = decided[q]
    BY <1>1, <1>2, <1>5 DEF TypeOK
  <2>2. live[p] = {} \/ \E o \in Override : live[p] = {o}
    BY <1>1, <1>2 DEF OneLive
  <2>3. live'[p] = {} \/ \E o \in Override : live'[p] = {o}
    BY <1>5, <2>1, <2>2
  <2>4. p \notin crossed' => live'[p] = {decided'[p]} \ {None}
    BY <1>5, <2>1
  <2>5. ASSUME NEW q \in Project, q # p
        PROVE  /\ live'[q] = {} \/ \E o \in Override : live'[q] = {o}
               /\ q \notin crossed' => live'[q] = {decided'[q]} \ {None}
    BY <1>1, <1>5, <2>1, <2>5 DEF OneLive
  <2> QED  BY <2>3, <2>4, <2>5 DEF OneLive
<1>10. \A q \in Project : q # p => live'[q] = live[q]
  BY <1>1, <1>2, <1>5 DEF TypeOK
<1>11. \A q \in Project : Accounted(q)
  BY <1>1, <1>2, <1>3, <1>10, CommitIsAccounted
<1>12. Clock' /\ \A q \in Project : CaughtUp(q)'
  BY <1>1, <1>2, <1>3, <1>11, AnnouncedKeepsUp
<1> QED  BY <1>8, <1>9, <1>12 DEF IInv

-----------------------------------------------------------------------------
(***************************************************************************)
(* The snapshot-builder.                                                   *)
(***************************************************************************)

\* Nothing a worker does changes what there is to copy.
LEMMA FactsStay ==
  ASSUME NEW p \in Project, UNCHANGED <<facts, ranking>>
  PROVE  Mine(p)' = Mine(p) /\ Overloaded(p)' = Overloaded(p)
<1>1. Untouched(p)
  BY DEF Untouched, facts, ranking
<1> QED  BY <1>1, UntouchedIsMine, LoadStays, OverloadStays DEF facts

LEMMA ReadStep ==
  ASSUME IInv, NEW w \in Worker, Read(w)
  PROVE  IInv'
<1>1. /\ TypeOK /\ Clock /\ OneLive /\ \A p \in Project : CaughtUp(p)
      /\ build[w] = None
      /\ UNCHANGED <<today, facts, ranking, row, muddled, request, edits>>
      /\ drift' = drift \ {w} /\ overtaken' = overtaken \ {w}
  BY DEF IInv, Read
<1>2. PICK q \in Project, day \in Day :
        /\ pending[<<q, day>>] > 0
        /\ pending' = [pending EXCEPT ![<<q, day>>] = @ - 1]
        /\ build' = [build EXCEPT ![w] = [project |-> q, facts |-> Facts(q, day)]]
  BY DEF Read
<1> DEFINE held == [project |-> q, facts |-> Facts(q, day)]
           Held == {None} \cup [project : Project, facts : Fact]
<1>3. /\ held \in Held /\ build' \in [Worker -> Held] /\ build'[w] = held
      /\ \A v \in Worker : v # w => build'[v] = build[v]
  BY <1>1, <1>2, FactsAreFact DEF TypeOK
<1>4. /\ pending' \in [Project \X Day -> Nat]
      /\ \A p \in Project, d \in Day : pending'[<<p, d>>] > 0 => pending[<<p, d>>] > 0
      /\ \A p \in Project, d \in Day : p # q => pending'[<<p, d>>] = pending[<<p, d>>]
  <2>1. pending \in [Project \X Day -> Nat] /\ <<q, day>> \in Project \X Day
    BY <1>1 DEF TypeOK
  <2>2. pending[<<q, day>>] - 1 \in Nat
    BY <1>2, <2>1
  <2>3. \A e \in Project \X Day : e # <<q, day>> => pending'[e] = pending[e]
    BY <1>2, <2>1
  <2>4. pending' \in [Project \X Day -> Nat]
    BY <1>2, <2>1, <2>2
  <2>5. \A p \in Project, d \in Day : p # q => <<p, d>> # <<q, day>>
    OBVIOUS
  <2> QED  BY <1>2, <2>1, <2>3, <2>4, <2>5
<1>5. TypeOK'
  BY <1>1, <1>3, <1>4 DEF TypeOK, facts, ranking
<1>6. Clock'
  <2>1. day <= today /\ held.facts.asOf = day
    BY <1>1, <1>2 DEF Clock, Facts
  <2> QED  BY <1>1, <1>3, <1>4, <2>1 DEF Clock
<1>7. OneLive'
  BY <1>1, StaysOneLive
<1>8. held # None
  BY <1>1, <1>2, NoneIsNoRebuild, FactsAreFact
<1>9. ASSUME NEW p \in Project PROVE CaughtUp(p)'
  <2>1. CASE p = q
    <3>1. Kept(held.facts) = Mine(p)[held.facts.asOf]
          /\ held.facts.overloaded = Overloaded(p)
      BY <2>1, FactsAreGood DEF Good, Facts
    <3>2. Good(p, build[w].facts, w \in drift)'
      BY <1>1, <1>3, <3>1, FactsStay DEF Good
    <3>3. Building(w, p)'
      BY <1>3, <1>8, <2>1 DEF Building
    <3> QED  BY <3>2, <3>3 DEF CaughtUp
  <2>2. CASE p # q
    <3>1. \A v \in Worker : Building(v, p)' = Building(v, p)
      BY <1>1, <1>3, <1>8, <2>2 DEF Building
    <3>2. Waiting(p)' = Waiting(p)
      BY <1>4, <2>2 DEF Waiting
    <3>3. ASSUME NEW v \in Worker, Building(v, p), Good(p, build[v].facts, v \in drift)
          PROVE  Good(p, build[v].facts, v \in drift)'
      <4>1. v # w
        BY <1>1, <3>3 DEF Building
      <4> QED  BY <1>1, <1>3, <3>3, <4>1, FactsStay DEF Good
    <3>4. Good(p, row[p], p \in drift) => Good(p, row[p], p \in drift)'
      <4>1. p # w
        BY KindsOfActor
      <4> QED  BY <1>1, <4>1, FactsStay DEF Good
    <3>5. (\E v \in overtaken : Building(v, p)) => (\E v \in overtaken : Building(v, p))'
      BY <1>1, <3>1 DEF Building, TypeOK
    <3> QED  BY <1>1, <3>1, <3>2, <3>3, <3>4, <3>5 DEF CaughtUp
  <2> QED  BY <2>1, <2>2
<1> QED  BY <1>5, <1>6, <1>7, <1>9 DEF IInv

LEMMA WriteStep ==
  ASSUME IInv, NEW w \in Worker, Write(w)
  PROVE  IInv'
<1>0. PICK q \in Project : q = build[w].project /\ build[w].facts \in Fact
  BY DEF IInv, TypeOK, Write
<1> DEFINE Held == {None} \cup [project : Project, facts : Fact]
           rivals == {v \in Worker \ {w} : build[v] # None /\ build[v].project = q}
<1>1. /\ TypeOK /\ Clock /\ OneLive /\ \A p \in Project : CaughtUp(p)
      /\ build[w] # None
      /\ UNCHANGED <<today, facts, ranking, pending, request, edits>>
      /\ build' = [build EXCEPT ![w] = None]
      /\ row' = [row EXCEPT ![q] = build[w].facts]
      /\ drift' = IF w \in drift THEN (drift \ {w}) \cup {q} ELSE drift \ {q}
      /\ muddled' = IF w \in overtaken THEN muddled \cup {q} ELSE muddled \ {q}
      /\ overtaken' = (overtaken \ {w}) \cup rivals
  BY <1>0 DEF IInv, Write
<1>2. q \in Project /\ build[w].facts \in Fact
  BY <1>0
<1>3. /\ build' \in [Worker -> Held] /\ build'[w] = None
      /\ \A v \in Worker : v # w => build'[v] = build[v]
  BY <1>1 DEF TypeOK
<1>4. /\ row' \in [Project -> Fact] /\ row'[q] = build[w].facts
      /\ \A p \in Project : p # q => row'[p] = row[p]
  BY <1>1, <1>2 DEF TypeOK
<1>5. /\ muddled' \subseteq Project /\ drift' \subseteq Project \cup Worker
      /\ overtaken' \subseteq Worker
  BY <1>1, <1>2 DEF TypeOK
<1>6. TypeOK'
  BY <1>1, <1>3, <1>4, <1>5 DEF TypeOK, facts, ranking
<1>7. Clock'
  <2>1. /\ \A v \in Worker : build[v] # None => build[v].facts.asOf <= today
        /\ \A p \in Project : row[p].asOf <= today
        /\ \A p \in Project, d \in Day : pending[<<p, d>>] > 0 => d <= today
    BY <1>1 DEF Clock
  <2>2. today' = today /\ pending' = pending
    BY <1>1
  <2>3. \A p \in Project : row'[p].asOf <= today
    BY <1>1, <1>4, <2>1
  <2>4. \A v \in Worker : build'[v] # None => build'[v].facts.asOf <= today
    BY <1>3, <2>1
  <2> QED  BY <2>1, <2>2, <2>3, <2>4 DEF Clock
<1>8. OneLive'
  BY <1>1, StaysOneLive
<1>9. \A p \in Project : Waiting(p)' = Waiting(p)
  BY <1>1 DEF Waiting
<1>10. CaughtUp(q)'
  <2>1. CASE Waiting(q)
    BY <1>9, <2>1 DEF CaughtUp
  <2>2. CASE rivals # {}
    <3>1. PICK v \in rivals : TRUE
      BY <2>2
    <3>2. v \in overtaken' /\ Building(v, q)'
      BY <1>1, <1>3, <3>1 DEF Building
    <3> QED  BY <3>2 DEF CaughtUp
  <2>3. CASE rivals = {} /\ ~Waiting(q)
    <3>1. \A v \in Worker : Building(v, q) => v = w
      BY <2>3 DEF Building
    <3>2. \A v \in Worker : ~Building(v, q)'
      BY <1>3, <3>1 DEF Building
    <3>3. CASE w \in overtaken
      BY <1>1, <3>2, <3>3 DEF CaughtUp
    <3>4. CASE w \notin overtaken
      <4>1. Building(w, q)
        BY <1>0, <1>1 DEF Building
      <4>2. ~\E v \in overtaken : Building(v, q)
        BY <1>1, <3>1, <3>4 DEF TypeOK
      <4>3. Good(q, build[w].facts, w \in drift)
        BY <1>1, <1>2, <2>3, <3>1, <4>1, <4>2 DEF CaughtUp
      <4>4. w \in drift => q \in drift'
        BY <1>1
      <4>5. Kept(build[w].facts) = Mine(q)[build[w].facts.asOf]
            /\ (q \in drift' \/ build[w].facts.overloaded = Overloaded(q))
        BY <4>3, <4>4 DEF Good
      <4>6. Mine(q)' = Mine(q) /\ Overloaded(q)' = Overloaded(q)
        BY <1>1, <1>2, FactsStay
      <4>7. Good(q, row[q], q \in drift)'
        BY <1>4, <4>5, <4>6 DEF Good
      <4> QED  BY <3>2, <4>7 DEF CaughtUp
    <3> QED  BY <3>3, <3>4
  <2> QED  BY <2>1, <2>2, <2>3
<1>11. ASSUME NEW p \in Project, p # q PROVE CaughtUp(p)'
  <2>1. \A v \in Worker : Building(v, p)' = Building(v, p)
    BY <1>0, <1>3, <1>11 DEF Building
  <2>2. ASSUME NEW v \in Worker, Building(v, p), Good(p, build[v].facts, v \in drift)
        PROVE  Good(p, build[v].facts, v \in drift)'
    <3>1. v # w /\ v # q
      BY <1>0, <1>11, <2>2, KindsOfActor DEF Building
    <3>2. v \in drift' <=> v \in drift
      BY <1>1, <3>1
    <3>3. Mine(p)' = Mine(p) /\ Overloaded(p)' = Overloaded(p)
      BY <1>1, FactsStay
    <3> QED  BY <1>3, <2>2, <3>1, <3>2, <3>3 DEF Good
  <2>3. Good(p, row[p], p \in drift) => Good(p, row[p], p \in drift)'
    <3>1. p \in drift' <=> p \in drift
      BY <1>1, <1>11, KindsOfActor
    <3>2. Mine(p)' = Mine(p) /\ Overloaded(p)' = Overloaded(p)
      BY <1>1, FactsStay
    <3> QED  BY <1>4, <1>11, <3>1, <3>2 DEF Good
  <2>4. (\E v \in overtaken : Building(v, p)) => (\E v \in overtaken : Building(v, p))'
    <3>1. \A v \in overtaken : Building(v, p) => v # w /\ v \in Worker
      BY <1>0, <1>1, <1>11 DEF Building, TypeOK
    <3> QED  BY <1>1, <2>1, <3>1
  <2>5. p \in muddled => p \in muddled'
    BY <1>1, <1>11
  <2> QED  BY <1>1, <1>9, <2>1, <2>2, <2>3, <2>4, <2>5 DEF CaughtUp
<1> QED  BY <1>2, <1>6, <1>7, <1>8, <1>10, <1>11 DEF IInv

LEMMA AbortStep ==
  ASSUME IInv, NEW w \in Worker, Abort(w)
  PROVE  IInv'
<1>0. PICK q \in Project, d \in Day : q = build[w].project /\ d = build[w].facts.asOf
  BY DEF IInv, TypeOK, Abort, Fact
<1> DEFINE Held == {None} \cup [project : Project, facts : Fact]
<1>1. /\ TypeOK /\ Clock /\ OneLive /\ \A p \in Project : CaughtUp(p)
      /\ build[w] # None
      /\ pending' = [pending EXCEPT ![<<q, d>>] = @ + 1]
      /\ build' = [build EXCEPT ![w] = None]
      /\ drift' = drift \ {w} /\ overtaken' = overtaken \ {w}
      /\ UNCHANGED <<today, facts, ranking, row, muddled, request, edits>>
  BY <1>0 DEF IInv, Abort
<1>2. q \in Project /\ d \in Day
  BY <1>0
<1>3. /\ build' \in [Worker -> Held] /\ build'[w] = None
      /\ \A v \in Worker : v # w => build'[v] = build[v]
  BY <1>1 DEF TypeOK
<1>4. /\ pending' \in [Project \X Day -> Nat] /\ pending'[<<q, d>>] > 0
      /\ \A p \in Project, e \in Day : <<p, e>> # <<q, d>> =>
           pending'[<<p, e>>] = pending[<<p, e>>]
  BY <1>1, <1>2 DEF TypeOK
<1>5. TypeOK'
  BY <1>1, <1>3, <1>4 DEF TypeOK, facts, ranking
<1>6. Clock'
  BY <1>0, <1>1, <1>3, <1>4 DEF Clock
<1>7. OneLive'
  BY <1>1, StaysOneLive
<1>8. ASSUME NEW p \in Project PROVE CaughtUp(p)'
  <2>1. CASE p = q
    BY <1>2, <1>4, <2>1 DEF CaughtUp, Waiting
  <2>2. CASE p # q
    <3>1. \A v \in Worker : Building(v, p)' = Building(v, p)
      BY <1>0, <1>3, <2>2 DEF Building
    <3>2. Waiting(p)' = Waiting(p)
      <4>1. \A e \in Day : <<p, e>> # <<q, d>>
        BY <2>2
      <4> QED  BY <1>4, <4>1 DEF Waiting
    <3>3. Mine(p)' = Mine(p) /\ Overloaded(p)' = Overloaded(p)
      BY <1>1, FactsStay
    <3>4. ASSUME NEW v \in Worker, Building(v, p), Good(p, build[v].facts, v \in drift)
          PROVE  Good(p, build[v].facts, v \in drift)'
      <4>1. v # w
        BY <1>0, <2>2, <3>4 DEF Building
      <4> QED  BY <1>1, <1>3, <3>3, <3>4, <4>1 DEF Good
    <3>5. Good(p, row[p], p \in drift) => Good(p, row[p], p \in drift)'
      BY <1>1, <3>3, KindsOfActor DEF Good
    <3>6. (\E v \in overtaken : Building(v, p)) => (\E v \in overtaken : Building(v, p))'
      <4>1. \A v \in overtaken : Building(v, p) => v # w /\ v \in Worker
        BY <1>0, <1>1, <2>2 DEF Building, TypeOK
      <4> QED  BY <1>1, <3>1, <4>1
    <3> QED  BY <1>1, <3>1, <3>2, <3>4, <3>5, <3>6 DEF CaughtUp
  <2> QED  BY <2>1, <2>2
<1> QED  BY <1>5, <1>6, <1>7, <1>8 DEF IInv

-----------------------------------------------------------------------------
LEMMA StepIInv == IInv /\ [Next]_vars => IInv'
<1> SUFFICES ASSUME IInv, [Next]_vars PROVE IInv'
  OBVIOUS
<1>1. CASE UNCHANGED vars
  <2>1. UNCHANGED <<today, facts, ranking, pending, reading, request, edits, drift>>
    BY <1>1 DEF vars
  <2>2. TypeOK' /\ Clock' /\ OneLive'
    BY <2>1 DEF IInv, TypeOK, Clock, OneLive, facts, ranking, reading
  <2>3. ASSUME NEW p \in Project PROVE CaughtUp(p)'
    <3>1. Accounted(p)
      BY <2>1, FactsStay DEF Accounted, Waiting
    <3> QED  BY <2>1, <3>1, AccountedStaysCaughtUp DEF IInv
  <2> QED  BY <2>2, <2>3 DEF IInv
<1>2. CASE NextDay \/ \E s \in Session : Ask(s) \/ Rejected(s)
  BY <1>2, QuietStep
<1>3. CASE \E p \in Project :
             \/ UpdateProject(p) \/ TransitionProject(p) \/ AddNote(p)
             \/ RaiseBlocker(p) \/ ResolveBlocker(p) \/ Rescore(p)
  BY <1>3, ProjectStep
<1>4. CASE \E t \in Task : CreateTask(t) \/ UpdateTask(t) \/ TransitionTask(t)
  BY <1>4, TaskStep
<1>5. CASE \E x \in Person : UpdateCapacity(x)
  BY <1>5, CapacityStep
<1>6. CASE \E s \in Session : OverridePriority(s) \/ RevokeOverride(s)
  BY <1>6, DecisionStep
<1>7. CASE \E w \in Worker : Read(w) \/ Write(w) \/ Abort(w)
  BY <1>7, ReadStep, WriteStep, AbortStep
<1> QED  BY <1>1, <1>2, <1>3, <1>4, <1>5, <1>6, <1>7 DEF Next

LEMMA InductiveInvariant == Spec => []IInv
BY InitIInv, StepIInv, PTL DEF Spec

\* A row nobody waits for and no overtaken worker wrote is what a rebuild would
\* copy now, but for a load that has drifted.
LEMMA SettledRowIsGood ==
  ASSUME IInv, NEW p \in Project, Settled(p), p \notin muddled
  PROVE  Good(p, row[p], p \in drift)
<1>1. ~Waiting(p)
  <2>1. \A day \in Day : pending[<<p, day>>] = 0
    BY DEF Settled
  <2>2. \A day \in Day : ~(pending[<<p, day>>] > 0)
    BY <2>1
  <2> QED  BY <2>2 DEF Waiting
<1>2. \A w \in Worker : ~Building(w, p)
  BY DEF Settled, Building
<1> QED  BY <1>1, <1>2 DEF IInv, CaughtUp, TypeOK

\* When a flag is raised.
LEMMA RaisedFlags ==
  ASSUME NEW f, NEW day, NEW x
  PROVE  x \in Flags(f, day) <=>
           /\ ~f.archived
           /\ \/ x = "BLOCKED" /\ f.blocked
              \/ x = "OVERDUE" /\ (f.late \/ (f.target # None /\ f.target < day))
              \/ x = "NO_NEXT_STEP" /\ ~f.step /\ ~f.busy
              \/ x = "NO_TARGET_DATE" /\ f.target = None
              \/ x = "STALE" /\ day >= f.last + StaleAfter
              \/ x = "OWNER_OVERLOADED" /\ f.overloaded
<1> DEFINE raised == [
      BLOCKED          |-> f.blocked,
      OVERDUE          |-> f.late \/ (f.target # None /\ f.target < day),
      NO_NEXT_STEP     |-> ~f.step /\ ~f.busy,
      NO_TARGET_DATE   |-> f.target = None,
      STALE            |-> day >= f.last + StaleAfter,
      OWNER_OVERLOADED |-> f.overloaded]
<1>1. DOMAIN raised = {"BLOCKED", "OVERDUE", "NO_NEXT_STEP", "NO_TARGET_DATE", "STALE",
                       "OWNER_OVERLOADED"}
  OBVIOUS
<1>2. /\ raised["BLOCKED"] = f.blocked
      /\ raised["OVERDUE"] = (f.late \/ (f.target # None /\ f.target < day))
      /\ raised["NO_NEXT_STEP"] = (~f.step /\ ~f.busy)
      /\ raised["NO_TARGET_DATE"] = (f.target = None)
      /\ raised["STALE"] = (day >= f.last + StaleAfter)
      /\ raised["OWNER_OVERLOADED"] = f.overloaded
  OBVIOUS
<1>3. x \in Flags(f, day) <=> x \in DOMAIN raised /\ ~f.archived /\ raised[x]
  BY DEF Flags
<1> HIDE DEF raised
<1> QED  BY <1>1, <1>2, <1>3, Zenon

\* The facts, the rows, the rebuilds and the decisions stay well formed, for any
\* projects, tasks, people, workers, requests and bounds.
THEOREM CommandCenterTypeCorrect == Spec => []TypeOK
<1>1. IInv => TypeOK
  BY DEF IInv
<1> QED  BY <1>1, InductiveInvariant, PTL

\* One override is live per project, and it is the last decision but for a
\* crossed revocation (apply_override): the index excludes the rest.
THEOREM DecisionsStand == Spec => []LastDecisionStands
<1>1. IInv => LastDecisionStands
  <2> SUFFICES ASSUME IInv, NEW p \in Project
               PROVE  /\ Cardinality(live[p]) <= 1
                      /\ p \notin crossed => live[p] = {decided[p]} \ {None}
    BY DEF LastDecisionStands
  <2>1. live[p] = {} \/ \E o \in Override : live[p] = {o}
    BY DEF IInv, OneLive
  <2>2. Cardinality(live[p]) = 0 \/ Cardinality(live[p]) = 1
    BY <2>1, FS_EmptySet, FS_Singleton
  <2> QED  BY <2>2 DEF IInv, OneLive
<1> QED  BY <1>1, InductiveInvariant, PTL

\* A settled row shows the forced position in force, or one that has expired
\* since it was built.
THEOREM OverridesShow == Spec => []SettledQueueShowsTheOverride
<1>1. IInv => SettledQueueShowsTheOverride
  <2> SUFFICES ASSUME IInv, NEW p \in Project, Settled(p), p \notin muddled
               PROVE  /\ Standing(p, today) \subseteq row[p].override
                      /\ \A o \in row[p].override \ Standing(p, today) :
                           o \in live[p] /\ row[p].asOf < o.expires
    BY DEF SettledQueueShowsTheOverride
  <2>1. /\ row[p].asOf \in Day /\ today \in Day /\ row[p].asOf <= today
        /\ live[p] \subseteq Override
    BY DEF IInv, TypeOK, Clock, Fact
  <2>2. row[p].override = Placed(p, row[p].asOf)
    BY <2>1, SettledRowIsGood DEF Good, Kept, Mine
  <2>3. row[p].asOf \in Nat /\ today \in Nat
    BY <2>1, Days
  <2>4. \A o \in live[p] : o.expires = None \/ o.expires \in Nat
    BY <2>1, Days DEF Override
  <2>5. ASSUME NEW o \in live[p], o.expires = None \/ o.expires > today
        PROVE  o.expires = None \/ o.expires > row[p].asOf
    BY <2>1, <2>3, <2>4, <2>5
  <2>6. Standing(p, today) \subseteq row[p].override
    BY <2>2, <2>5 DEF Placed, Standing
  <2>7. ASSUME NEW o \in row[p].override, o \notin Standing(p, today)
        PROVE  o \in live[p] /\ row[p].asOf < o.expires
    <3>1. o \in live[p] /\ o.expires # None /\ o.expires > row[p].asOf
      BY <2>2, <2>7 DEF Placed, Standing
    <3> QED  BY <2>3, <2>4, <3>1
  <2> QED  BY <2>6, <2>7
<1> QED  BY <1>1, InductiveInvariant, PTL

\* Once its events are delivered, the queue raises for a project the flags its
\* page raises, but for those a later day or another project's work excuses.
THEOREM QueueAgrees == Spec => []SettledQueueAgreesWithDetail
<1>1. IInv => SettledQueueAgreesWithDetail
  <2> SUFFICES ASSUME IInv, NEW p \in Project, Settled(p), p \notin muddled
               PROVE  QueueFlags(p) \ Excused(p) = Detail(p) \ Excused(p)
    BY DEF SettledQueueAgreesWithDetail
  <2> DEFINE f == row[p]
             g == Collected(p)
  <2>1. f.asOf \in Day /\ today \in Day /\ f.asOf <= today
    BY DEF IInv, TypeOK, Clock, Fact
  <2>2. Good(p, f, p \in drift)
    BY SettledRowIsGood
  <2>3. /\ f.archived = g.archived /\ f.blocked = g.blocked /\ f.busy = g.busy
        /\ f.step = g.step /\ f.target = g.target /\ f.last = g.last
        /\ f.late = \E t \in BoardOf(p) : Late(t, f.asOf)
    BY <2>1, <2>2 DEF Good, Kept, Mine, Collected
  <2>4. p \notin drift => f.overloaded = g.overloaded
    BY <2>2 DEF Good, Collected
  <2>5. ~DueSince(p) => f.late = g.late
    <3>1. \A t \in BoardOf(p) : task[t].due = None \/ task[t].due \in Nat
      BY BoundsAreNatural, Days DEF IInv, TypeOK, BoardOf, OnBoard
    <3>2. \A t \in BoardOf(p) : Late(t, f.asOf) => Late(t, today)
      <4>1. f.asOf \in Nat /\ today \in Nat /\ f.asOf <= today
        BY <2>1, Days
      <4> HIDE DEF f
      <4> QED  BY <3>1, <4>1 DEF Late
    <3>3. ~DueSince(p) => \A t \in BoardOf(p) : Late(t, today) => Late(t, f.asOf)
      BY DEF DueSince
    <3>4. g.late = \E t \in BoardOf(p) : Late(t, today)
      BY DEF Collected
    <3> QED  BY <2>3, <3>2, <3>3, <3>4
  <2>6. ASSUME NEW x, x \notin Excused(p)
        PROVE  x \in Flags(f, today) <=> x \in Flags(g, today)
    <3>1. /\ x = "OWNER_OVERLOADED" => f.overloaded = g.overloaded
          /\ x = "OVERDUE" => f.late = g.late
      BY <2>4, <2>5, <2>6 DEF Excused
    <3> HIDE DEF f, g
    <3>2. f.last = g.last /\ f.target = g.target /\ f.archived = g.archived
          /\ f.blocked = g.blocked /\ (~f.step /\ ~f.busy <=> ~g.step /\ ~g.busy)
      BY <2>3
    <3> QED  BY <3>1, <3>2, RaisedFlags
  <2> QED  BY <2>6 DEF QueueFlags, Detail
<1> QED  BY <1>1, InductiveInvariant, PTL

-----------------------------------------------------------------------------
(***************************************************************************)
(* The pages of the queue.                                                 *)
(***************************************************************************)

\* The tiebreaker makes the order of the queue strict and total.
LEMMA QueueOrderIsStrict ==
  ASSUME TypeOK, NEW p \in Project, NEW q \in Project
  PROVE  /\ ~(Precedes(p, q) /\ Precedes(q, p))
         /\ p # q => Precedes(p, q) \/ Precedes(q, p)
<1>1. row[p].score \in Nat /\ row[q].score \in Nat
  BY BoundsAreNatural DEF TypeOK, Fact
<1>2. /\ CodeRank[p] \in Nat /\ CodeRank[q] \in Nat
      /\ CodeRank[p] = CodeRank[q] => p = q
  BY CodesAreUnique
<1> QED  BY <1>1, <1>2 DEF Precedes

\* An answer lists every row, and lists one before another as the order has it.
LEMMA AnswersAreInOrder ==
  ASSUME TypeOK, NEW rows \in SUBSET Project, NEW o \in Orders(rows),
         NEW p \in rows, NEW q \in rows
  PROVE  (\E i, j \in DOMAIN o : i < j /\ o[i] = q /\ o[j] = p) <=> Precedes(q, p)
<1> DEFINE N == Cardinality(rows)
<1>1. IsFiniteSet(rows) /\ N \in Nat
  BY PortfolioIsFinite, FS_Subset, FS_CardinalityType
<1>2. /\ o \in [1..N -> rows]
      /\ \A i, j \in 1..N : i < j => o[i] # o[j] /\ ~Precedes(o[j], o[i])
  BY DEF Orders
<1> HIDE DEF N
<1>3. o \in Surjection(1..N, rows)
  <2>1. \A i, j \in 1..N : i # j => i < j \/ j < i
    BY <1>1
  <2>2. o \in Injection(1..N, rows)
    BY <1>2, <2>1 DEF Injection, IsInjective
  <2>3. IsFiniteSet(1..N) /\ Cardinality(1..N) = N
    BY <1>1, FS_Interval
  <2> QED  BY <1>1, <2>2, <2>3, FS_Injection DEF N
<1>4. PICK i \in 1..N, j \in 1..N : o[i] = q /\ o[j] = p
  BY <1>3 DEF Surjection
<1>5. ASSUME Precedes(q, p) PROVE i < j
  <2>1. p # q
    BY <1>5, QueueOrderIsStrict
  <2>2. ~(j < i)
    BY <1>2, <1>4, <1>5
  <2> QED  BY <1>1, <1>4, <2>1, <2>2
<1>6. ASSUME NEW k \in 1..N, NEW m \in 1..N, k < m, o[k] = q, o[m] = p
      PROVE  Precedes(q, p)
  BY <1>2, <1>6, QueueOrderIsStrict
<1> QED  BY <1>2, <1>4, <1>5, <1>6

\* However the database answers, as many are ahead of a project, and at most
\* all of the others.
LEMMA EveryAnswerAgrees ==
  ASSUME TypeOK, NEW rows \in SUBSET Project, NEW wanted \in SUBSET rows,
         NEW p \in wanted
  PROVE  LET k == Cardinality({q \in wanted : Precedes(q, p)}) IN
         /\ \A o \in Orders(rows) : Ahead(o, wanted, p) = k
         /\ k \in Nat /\ Cardinality(wanted) \in Nat /\ k <= Cardinality(wanted) - 1
<1> DEFINE before == {q \in wanted : Precedes(q, p)}
<1>1. ASSUME NEW o \in Orders(rows)
      PROVE  {q \in wanted : \E i, j \in DOMAIN o : i < j /\ o[i] = q /\ o[j] = p} = before
  BY AnswersAreInOrder
<1>2. before \subseteq wanted \ {p}
  BY QueueOrderIsStrict
<1>3. IsFiniteSet(wanted) /\ IsFiniteSet(wanted \ {p})
      /\ Cardinality(wanted \ {p}) = Cardinality(wanted) - 1
      /\ Cardinality(wanted) \in Nat
  <2>1. IsFiniteSet(wanted)
    BY PortfolioIsFinite, FS_Subset
  <2> QED  BY <2>1, FS_RemoveElement, FS_CardinalityType
<1> HIDE DEF before
<1>4. Cardinality(before) \in Nat /\ Cardinality(before) <= Cardinality(wanted) - 1
  <2>1. IsFiniteSet(before) /\ Cardinality(before) <= Cardinality(wanted \ {p})
    BY <1>2, <1>3, FS_Subset
  <2> QED  BY <1>3, <2>1, FS_CardinalityType
<1> QED  BY <1>1, <1>3, <1>4 DEF Ahead, before

LEMMA PagesAreCounted ==
  ASSUME NEW k \in Nat, NEW c \in Nat, k <= c - 1
  PROVE  k \div PageSize \in 0..((c - 1) \div PageSize)
<1>1. PageSize \in Nat \ {0} /\ c - 1 \in Nat
  BY BoundsAreNatural
<1>2. \A d \in Nat \ {0}, b \in Nat :
        k <= b => k \div d \in Nat /\ b \div d \in Nat /\ k \div d <= b \div d
  OBVIOUS
<1> QED  BY <1>1, <1>2

\* The pages of any listing hold every project that matches, once, though each
\* of them is a query of its own: in_queue_order ends in the code of the
\* project, and codes are unique.
THEOREM PagesCover == Spec => []PagesCoverTheQueue
<1>1. ASSUME TypeOK, NEW archived \in BOOLEAN, NEW health \in Health \cup {None},
             NEW p \in Matching(Rows(archived), health),
             NEW answer \in [0..((Cardinality(Matching(Rows(archived), health)) - 1)
                                 \div PageSize) -> Orders(Rows(archived))]
      PROVE  Cardinality({n \in 0..((Cardinality(Matching(Rows(archived), health)) - 1)
                                     \div PageSize) :
                p \in Page(answer[n], Matching(Rows(archived), health), n)}) = 1
  <2> DEFINE rows == Rows(archived)
             wanted == Matching(rows, health)
             pages == 0..((Cardinality(wanted) - 1) \div PageSize)
             k == Cardinality({q \in wanted : Precedes(q, p)})
             at == k \div PageSize
  <2>1. rows \in SUBSET Project /\ wanted \in SUBSET rows /\ p \in wanted
    BY DEF Rows, Matching
  <2>2. answer \in [pages -> Orders(rows)]
    OBVIOUS
  <2> HIDE DEF rows, wanted
  <2>3. /\ \A o \in Orders(rows) : Ahead(o, wanted, p) = k
        /\ k \in Nat /\ Cardinality(wanted) \in Nat /\ k <= Cardinality(wanted) - 1
    BY <1>1, <2>1, EveryAnswerAgrees
  <2> HIDE DEF k
  <2>4. at \in pages
    BY <2>3, PagesAreCounted
  <2> HIDE DEF pages
  <2>5. \A n \in pages : p \in Page(answer[n], wanted, n) <=> n = at
    BY <2>1, <2>2, <2>3 DEF Page
  <2>6. {n \in pages : p \in Page(answer[n], wanted, n)} = {at}
    BY <2>4, <2>5
  <2>7. Cardinality({n \in pages : p \in Page(answer[n], wanted, n)}) = 1
    BY <2>6, FS_Singleton
  <2> QED  BY <2>7 DEF pages, wanted, rows
<1>2. TypeOK => PagesCoverTheQueue
  BY <1>1 DEF PagesCoverTheQueue
<1> QED  BY <1>2, CommandCenterTypeCorrect, PTL

-----------------------------------------------------------------------------
(***************************************************************************)
(* What would make two of the exceptions vanish.  Nothing in the code      *)
(* keeps two operators from deciding on one project at once, nor two       *)
(* workers from rebuilding it: a lock of the project's row would.          *)
(***************************************************************************)
OneDecisionPerProject ==
  \A s, x \in Session :
    request[s] # None /\ request[x] # None /\ request[s].project = request[x].project
      => s = x

OneRebuildPerProject ==
  \A w, v \in Worker :
    build[w] # None /\ build[v] # None /\ build[w].project = build[v].project
      => w = v

\* What a decision has found is still what it replaces.
FindingsAreCurrent ==
  /\ crossed = {}
  /\ \A s \in Session : request[s] # None =>
       live[request[s].project] = request[s].found

NothingIsOvertaken == overtaken = {} /\ muddled = {}

\* LastDecisionStands, with no exception.
EveryDecisionStands ==
  \A p \in Project :
    Cardinality(live[p]) <= 1 /\ live[p] = {decided[p]} \ {None}

\* The two claims about settled rows, overtaken rebuilds included.
SettledQueueIsCurrent ==
  \A p \in Project : Settled(p) =>
    /\ QueueFlags(p) \ Excused(p) = Detail(p) \ Excused(p)
    /\ Standing(p, today) \subseteq row[p].override
    /\ \A o \in row[p].override \ Standing(p, today) :
         o \in live[p] /\ row[p].asOf < o.expires

\* The steps of operators and workers that decide on no override.
LEMMA DecidesNothing ==
  ASSUME [Next]_vars,
         ~\E s \in Session : \/ Ask(s) \/ OverridePriority(s) \/ Rejected(s)
                              \/ RevokeOverride(s)
  PROVE  UNCHANGED <<live, crossed, request>>
BY DEF Next, NextDay, UpdateProject, TransitionProject, AddNote, RaiseBlocker,
       ResolveBlocker, Rescore, CreateTask, UpdateTask, TransitionTask, SaveTask,
       UpdateCapacity, Read, Write, Abort, vars, ranking

LEMMA RebuildsNothing ==
  ASSUME [Next]_vars, ~\E w \in Worker : Read(w) \/ Write(w) \/ Abort(w)
  PROVE  UNCHANGED <<overtaken, muddled>>
BY DEF Next, NextDay, UpdateProject, TransitionProject, AddNote, RaiseBlocker,
       ResolveBlocker, Rescore, CreateTask, UpdateTask, TransitionTask, SaveTask,
       UpdateCapacity, Ask, OverridePriority, Rejected, RevokeOverride, vars, reading

LEMMA FindingsStep ==
  ASSUME TypeOK, FindingsAreCurrent, OneDecisionPerProject, [Next]_vars
  PROVE  FindingsAreCurrent'
<1>1. ASSUME NEW s \in Session, Ask(s)  PROVE FindingsAreCurrent'
  BY <1>1 DEF Ask, ranking, FindingsAreCurrent, TypeOK
<1>2. ASSUME NEW s \in Session, Rejected(s)  PROVE FindingsAreCurrent'
  BY <1>2 DEF Rejected, Answered, ranking, FindingsAreCurrent, TypeOK
<1>3. ASSUME NEW s \in Session, OverridePriority(s) \/ RevokeOverride(s)
      PROVE  FindingsAreCurrent'
  <2> DEFINE p == request[s].project
  <2>1. /\ request[s] # None /\ p \in Project /\ live[p] = request[s].found
        /\ request' = [request EXCEPT ![s] = None]
        /\ \A q \in Project \ {p} : live'[q] = live[q]
    BY <1>3 DEF OverridePriority, RevokeOverride, Answered, FindingsAreCurrent, TypeOK
  <2>2. crossed' = {}
    BY <1>3, <2>1 DEF OverridePriority, RevokeOverride, FindingsAreCurrent
  <2>3. \A x \in Session : request'[x] # None =>
          /\ request'[x] = request[x] /\ request[x] # None
          /\ request[x].project \in Project \ {p}
    BY <2>1 DEF OneDecisionPerProject, TypeOK
  <2> QED  BY <2>1, <2>2, <2>3 DEF FindingsAreCurrent
<1>4. ASSUME UNCHANGED <<live, crossed, request>>  PROVE FindingsAreCurrent'
  BY <1>4 DEF FindingsAreCurrent
<1> QED  BY <1>1, <1>2, <1>3, <1>4, DecidesNothing

LEMMA OvertakenStep ==
  ASSUME TypeOK, NothingIsOvertaken, OneRebuildPerProject, [Next]_vars
  PROVE  NothingIsOvertaken'
<1>1. ASSUME NEW w \in Worker, Read(w) \/ Abort(w)  PROVE NothingIsOvertaken'
  BY <1>1 DEF Read, Abort, NothingIsOvertaken
<1>2. ASSUME NEW w \in Worker, Write(w)  PROVE NothingIsOvertaken'
  <2>1. {v \in Worker \ {w} : build[v] # None /\ build[v].project = build[w].project} = {}
    BY <1>2 DEF Write, OneRebuildPerProject
  <2> QED  BY <1>2, <2>1 DEF Write, NothingIsOvertaken
<1>3. ASSUME UNCHANGED <<overtaken, muddled>>  PROVE NothingIsOvertaken'
  BY <1>3 DEF NothingIsOvertaken
<1> QED  BY <1>1, <1>2, <1>3, RebuildsNothing

\* When no two operators decide on one project at once, the override in force
\* is always the last decision: override_priority and revoke_priority_override
\* lack nothing but a lock.
THEOREM ExclusiveDecisionsStand ==
  Spec /\ []OneDecisionPerProject => []EveryDecisionStands
<1>1. Init => FindingsAreCurrent
  BY DEF Init, FindingsAreCurrent
<1>2. IInv /\ FindingsAreCurrent /\ OneDecisionPerProject /\ [Next]_vars
        => FindingsAreCurrent'
  BY FindingsStep DEF IInv
<1>3. LastDecisionStands /\ FindingsAreCurrent => EveryDecisionStands
  BY DEF LastDecisionStands, FindingsAreCurrent, EveryDecisionStands
<1> QED
  BY <1>1, <1>2, <1>3, InductiveInvariant, DecisionsStand, PTL DEF Spec

\* When no two workers rebuild one project at once, a row no event is waiting
\* about agrees with the page and shows the override in force, but for a task
\* that fell due since and a load its owner took elsewhere: those two are left,
\* because no event of theirs names the project.
THEOREM ExclusiveRebuildsAgree ==
  Spec /\ []OneRebuildPerProject => []SettledQueueIsCurrent
<1>1. Init => NothingIsOvertaken
  BY DEF Init, NothingIsOvertaken
<1>2. IInv /\ NothingIsOvertaken /\ OneRebuildPerProject /\ [Next]_vars
        => NothingIsOvertaken'
  BY OvertakenStep DEF IInv
<1>3. SettledQueueAgreesWithDetail /\ SettledQueueShowsTheOverride
        /\ NothingIsOvertaken => SettledQueueIsCurrent
  BY DEF SettledQueueAgreesWithDetail, SettledQueueShowsTheOverride,
         NothingIsOvertaken, SettledQueueIsCurrent
<1> QED
  BY <1>1, <1>2, <1>3, InductiveInvariant, OverridesShow, QueueAgrees, PTL DEF Spec

-----------------------------------------------------------------------------
(***************************************************************************)
(* Stream: the card of one project on the overview page.                   *)
(***************************************************************************)

\* Every frame there is, but for the resets.
Frames == unsent \cup ToSet(seen) \cup (ToSet(work) \ {Reset})

\* Nothing tells of a commit to come: what is announced, copied or painted is
\* at most what is stored.
NothingIsAhead ==
  /\ \A e \in Frames : e.topic \in Aspect => e.value <= truth[e.topic]
  /\ \A a \in Aspect :
       /\ truth[a] <= commits /\ snapshot[a] <= truth[a]
       /\ copied # Nothing => copied[a] <= truth[a]
       /\ card # Nothing => card[a] <= truth[a]

\* The chain holds what the mounted page has subscribed to.
ChainIsHeard ==
  /\ page # "mounted" => work = <<>>
  /\ \A e \in ToSet(work) \ {Reset} : e \in Event /\ e.topic \in Aspect

\* Every admission is a commit, or one to come.
Admissions ==
  /\ IsFiniteSet(admitted) /\ clock = commits + Cardinality(admitted)
  /\ \A r \in admitted : r.at <= clock

\* The inductive invariant of Stream.
TabInv ==
  /\ TabTypeOK /\ NothingIsAhead /\ ChainIsHeard /\ Admissions
  /\ CardFollowsTheProject

-----------------------------------------------------------------------------
(* Sequences: the chain and the store's memory. *)

LEMMA Appended ==
  ASSUME NEW S, NEW s \in Seq(S), NEW e \in S
  PROVE  /\ Append(s, e) \in Seq(S) /\ Len(Append(s, e)) = Len(s) + 1
         /\ ToSet(Append(s, e)) = ToSet(s) \cup {e}
<1>1. /\ Append(s, e) \in Seq(S) /\ Len(Append(s, e)) = Len(s) + 1
      /\ \A i \in 1..Len(s) : Append(s, e)[i] = s[i]
      /\ Append(s, e)[Len(s) + 1] = e
  OBVIOUS
<1>2. DOMAIN s = 1..Len(s) /\ DOMAIN Append(s, e) = 1..(Len(s) + 1) /\ Len(s) \in Nat
  OBVIOUS
<1> QED  BY <1>1, <1>2 DEF ToSet

LEMMA Shortened ==
  ASSUME NEW S, NEW s \in Seq(S), s # <<>>
  PROVE  /\ Tail(s) \in Seq(S) /\ Len(Tail(s)) = Len(s) - 1
         /\ Head(s) \in S /\ Len(s) \in Nat
         /\ ToSet(s) = {Head(s)} \cup ToSet(Tail(s))
         /\ DOMAIN Tail(s) = 1..(Len(s) - 1)
         /\ \A i \in 1..(Len(s) - 1) : Tail(s)[i] = s[i + 1]
<1>1. /\ Tail(s) \in Seq(S) /\ Len(Tail(s)) = Len(s) - 1 /\ Len(s) \in Nat \ {0}
      /\ \A i \in 1..(Len(s) - 1) : Tail(s)[i] = s[i + 1]
      /\ Head(s) = s[1] /\ Head(s) \in S
  OBVIOUS
<1>2. DOMAIN s = 1..Len(s) /\ DOMAIN Tail(s) = 1..(Len(s) - 1)
  BY <1>1
<1>3. \A j \in 1..Len(s) : j = 1 \/ (j - 1 \in 1..(Len(s) - 1) /\ (j - 1) + 1 = j)
  BY <1>1
<1>4. \A j \in 1..Len(s) : s[j] = Head(s) \/ \E i \in 1..(Len(s) - 1) : s[j] = Tail(s)[i]
  BY <1>1, <1>3
<1>5. \A i \in 1..(Len(s) - 1) : i + 1 \in 1..Len(s)
  BY <1>1
<1>6. ToSet(s) \subseteq {Head(s)} \cup ToSet(Tail(s))
  BY <1>2, <1>4 DEF ToSet
<1>7. {Head(s)} \cup ToSet(Tail(s)) \subseteq ToSet(s)
  BY <1>1, <1>2, <1>5 DEF ToSet
<1> QED  BY <1>1, <1>2, <1>6, <1>7

LEMMA Members ==
  ASSUME NEW S, NEW s \in Seq(S)
  PROVE  ToSet(s) \subseteq S /\ (s = <<>> <=> ToSet(s) = {})
<1>1. DOMAIN s = 1..Len(s) /\ Len(s) \in Nat /\ \A i \in 1..Len(s) : s[i] \in S
  OBVIOUS
<1>2. s = <<>> <=> Len(s) = 0
  OBVIOUS
<1>3. Len(s) # 0 => 1 \in DOMAIN s
  BY <1>1
<1>4. ToSet(s) = {s[i] : i \in 1..Len(s)}
  BY <1>1 DEF ToSet
<1>5. ToSet(s) \subseteq S
  BY <1>1, <1>4
<1>6. Len(s) = 0 => ToSet(s) = {}
  BY <1>4
<1>7. Len(s) # 0 => ToSet(s) # {}
  BY <1>1, <1>3, <1>4
<1> QED  BY <1>2, <1>5, <1>6, <1>7

\* store.remember keeps every id once, the newest among them, and no more than
\* the limit.
LEMMA Remembered ==
  ASSUME seen \in Seq(Event), Len(seen) <= SeenLimit,
         IsInjective(seen), NEW e \in Event, e \notin ToSet(seen)
  PROVE  /\ Remember(e) \in Seq(Event)
         /\ Len(Remember(e)) <= SeenLimit
         /\ IsInjective(Remember(e))
         /\ ToSet(Remember(e)) \subseteq ToSet(seen) \cup {e}
<1> DEFINE all == Append(seen, e)
<1>1. /\ all \in Seq(Event) /\ Len(all) = Len(seen) + 1 /\ all # <<>>
      /\ ToSet(all) = ToSet(seen) \cup {e} /\ Len(seen) \in Nat
  BY Appended
<1>2. /\ \A i \in 1..Len(seen) : all[i] = seen[i]
      /\ all[Len(seen) + 1] = e
      /\ DOMAIN all = 1..(Len(seen) + 1) /\ DOMAIN seen = 1..Len(seen)
  OBVIOUS
<1>3. \A i \in 1..Len(seen) : seen[i] # e
  BY <1>2 DEF ToSet
<1>4. \A i, j \in 1..Len(seen) : seen[i] = seen[j] => i = j
  BY <1>2 DEF IsInjective
<1>5. \A i \in DOMAIN all : i \in 1..Len(seen) \/ i = Len(seen) + 1
  BY <1>1, <1>2
<1>6. IsInjective(all)
  BY <1>2, <1>3, <1>4, <1>5 DEF IsInjective
<1> HIDE DEF all
<1>7. /\ Tail(all) \in Seq(Event) /\ Len(Tail(all)) = Len(all) - 1
      /\ ToSet(all) = {Head(all)} \cup ToSet(Tail(all))
      /\ DOMAIN Tail(all) = 1..(Len(all) - 1)
      /\ \A i \in 1..(Len(all) - 1) : Tail(all)[i] = all[i + 1]
  BY <1>1, Shortened
<1>8. /\ Len(all) - 1 = Len(seen) /\ ToSet(Tail(all)) \subseteq ToSet(all)
      /\ DOMAIN Tail(all) = 1..Len(seen)
      /\ \A i \in 1..Len(seen) : Tail(all)[i] = all[i + 1]
  BY <1>1, <1>7
<1>9. \A i \in 1..Len(seen) : i + 1 \in DOMAIN all /\ i \in Nat
  BY <1>1, <1>2
<1>10. \A i, j \in 1..Len(seen) : all[i + 1] = all[j + 1] => i + 1 = j + 1
  BY <1>6, <1>9 DEF IsInjective
<1>11. IsInjective(Tail(all))
  BY <1>8, <1>9, <1>10 DEF IsInjective
<1>12. Remember(e) = IF Len(all) > SeenLimit THEN Tail(all) ELSE all
  BY DEF Remember, all
<1>13. CASE Len(all) > SeenLimit
  BY <1>1, <1>7, <1>8, <1>11, <1>12, <1>13
<1>14. CASE ~(Len(all) > SeenLimit)
  BY <1>1, <1>6, <1>12, <1>14, StreamBounds
<1> QED  BY <1>13, <1>14

-----------------------------------------------------------------------------
LEMMA TabNumbers ==
  ASSUME TabTypeOK
  PROVE  /\ commits \in Nat /\ clock \in Nat /\ clock <= MaxCommits
         /\ truth["state"] \in Nat /\ truth["score"] \in Nat
         /\ \A a \in Aspect :
              /\ truth[a] \in Nat /\ snapshot[a] \in Nat
              /\ copied # Nothing => copied[a] \in Nat
              /\ card # Nothing => card[a] \in Nat
         /\ \A e \in Event : /\ e.value \in Nat /\ e.at \in Nat
                             /\ e.topic \in Aspect \/ e.topic = "edit"
<1>1. Version \subseteq Nat /\ Instant \subseteq Nat
  BY StreamBounds DEF Version, Instant
<1>2. \A f \in Content \cup Row, a \in Aspect : f[a] \in Nat
  BY <1>1 DEF Content, Row, Aspect
<1>3. \A e \in Event : /\ e.value \in Nat /\ e.at \in Nat
                       /\ e.topic \in Aspect \/ e.topic = "edit"
  BY <1>1 DEF Event
<1>4. commits \in Nat /\ clock \in Nat /\ clock <= MaxCommits
  BY StreamBounds DEF TabTypeOK, Version, Instant
<1>5. "state" \in Aspect /\ "score" \in Aspect
  BY DEF Aspect
<1> QED  BY <1>2, <1>3, <1>4, <1>5 DEF TabTypeOK

LEMMA TabResetIsNoFrame == Reset \notin Event
<1>1. Reset.topic = "reset" /\ "reset" \notin Aspect \cup {"edit"}
  BY DEF Reset, Aspect
<1> QED  BY <1>1 DEF Event

LEMMA TabStarts ==
  ASSUME TabInit
  PROVE  TabInv
<1>1. 0 \in Version /\ 0 \in Instant /\ 0 \in 0..MaxFaults
  BY StreamBounds DEF Version, Instant
<1>2. /\ <<>> \in Seq(Event) /\ <<>> \in Seq(Event \cup {Reset})
      /\ Len(<<>>) = 0 /\ IsInjective(<<>>)
  BY DEF IsInjective
<1>3. ToSet(<<>>) = {}
  BY <1>2, Members
<1>4. truth \in Content /\ snapshot \in Row
  BY <1>1 DEF TabInit, Content, Row
<1>5. TabTypeOK
  <2>1. /\ seen \in Seq(Event) /\ Len(seen) <= SeenLimit /\ IsInjective(seen)
        /\ work \in Seq(Event \cup {Reset})
    BY <1>2, StreamBounds DEF TabInit
  <2> QED  BY <1>1, <1>4, <2>1 DEF TabInit, TabTypeOK
<1>6. NothingIsAhead
  BY <1>3 DEF TabInit, NothingIsAhead, Frames, Aspect
<1>7. ChainIsHeard
  BY <1>3 DEF TabInit, ChainIsHeard
<1>8. Admissions
  BY FS_EmptySet DEF TabInit, Admissions
<1>9. CardFollowsTheProject
  BY DEF TabInit, CardFollowsTheProject, Shown
<1> QED  BY <1>5, <1>6, <1>7, <1>8, <1>9 DEF TabInv

LEMMA TabAdmit ==
  ASSUME TabInv, NEW topic \in {"state", "edit"}, Admit(topic)
  PROVE  TabInv'
<1> DEFINE r == [topic |-> topic, at |-> clock + 1]
<1> USE DEF TabInv
<1>1. /\ clock' = clock + 1 /\ admitted' = admitted \cup {r}
      /\ commits + Cardinality(admitted) < MaxCommits
      /\ commits' = commits
  BY DEF Admit, bus, browser
<1>2. clock \in Nat /\ commits \in Nat
  BY TabNumbers
<1>3. r \notin admitted /\ r.at = clock + 1
  BY <1>2 DEF Admissions
<1>4. clock + 1 \in Instant
  BY <1>1, <1>2, StreamBounds DEF Admissions, Instant
<1>5. r \in [topic : {"state", "edit"}, at : Instant]
  BY <1>4
<1> HIDE DEF r
<1>6. Admissions'
  <2>1. IsFiniteSet(admitted') /\ Cardinality(admitted') = Cardinality(admitted) + 1
    BY <1>1, <1>3, FS_AddElement DEF Admissions
  <2>2. Cardinality(admitted) \in Nat
    BY FS_CardinalityType DEF Admissions
  <2>3. \A x \in admitted : x.at \in Nat
    BY TabNumbers, StreamBounds DEF TabTypeOK, Instant
  <2> QED  BY <1>1, <1>2, <1>3, <2>1, <2>2, <2>3 DEF Admissions
<1>7. TabTypeOK'
  BY <1>1, <1>4, <1>5 DEF TabTypeOK, Admit, bus, browser
<1>8. NothingIsAhead' /\ ChainIsHeard'
  BY DEF Admit, bus, browser, NothingIsAhead, Frames, ChainIsHeard
<1>9. CardFollowsTheProject'
  BY DEF Admit, bus, browser, CardFollowsTheProject, Shown,
     Coming, RereadComing
<1> QED  BY <1>6, <1>7, <1>8, <1>9

LEMMA TabBuild ==
  ASSUME TabInv, Build
  PROVE  TabInv'
<1> USE DEF TabInv
<1>1. TabTypeOK'
  BY DEF TabTypeOK, Build, browser
<1>2. NothingIsAhead'
  <2>1. truth # Nothing
    BY NothingIsNoRow DEF TabTypeOK
  <2> QED  BY <2>1, TabNumbers DEF Build, browser, NothingIsAhead, Frames
<1>3. ChainIsHeard' /\ Admissions'
  BY DEF Build, browser, ChainIsHeard, Admissions
<1>4. CardFollowsTheProject'
  BY DEF Build, browser, CardFollowsTheProject, Shown,
     Coming, RereadComing
<1> QED  BY <1>1, <1>2, <1>3, <1>4

LEMMA TabUpsert ==
  ASSUME TabInv, Upsert
  PROVE  TabInv'
<1> USE DEF TabInv
<1>1. copied # Nothing /\ copied' = Nothing
      /\ snapshot' = [state |-> copied.state, score |-> copied.score, at |-> clock]
  BY DEF Upsert
<1>2. snapshot' \in Row
  BY <1>1 DEF TabTypeOK, Content, Row
<1>3. TabTypeOK'
  BY <1>1, <1>2 DEF TabTypeOK, Upsert, bus, browser
<1>4. \A a \in Aspect : snapshot'[a] = copied[a]
  BY <1>1 DEF Aspect
<1>5. NothingIsAhead'
  BY <1>1, <1>4 DEF Upsert, bus, browser, NothingIsAhead, Frames
<1>6. ChainIsHeard' /\ Admissions'
  BY DEF Upsert, bus, browser, ChainIsHeard, Admissions
<1>7. CardFollowsTheProject'
  BY DEF Upsert, bus, browser, CardFollowsTheProject, Shown,
     Coming, RereadComing
<1> QED  BY <1>3, <1>5, <1>6, <1>7

\* A commit that moves an aspect announces what no store has remembered.
LEMMA NewsIsComing ==
  ASSUME TabInv, NEW a \in Aspect, NEW e \in Event,
         e.topic = a, e.value = truth'[a], truth[a] < truth'[a],
         truth'[a] \in Nat, unsent' = unsent \cup {e}, seen' = seen
  PROVE  Coming(a, work)'
<1>1. e \notin ToSet(seen)
  <2>1. SUFFICES ASSUME e \in ToSet(seen) PROVE FALSE
    OBVIOUS
  <2>2. truth'[a] <= truth[a]
    BY <2>1 DEF TabInv, NothingIsAhead, Frames
  <2> QED  BY <2>2, TabNumbers DEF TabInv
<1> QED  BY <1>1 DEF Coming

LEMMA TabChange ==
  ASSUME TabInv, NEW r \in admitted, Change(r)
  PROVE  TabInv'
<1> USE DEF TabInv
<1> DEFINE moves == r.topic = "state"
           e == [topic |-> r.topic, at |-> r.at,
                 value |-> IF moves THEN commits + 1 ELSE 0]
<1>1. /\ admitted' = admitted \ {r} /\ commits' = commits + 1
      /\ truth' = IF moves THEN [truth EXCEPT !.state = commits + 1] ELSE truth
      /\ unscored' = unscored \cup {e} /\ unsent' = unsent \cup {e}
      /\ unbuilt' = unbuilt + 1
  BY DEF Change, Issue
<1>2. UNCHANGED <<clock, snapshot, copied, page, card, open, resumes, seen, work,
                  excused, faults>>
  BY DEF Change, browser
<1>3. clock \in Nat /\ commits \in Nat /\ clock <= MaxCommits
  BY TabNumbers
<1>4. /\ IsFiniteSet(admitted') /\ Cardinality(admitted') = Cardinality(admitted) - 1
      /\ Cardinality(admitted) \in Nat /\ Cardinality(admitted') \in Nat
  BY <1>1, FS_RemoveElement, FS_CardinalityType DEF Admissions
<1>5. commits + 1 \in Version /\ 0 \in Version
  BY <1>3, <1>4, StreamBounds DEF Admissions, Version
<1>6. r.topic \in {"state", "edit"} /\ r.at \in Instant
  BY DEF TabTypeOK
<1>7. e \in Event
  BY <1>5, <1>6 DEF Event, Aspect
<1>8. /\ e.topic = r.topic
      /\ moves => e.value = commits + 1
      /\ e.topic \in Aspect => moves
  BY <1>6 DEF Aspect
<1> HIDE DEF e
<1>9. truth' \in Content
  BY <1>1, <1>5 DEF TabTypeOK, Content
<1>10. \A a \in Aspect : truth'[a] = IF moves /\ a = "state" THEN commits + 1
                                        ELSE truth[a]
  BY <1>1 DEF TabTypeOK, Content, Aspect
<1>11. \A a \in Aspect : /\ truth[a] \in Nat /\ truth'[a] \in Nat
                         /\ truth[a] <= truth'[a] /\ truth'[a] <= commits'
  BY <1>1, <1>3, <1>10, TabNumbers DEF NothingIsAhead
<1>12. TabTypeOK'
  <2>1. unsent' \subseteq Event /\ unscored' \subseteq Event /\ unbuilt' \in Nat
    BY <1>1, <1>7 DEF TabTypeOK
  <2> QED  BY <1>1, <1>2, <1>5, <1>9, <2>1 DEF TabTypeOK
<1>13. Admissions'
  BY <1>1, <1>2, <1>3, <1>4 DEF Admissions
<1>14. ChainIsHeard'
  BY <1>2 DEF ChainIsHeard
<1>15. NothingIsAhead'
  <2>1. \A x \in Frames' : x.topic \in Aspect => x.value <= truth'[x.topic]
    <3>1. SUFFICES ASSUME NEW x \in Frames', x.topic \in Aspect
                   PROVE  x.value <= truth'[x.topic]
      OBVIOUS
    <3>2. CASE x = e
      <4>1. moves /\ x.topic = "state" /\ x.value = commits + 1
        BY <1>8, <3>1, <3>2
      <4>2. truth'[x.topic] = commits + 1
        BY <1>10, <3>1, <4>1
      <4> QED  BY <1>3, <4>1, <4>2
    <3>3. CASE x # e
      <4>1. x \in Frames /\ x \in Event
        BY <1>1, <1>2, <3>1, <3>3, Members DEF Frames, ChainIsHeard, TabTypeOK
      <4>2. x.value <= truth[x.topic] /\ x.value \in Nat
        BY <3>1, <4>1, TabNumbers DEF NothingIsAhead
      <4> QED  BY <1>11, <3>1, <4>2
    <3> QED  BY <3>2, <3>3
  <2>2. ASSUME NEW a \in Aspect
        PROVE  /\ truth'[a] <= commits' /\ snapshot'[a] <= truth'[a]
               /\ copied' # Nothing => copied'[a] <= truth'[a]
               /\ card' # Nothing => card'[a] <= truth'[a]
    BY <1>2, <1>11, <2>2, TabNumbers DEF NothingIsAhead
  <2> QED  BY <2>1, <2>2 DEF NothingIsAhead
<1>16. CardFollowsTheProject'
  <2>1. SUFFICES ASSUME Shown', NEW a \in Aspect \ excused'
                 PROVE  (card[a] = truth[a] \/ Coming(a, work) \/ RereadComing)'
    BY DEF CardFollowsTheProject
  <2>2. CASE moves /\ a = "state"
    <3>1. e.topic = a /\ e.value = truth'[a]
      BY <1>8, <1>10, <2>2
    <3>2. truth[a] < truth'[a]
      BY <1>3, <1>10, <2>2, TabNumbers DEF NothingIsAhead
    <3>3. Coming(a, work)'
      BY <1>1, <1>2, <1>7, <1>11, <3>1, <3>2, NewsIsComing
    <3> QED  BY <3>3
  <2>3. CASE ~(moves /\ a = "state")
    <3>1. truth'[a] = truth[a]
      BY <1>10, <2>3
    <3>2. card[a] = truth[a] \/ Coming(a, work) \/ RereadComing
      BY <1>2, <2>1 DEF CardFollowsTheProject, Shown
    <3>3. Coming(a, work) => Coming(a, work)'
      BY <1>1, <1>2, <3>1 DEF Coming
    <3> QED  BY <1>2, <3>1, <3>2, <3>3 DEF RereadComing
  <2> QED  BY <2>2, <2>3
<1> QED  BY <1>12, <1>13, <1>14, <1>15, <1>16

LEMMA TabRecalculate ==
  ASSUME TabInv, NEW e \in unscored, Recalculate(e)
  PROVE  TabInv'
<1> USE DEF TabInv
<1>1. /\ unscored' = unscored \ {e}
      /\ UNCHANGED <<clock, admitted, commits, snapshot, copied, page, card, open,
                     resumes, seen, work, excused, faults>>
  BY DEF Recalculate, browser
<1>2. ChainIsHeard' /\ Admissions'
  BY <1>1 DEF ChainIsHeard, Admissions
<1>3. CASE truth.score = commits
  <2>1. UNCHANGED <<truth, unbuilt, unsent>>
    BY <1>3 DEF Recalculate
  <2>2. TabTypeOK'
    BY <1>1, <2>1 DEF TabTypeOK
  <2>3. NothingIsAhead'
    BY <1>1, <2>1 DEF NothingIsAhead, Frames
  <2>4. CardFollowsTheProject'
    BY <1>1, <2>1 DEF CardFollowsTheProject, Shown, Coming, RereadComing
  <2> QED  BY <1>2, <2>2, <2>3, <2>4
<1>4. CASE truth.score # commits
  <2> DEFINE n == [topic |-> "score", at |-> e.at, value |-> commits]
  <2>1. /\ truth' = [truth EXCEPT !.score = commits]
        /\ unbuilt' = unbuilt + 1 /\ unsent' = unsent \cup {n}
    BY <1>4 DEF Recalculate, Issue
  <2>2. n \in Event
    BY DEF TabTypeOK, Event, Aspect
  <2>3. n.topic = "score" /\ n.value = commits /\ "score" \in Aspect
    BY DEF Aspect
  <2> HIDE DEF n
  <2>4. truth' \in Content
    BY <2>1 DEF TabTypeOK, Content
  <2>5. \A a \in Aspect : truth'[a] = IF a = "score" THEN commits ELSE truth[a]
    BY <2>1 DEF TabTypeOK, Content, Aspect
  <2>6. commits \in Nat
    BY TabNumbers
  <2>7. \A a \in Aspect : /\ truth[a] \in Nat /\ truth'[a] \in Nat
                          /\ truth[a] <= truth'[a] /\ truth'[a] <= commits
    BY <2>5, <2>6, TabNumbers DEF NothingIsAhead
  <2>8. truth["score"] < truth'["score"]
    BY <1>4, <2>3, <2>5, <2>6, <2>7
  <2>9. TabTypeOK'
    <3>1. unsent' \subseteq Event /\ unscored' \subseteq Event /\ unbuilt' \in Nat
      BY <1>1, <2>1, <2>2 DEF TabTypeOK
    <3> QED  BY <1>1, <2>4, <3>1 DEF TabTypeOK
  <2>10. NothingIsAhead'
    <3>1. ASSUME NEW x \in Frames', x.topic \in Aspect
          PROVE  x.value <= truth'[x.topic]
      <4>1. CASE x = n
        BY <2>3, <2>5, <2>6, <4>1
      <4>2. CASE x # n
        <5>1. x \in Frames /\ x \in Event
          BY <1>1, <2>1, <3>1, <4>2, Members DEF Frames, ChainIsHeard, TabTypeOK
        <5>2. x.value <= truth[x.topic] /\ x.value \in Nat
          BY <3>1, <5>1, TabNumbers DEF NothingIsAhead
        <5> QED  BY <2>7, <3>1, <5>2
      <4> QED  BY <4>1, <4>2
    <3>2. ASSUME NEW a \in Aspect
          PROVE  /\ truth'[a] <= commits' /\ snapshot'[a] <= truth'[a]
                 /\ copied' # Nothing => copied'[a] <= truth'[a]
                 /\ card' # Nothing => card'[a] <= truth'[a]
      BY <1>1, <2>7, <3>2, TabNumbers DEF NothingIsAhead
    <3> QED  BY <3>1, <3>2 DEF NothingIsAhead
  <2>11. CardFollowsTheProject'
    <3>1. SUFFICES ASSUME Shown', NEW a \in Aspect \ excused'
                   PROVE  (card[a] = truth[a] \/ Coming(a, work) \/ RereadComing)'
      BY DEF CardFollowsTheProject
    <3>2. CASE a = "score"
      <4>1. Coming(a, work)'
        BY <1>1, <2>1, <2>2, <2>3, <2>5, <2>7, <2>8, <3>2, NewsIsComing
      <4> QED  BY <4>1
    <3>3. CASE a # "score"
      <4>1. truth'[a] = truth[a]
        BY <2>5, <3>3
      <4>2. card[a] = truth[a] \/ Coming(a, work) \/ RereadComing
        BY <1>1, <3>1 DEF CardFollowsTheProject, Shown
      <4>3. Coming(a, work) => Coming(a, work)'
        BY <1>1, <2>1, <4>1 DEF Coming
      <4> QED  BY <1>1, <4>1, <4>2, <4>3 DEF RereadComing
    <3> QED  BY <3>2, <3>3
  <2> QED  BY <1>2, <2>9, <2>10, <2>11
<1> QED  BY <1>3, <1>4

\* What publish_to_sse_channel leaves of the frame, and what the tab makes of it.
LEMMA TabPublish ==
  ASSUME TabInv, NEW e \in unsent, Publish(e)
  PROVE  TabInv'
<1> USE DEF TabInv
<1>1. /\ unsent' = unsent \ {e} \/ unsent' = unsent
      /\ UNCHANGED <<clock, admitted, commits, truth, snapshot, copied, unscored,
                     unbuilt, page, card, open>>
      /\ faults' \in 0..MaxFaults
  BY StreamBounds DEF Publish, database, TabTypeOK
<1>2. e \in Event /\ e \in Frames /\ e # Reset
  BY TabResetIsNoFrame DEF TabTypeOK, Frames
<1>3. /\ resumes' \in BOOLEAN /\ excused' \subseteq Aspect
      /\ excused \subseteq excused'
      /\ \A a \in excused' \ excused : a = e.topic
  <2>1. CASE open
    BY <2>1 DEF Publish, Receive, TabTypeOK, News
  <2>2. CASE ~open
    BY <2>2 DEF Publish, Miss, TabTypeOK, News
  <2> QED  BY <2>1, <2>2
<1>4. /\ seen' \in Seq(Event) /\ Len(seen') <= SeenLimit /\ IsInjective(seen')
      /\ ToSet(seen') \subseteq ToSet(seen) \cup {e}
  <2>1. CASE open /\ e \notin ToSet(seen)
    <3>1. seen' = Remember(e)
      BY <2>1 DEF Publish, Receive
    <3> QED  BY <1>2, <2>1, <3>1, Remembered DEF TabTypeOK
  <2>2. CASE ~(open /\ e \notin ToSet(seen))
    <3>1. seen' = seen
      BY <2>2 DEF Publish, Receive, Miss
    <3> QED  BY <3>1 DEF TabTypeOK
  <2> QED  BY <2>1, <2>2
<1>5. /\ work' \in Seq(Event \cup {Reset})
      /\ \/ work' = work
         \/ /\ page = "mounted" /\ e.topic \in Aspect
            /\ ToSet(work') = ToSet(work) \cup {e}
  <2>1. CASE open /\ e \notin ToSet(seen) /\ Heard(e)
    <3>1. work' = Append(work, e)
      BY <2>1 DEF Publish, Receive
    <3>2. work \in Seq(Event \cup {Reset}) /\ e \in Event \cup {Reset}
      BY <1>2 DEF TabTypeOK
    <3>3. work' \in Seq(Event \cup {Reset}) /\ ToSet(work') = ToSet(work) \cup {e}
      BY <3>1, <3>2, Appended
    <3> QED  BY <2>1, <3>3 DEF Heard
  <2>2. CASE ~(open /\ e \notin ToSet(seen) /\ Heard(e))
    <3>1. work' = work
      BY <2>2 DEF Publish, Receive, Miss
    <3> QED  BY <3>1 DEF TabTypeOK
  <2> QED  BY <2>1, <2>2
<1>6. TabTypeOK'
  <2>1. unsent' \subseteq Event
    BY <1>1 DEF TabTypeOK
  <2> QED  BY <1>1, <1>3, <1>4, <1>5, <2>1 DEF TabTypeOK
<1>7. Admissions'
  BY <1>1 DEF Admissions
<1>8. ChainIsHeard'
  BY <1>1, <1>2, <1>5 DEF ChainIsHeard
<1>9. NothingIsAhead'
  <2>1. Frames' \subseteq Frames
    BY <1>1, <1>2, <1>4, <1>5 DEF Frames
  <2> QED  BY <1>1, <2>1 DEF NothingIsAhead
<1>10. CardFollowsTheProject'
  <2>1. SUFFICES ASSUME Shown', NEW a \in Aspect \ excused',
                        card[a] # truth[a]
                 PROVE  Coming(a, work)' \/ RereadComing'
    BY <1>1 DEF CardFollowsTheProject
  <2>2. Shown /\ a \notin excused
    BY <1>1, <1>3, <2>1 DEF Shown
  <2>3. Coming(a, work) \/ RereadComing
    BY <2>1, <2>2 DEF CardFollowsTheProject
  <2>4. ToSet(work) \subseteq ToSet(work')
    BY <1>5
  <2>5. CASE RereadComing
    <3>1. ~open => resumes' = resumes
      BY DEF Publish, Miss
    <3> QED  BY <1>1, <2>4, <2>5, <3>1 DEF RereadComing
  <2>6. CASE Coming(a, work)
    <3>1. PICK x \in (unsent \ ToSet(seen)) \cup ToSet(work) :
                 x.topic = a /\ x.value = truth[a]
      BY <2>6 DEF Coming
    <3>2. CASE x \in ToSet(work)
      BY <1>1, <2>4, <3>1, <3>2 DEF Coming
    <3>3. CASE x \in unsent \ ToSet(seen) /\ x # e
      <4>1. x \in unsent' \ ToSet(seen')
        BY <1>1, <1>4, <3>3
      <4> QED  BY <1>1, <3>1, <4>1 DEF Coming
    <3>4. CASE x = e /\ e \notin ToSet(seen)
      <4>1. News(e)
        BY <2>1, <2>2, <3>1, <3>4 DEF News
      <4>2. a = e.topic
        BY <3>1, <3>4
      <4>3. CASE open /\ Heard(e)
        <5>1. work' = Append(work, e)
          BY <3>4, <4>3 DEF Publish, Receive
        <5>2. e \in ToSet(work')
          BY <1>2, <5>1, Appended DEF TabTypeOK
        <5> QED  BY <1>1, <3>1, <3>4, <5>2 DEF Coming
      <4>4. CASE open /\ ~Heard(e)
        <5>1. e.topic \in excused'
          BY <3>4, <4>1, <4>4 DEF Publish, Receive
        <5> QED  BY <2>1, <4>2, <5>1
      <4>5. CASE ~open
        <5>1. e.topic \in excused' \/ (resumes /\ resumes' = resumes)
          BY <4>1, <4>5 DEF Publish, Miss
        <5> QED  BY <1>1, <2>1, <4>2, <4>5, <5>1 DEF RereadComing
      <4> QED  BY <4>3, <4>4, <4>5
    <3> QED  BY <3>1, <3>2, <3>3, <3>4
  <2> QED  BY <2>3, <2>5, <2>6
<1> QED  BY <1>6, <1>7, <1>8, <1>9, <1>10

LEMMA TabConnect ==
  ASSUME TabInv, Connect
  PROVE  TabInv'
<1> USE DEF TabInv
<1>1. /\ ~open /\ open' = TRUE /\ work' = OnResume
      /\ excused' = IF resumes /\ page = "loading" /\ card # Nothing
                    THEN excused \cup Behind(card, work) ELSE excused
      /\ UNCHANGED <<clock, admitted, commits, truth, snapshot, copied, unscored,
                     unbuilt, unsent, page, card, resumes, seen, faults>>
  BY DEF Connect, database, bus
<1>2. /\ work' \in Seq(Event \cup {Reset})
      /\ page # "mounted" => work' = work
      /\ ToSet(work) \subseteq ToSet(work')
      /\ ToSet(work') \subseteq ToSet(work) \cup {Reset}
      /\ resumes /\ page = "mounted" => Reset \in ToSet(work')
  <2>1. work \in Seq(Event \cup {Reset}) /\ Reset \in Event \cup {Reset}
    BY DEF TabTypeOK
  <2>2. /\ Append(work, Reset) \in Seq(Event \cup {Reset})
        /\ ToSet(Append(work, Reset)) = ToSet(work) \cup {Reset}
    BY <2>1, Appended
  <2>3. work' = IF resumes /\ page = "mounted" THEN Append(work, Reset) ELSE work
    BY <1>1 DEF OnResume
  <2> QED  BY <2>1, <2>2, <2>3
<1>3. excused' \subseteq Aspect
  BY <1>1 DEF TabTypeOK, Behind
<1>4. TabTypeOK'
  BY <1>1, <1>2, <1>3 DEF TabTypeOK
<1>5. Admissions'
  BY <1>1 DEF Admissions
<1>6. ChainIsHeard'
  BY <1>1, <1>2 DEF ChainIsHeard
<1>7. NothingIsAhead'
  <2>1. Frames' = Frames
    BY <1>1, <1>2 DEF Frames
  <2> QED  BY <1>1, <2>1 DEF NothingIsAhead
<1>8. CardFollowsTheProject'
  <2>1. SUFFICES ASSUME Shown', NEW a \in Aspect \ excused',
                        card[a] # truth[a]
                 PROVE  Coming(a, work)' \/ RereadComing'
    BY <1>1 DEF CardFollowsTheProject
  <2>2. Shown /\ a \notin excused
    BY <1>1, <2>1 DEF Shown
  <2>3. Coming(a, work) => Coming(a, work)'
    BY <1>1, <1>2 DEF Coming
  <2>4. Coming(a, work) \/ RereadComing
    BY <2>1, <2>2 DEF CardFollowsTheProject
  <2>5. CASE Reset \in ToSet(work)
    BY <1>2, <2>5 DEF RereadComing
  <2>6. CASE resumes
    <3>1. CASE page = "mounted"
      BY <1>2, <2>6, <3>1 DEF RereadComing
    <3>2. CASE page = "loading"
      <4>1. a \notin Behind(card, work)
        BY <1>1, <2>1, <2>2, <2>6, <3>2 DEF Shown
      <4> QED  BY <2>1, <2>3, <4>1 DEF Behind
    <3> QED  BY <2>2, <3>1, <3>2 DEF Shown, TabTypeOK
  <2> QED  BY <2>3, <2>4, <2>5, <2>6 DEF RereadComing
<1> QED  BY <1>4, <1>5, <1>6, <1>7, <1>8

LEMMA TabDrop ==
  ASSUME TabInv, Drop
  PROVE  TabInv'
<1> USE DEF TabInv
<1>1. /\ open' = FALSE /\ faults' \in 0..MaxFaults
      /\ UNCHANGED <<clock, admitted, commits, truth, snapshot, copied, unscored,
                     unbuilt, unsent, page, card, resumes, seen, work, excused>>
      /\ open
  BY StreamBounds DEF Drop, database, bus, TabTypeOK
<1>2. TabTypeOK'
  BY <1>1 DEF TabTypeOK
<1>3. NothingIsAhead' /\ ChainIsHeard' /\ Admissions'
  BY <1>1 DEF NothingIsAhead, Frames, ChainIsHeard, Admissions
<1>4. CardFollowsTheProject'
  BY <1>1 DEF CardFollowsTheProject, Shown, Coming, RereadComing
<1> QED  BY <1>2, <1>3, <1>4

\* A read of the queue, with that chain still to come, paints what is stored
\* but for what it says is behind.
LEMMA ReadIsHonest ==
  ASSUME TabInv, NEW chain \in Seq(Event \cup {Reset}), ReadQueue(chain),
         work' = chain,
         UNCHANGED <<clock, admitted, commits, truth, snapshot, copied, unscored,
                     unbuilt, unsent, open, resumes, seen>>,
         page' \in {"loading", "mounted"},
         ToSet(chain) \subseteq ToSet(work),
         page' # "mounted" => chain = <<>>
  PROVE  TabInv'
<1> USE DEF TabInv
<1>1. /\ card' \in Row \cup {Nothing} /\ excused' \subseteq Aspect
      /\ faults' \in 0..MaxFaults
  BY StreamBounds DEF ReadQueue, Behind, TabTypeOK
<1>2. TabTypeOK'
  BY <1>1 DEF TabTypeOK
<1>3. ChainIsHeard' /\ Admissions'
  BY DEF ChainIsHeard, Admissions
<1>4. NothingIsAhead'
  <2>1. Frames' \subseteq Frames
    BY DEF Frames
  <2>2. card' # Nothing => card' = snapshot
    BY DEF ReadQueue
  <2> QED  BY <2>1, <2>2 DEF NothingIsAhead
<1>5. CardFollowsTheProject'
  <2>1. SUFFICES ASSUME Shown', NEW a \in Aspect \ excused',
                        card'[a] # truth[a]
                 PROVE  Coming(a, work)'
    BY DEF CardFollowsTheProject
  <2>2. card' = snapshot /\ excused' = Behind(snapshot, chain)
    BY <2>1 DEF ReadQueue, Shown
  <2>3. Coming(a, chain)
    BY <2>1, <2>2 DEF Behind
  <2> QED  BY <2>3 DEF Coming
<1> QED  BY <1>2, <1>3, <1>4, <1>5

LEMMA TabRender ==
  ASSUME TabInv, Render
  PROVE  TabInv'
<1>1. work = <<>> /\ work' = <<>> /\ page' = "loading" /\ ReadQueue(<<>>)
  BY DEF Render, TabInv, ChainIsHeard
<1>2. <<>> \in Seq(Event \cup {Reset})
  OBVIOUS
<1>3. UNCHANGED <<clock, admitted, commits, truth, snapshot, copied, unscored,
                  unbuilt, unsent, open, resumes, seen>>
  BY DEF Render, database, bus
<1> QED  BY <1>1, <1>2, <1>3, ReadIsHonest

\* The next link: what follows it is the chain.
LEMMA TabLink ==
  ASSUME TabInv, Link
  PROVE  /\ work' = Tail(work) /\ work' \in Seq(Event \cup {Reset})
         /\ page = "mounted"
         /\ ToSet(work) = {Head(work)} \cup ToSet(work')
         /\ Head(work) # Reset =>
              /\ Head(work) \in Event /\ Head(work).topic \in Aspect
              /\ Head(work) \in Frames
<1>1. work # <<>> /\ work' = Tail(work) /\ work \in Seq(Event \cup {Reset})
  BY DEF Link, TabInv, TabTypeOK
<1>2. /\ Tail(work) \in Seq(Event \cup {Reset})
      /\ ToSet(work) = {Head(work)} \cup ToSet(Tail(work))
  BY <1>1, Shortened
<1> QED  BY <1>1, <1>2 DEF TabInv, ChainIsHeard, Frames

LEMMA TabReread ==
  ASSUME TabInv, Reread
  PROVE  TabInv'
<1>1. Link /\ ReadQueue(Tail(work)) /\ page' = page
  BY DEF Reread
<1>2. UNCHANGED <<clock, admitted, commits, truth, snapshot, copied, unscored,
                  unbuilt, unsent, open, resumes, seen>>
  BY DEF Reread, database, bus
<1>3. /\ work' = Tail(work) /\ Tail(work) \in Seq(Event \cup {Reset})
      /\ page' = "mounted" /\ ToSet(Tail(work)) \subseteq ToSet(work)
  BY <1>1, TabLink
<1> QED  BY <1>1, <1>2, <1>3, ReadIsHonest

LEMMA OneLink ==
  ASSUME NEW S, NEW e
  PROVE  <<e>> \in Seq(S \cup {e}) /\ ToSet(<<e>>) = {e}
<1>1. DOMAIN <<e>> = {1} /\ <<e>>[1] = e /\ <<e>> \in Seq(S \cup {e})
  OBVIOUS
<1> QED  BY <1>1 DEF ToSet

LEMMA TabMount ==
  ASSUME TabInv, Mount
  PROVE  TabInv'
<1> USE DEF TabInv
<1>1. /\ page = "loading" /\ page' = "mounted" /\ open' \in {open, FALSE}
      /\ work' = <<>> \/ work' = <<Reset>>
      /\ UNCHANGED <<clock, admitted, commits, truth, snapshot, copied, unscored,
                     unbuilt, unsent, card, resumes, seen, excused, faults>>
  BY DEF Mount, database, bus
<1>2. work = <<>>
  BY <1>1 DEF ChainIsHeard
<1>3. /\ work' \in Seq(Event \cup {Reset})
      /\ ToSet(work') \subseteq {Reset}
      /\ ToSet(work) = {}
  <2>1. <<>> \in Seq(Event \cup {Reset}) /\ ToSet(<<>>) = {}
    BY <1>2, Members DEF TabTypeOK
  <2>2. /\ <<Reset>> \in Seq(Event \cup {Reset})
        /\ ToSet(<<Reset>>) = {Reset}
    BY OneLink
  <2> QED  BY <1>1, <1>2, <2>1, <2>2
<1>4. TabTypeOK'
  BY <1>1, <1>3 DEF TabTypeOK
<1>5. ChainIsHeard' /\ Admissions'
  BY <1>1, <1>3 DEF ChainIsHeard, Admissions
<1>6. NothingIsAhead'
  <2>1. Frames' \subseteq Frames
    BY <1>1, <1>3 DEF Frames
  <2> QED  BY <1>1, <2>1 DEF NothingIsAhead
<1>7. CardFollowsTheProject'
  <2>1. Shown' => Shown
    BY <1>1 DEF Shown
  <2>2. \A a \in Aspect : Coming(a, work) => Coming(a, work)'
    BY <1>1, <1>3 DEF Coming
  <2>3. RereadComing => RereadComing'
    BY <1>1, <1>3 DEF RereadComing, TabTypeOK
  <2> QED  BY <1>1, <2>1, <2>2, <2>3 DEF CardFollowsTheProject
<1> QED  BY <1>4, <1>5, <1>6, <1>7

LEMMA TabRetry ==
  ASSUME TabInv, Retry
  PROVE  TabInv'
<1> USE DEF TabInv
<1>1. /\ page = "mounted" /\ work = <<>> /\ work' = <<Reset>> /\ card = Nothing
      /\ UNCHANGED <<clock, admitted, commits, truth, snapshot, copied, unscored,
                     unbuilt, unsent, page, card, open, resumes, seen, excused,
                     faults>>
  BY DEF Retry, database, bus
<1>2. /\ work' \in Seq(Event \cup {Reset})
      /\ ToSet(work') = ToSet(work) \cup {Reset}
  <2>1. ToSet(work) = {}
    BY <1>1, Members DEF TabTypeOK
  <2> QED  BY <1>1, <2>1, OneLink
<1>3. TabTypeOK'
  BY <1>1, <1>2 DEF TabTypeOK
<1>4. ChainIsHeard' /\ Admissions'
  BY <1>1, <1>2 DEF ChainIsHeard, Admissions
<1>5. NothingIsAhead'
  <2>1. Frames' = Frames
    BY <1>1, <1>2 DEF Frames
  <2> QED  BY <1>1, <2>1 DEF NothingIsAhead
<1>6. CardFollowsTheProject'
  BY <1>1 DEF CardFollowsTheProject, Shown
<1> QED  BY <1>3, <1>4, <1>5, <1>6

\* What a link other than the one taken says is still to come.
LEMMA RestIsComing ==
  ASSUME TabInv, Link, UNCHANGED <<truth, unsent, seen>>,
         NEW a \in Aspect, Coming(a, work),
         ~(Head(work).topic = a /\ Head(work).value = truth[a])
  PROVE  Coming(a, work)'
<1>1. ToSet(work) = {Head(work)} \cup ToSet(work')
  BY TabLink
<1> QED  BY <1>1 DEF Coming

LEMMA TabDiscard ==
  ASSUME TabInv, Discard
  PROVE  TabInv'
<1> USE DEF TabInv
<1> DEFINE e == Head(work)
<1>1. /\ Link /\ e # Reset
      /\ excused' = IF card # Nothing /\ e.value > card[e.topic]
                    THEN excused \cup {e.topic} ELSE excused
      /\ UNCHANGED <<clock, admitted, commits, truth, snapshot, copied, unscored,
                     unbuilt, unsent, page, card, open, resumes, seen, faults>>
  BY DEF Discard, database, bus
<1>2. /\ work' \in Seq(Event \cup {Reset}) /\ page = "mounted"
      /\ ToSet(work) = {e} \cup ToSet(work')
      /\ e \in Event /\ e.topic \in Aspect /\ e \in Frames
  BY <1>1, TabLink
<1> HIDE DEF e
<1>3. TabTypeOK'
  <2>1. excused' \subseteq Aspect
    BY <1>1, <1>2 DEF TabTypeOK
  <2> QED  BY <1>1, <1>2, <2>1 DEF TabTypeOK
<1>4. ChainIsHeard' /\ Admissions'
  BY <1>1, <1>2 DEF ChainIsHeard, Admissions
<1>5. NothingIsAhead'
  <2>1. Frames' \subseteq Frames
    BY <1>1, <1>2 DEF Frames
  <2> QED  BY <1>1, <2>1 DEF NothingIsAhead
<1>6. CardFollowsTheProject'
  <2>1. SUFFICES ASSUME Shown', NEW a \in Aspect \ excused',
                        card[a] # truth[a]
                 PROVE  Coming(a, work)' \/ RereadComing'
    BY <1>1 DEF CardFollowsTheProject
  <2>2. Shown /\ a \notin excused /\ card # Nothing
    BY <1>1, <2>1 DEF Shown
  <2>3. Coming(a, work) \/ RereadComing
    BY <2>1, <2>2 DEF CardFollowsTheProject
  <2>4. RereadComing => RereadComing'
    BY <1>1, <1>2 DEF RereadComing
  <2>5. CASE e.topic = a /\ e.value = truth[a]
    <3>1. e.value <= card[a]
      BY <1>1, <1>2, <2>1, <2>2, <2>5, TabNumbers
    <3>2. card[a] <= truth[a] /\ card[a] \in Nat /\ truth[a] \in Nat
      BY <2>2, TabNumbers DEF NothingIsAhead
    <3> QED  BY <2>1, <2>5, <3>1, <3>2
  <2>6. CASE ~(e.topic = a /\ e.value = truth[a])
    <3>1. Coming(a, work) => Coming(a, work)'
      BY <1>1, <2>6, RestIsComing DEF e
    <3> QED  BY <2>3, <2>4, <3>1
  <2> QED  BY <2>5, <2>6
<1> QED  BY <1>3, <1>4, <1>5, <1>6

LEMMA TabPatch ==
  ASSUME TabInv, Patch
  PROVE  TabInv'
<1> USE DEF TabInv
<1> DEFINE e == Head(work)
<1>1. /\ Link /\ e # Reset /\ card # Nothing
      /\ card' = [card EXCEPT ![e.topic] = e.value, !.at = e.at]
      /\ excused' = IF e.value < card[e.topic] THEN excused \cup {e.topic}
                    ELSE IF e.value = truth[e.topic] THEN excused \ {e.topic}
                    ELSE excused
      /\ UNCHANGED <<clock, admitted, commits, truth, snapshot, copied, unscored,
                     unbuilt, unsent, page, open, resumes, seen, faults>>
  BY DEF Patch, IsNewer, database, bus
<1>2. /\ work' \in Seq(Event \cup {Reset}) /\ page = "mounted"
      /\ ToSet(work) = {e} \cup ToSet(work')
      /\ e \in Event /\ e.topic \in Aspect /\ e \in Frames
  BY <1>1, TabLink
<1> HIDE DEF e
<1>3. card \in Row /\ e.value \in Version /\ e.at \in Instant
  BY <1>1, <1>2 DEF TabTypeOK, Event
<1>4. card' \in Row /\ card' # Nothing
  BY <1>1, <1>2, <1>3, NothingIsNoRow DEF Row, Aspect
<1>5. \A a \in Aspect : card'[a] = IF a = e.topic THEN e.value ELSE card[a]
  BY <1>1, <1>2, <1>3 DEF Row, Aspect
<1>6. TabTypeOK'
  <2>1. excused' \subseteq Aspect
    BY <1>1, <1>2 DEF TabTypeOK
  <2> QED  BY <1>1, <1>2, <1>4, <2>1 DEF TabTypeOK
<1>7. ChainIsHeard' /\ Admissions'
  BY <1>1, <1>2 DEF ChainIsHeard, Admissions
<1>8. e.value <= truth[e.topic]
  BY <1>2 DEF NothingIsAhead
<1>9. NothingIsAhead'
  <2>1. Frames' \subseteq Frames
    BY <1>1, <1>2 DEF Frames
  <2> QED  BY <1>1, <1>5, <1>8, <2>1 DEF NothingIsAhead
<1>10. CardFollowsTheProject'
  <2>1. SUFFICES ASSUME NEW a \in Aspect \ excused', card'[a] # truth[a]
                 PROVE  Coming(a, work)' \/ RereadComing'
    BY <1>1 DEF CardFollowsTheProject
  <2>2. Shown
    BY <1>1, <1>2 DEF Shown
  <2>3. RereadComing => RereadComing'
    BY <1>1, <1>2 DEF RereadComing
  <2>4. ~(e.topic = a /\ e.value = truth[a])
    BY <1>5, <2>1
  <2>5. a \notin excused
    BY <1>1, <2>1, <2>4
  <2>6. card[a] # truth[a]
    <3>1. CASE a = e.topic
      <4>1. ~(e.value < card[a])
        BY <1>1, <2>1, <3>1
      <4>2. e.value \in Nat /\ truth[a] \in Nat /\ card[a] \in Nat
        BY <1>1, <1>2, TabNumbers
      <4> QED  BY <1>8, <2>4, <3>1, <4>1, <4>2
    <3>2. CASE a # e.topic
      BY <1>5, <2>1, <3>2
    <3> QED  BY <3>1, <3>2
  <2>7. Coming(a, work) \/ RereadComing
    BY <2>2, <2>5, <2>6 DEF CardFollowsTheProject
  <2>8. Coming(a, work) => Coming(a, work)'
    BY <1>1, <2>4, RestIsComing DEF e
  <2> QED  BY <2>3, <2>7, <2>8
<1> QED  BY <1>6, <1>7, <1>9, <1>10

-----------------------------------------------------------------------------
LEMMA TabInvHolds == TabSpec => []TabInv
<1>1. TabInit => TabInv
  BY TabStarts
<1>2. TabInv /\ [TabNext]_tabVars => TabInv'
  <2> SUFFICES ASSUME TabInv, [TabNext]_tabVars PROVE TabInv'
    OBVIOUS
  <2>1. CASE \E topic \in {"state", "edit"} : Admit(topic)
    BY <2>1, TabAdmit
  <2>2. CASE \E r \in admitted : Change(r)
    BY <2>2, TabChange
  <2>3. CASE \E e \in unscored : Recalculate(e)
    BY <2>3, TabRecalculate
  <2>4. CASE Build \/ Upsert
    BY <2>4, TabBuild, TabUpsert
  <2>5. CASE \E e \in unsent : Publish(e)
    BY <2>5, TabPublish
  <2>6. CASE Connect \/ Drop
    BY <2>6, TabConnect, TabDrop
  <2>7. CASE Render \/ Mount \/ Reread
    BY <2>7, TabRender, TabMount, TabReread
  <2>8. CASE Discard \/ Patch \/ Retry
    BY <2>8, TabDiscard, TabPatch, TabRetry
  <2>9. CASE UNCHANGED tabVars
    BY <2>9 DEF TabInv, tabVars, database, bus, browser, TabTypeOK,
       NothingIsAhead, Frames, ChainIsHeard, Admissions, CardFollowsTheProject,
       Shown, Coming, RereadComing
  <2> QED  BY <2>1, <2>2, <2>3, <2>4, <2>5, <2>6, <2>7, <2>8, <2>9 DEF TabNext
<1> QED  BY <1>1, <1>2, PTL DEF TabSpec

\* Versions and instants stay within what was committed and admitted, the store
\* remembers an id once and no more of them than SEEN_ID_LIMIT, and the chain
\* of overview/live.ts holds envelopes and resets and nothing else.
THEOREM TabTypeCorrect == TabSpec => []TabTypeOK
<1>1. TabInv => TabTypeOK
  BY DEF TabInv
<1> QED  BY <1>1, TabInvHolds, PTL

\* What the overview shows of a project is so, or a frame or a read that will
\* say so is on its way, but for the cases CardFollowsTheProject names: however
\* the commits, the handlers of the bus, the connection and the page interleave.
THEOREM CardFollows == TabSpec => []CardFollowsTheProject
<1>1. TabInv => CardFollowsTheProject
  BY DEF TabInv
<1> QED  BY <1>1, TabInvHolds, PTL
=============================================================================
