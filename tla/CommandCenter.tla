--------------------------- MODULE CommandCenter ---------------------------
(***************************************************************************)
(* The command center: the queue of projects, read from one snapshot row   *)
(* per project, against the facts it was copied from.                      *)
(*                                                                         *)
(* Operators edit projects, tasks, blockers, notes and overrides; every    *)
(* commit leaves an event in the outbox that names the project, and the    *)
(* snapshot-builder (portfolio/handlers.py) rebuilds that project's row    *)
(* from the facts as they are when it runs, at the instant the event       *)
(* occurred.  Risk flags are never stored: the queue evaluates them over   *)
(* the row, the detail page over the live facts.                           *)
(*                                                                         *)
(* The day is the only clock.  EventBus has the delivery itself; here an   *)
(* event is a pair <<project, day>> and the ones waiting are a bag.        *)
(***************************************************************************)
EXTENDS Naturals, FiniteSets

CONSTANTS
  Project, Task, Person,  \* rows, by business code
  HomeOf,      \* of a task: its project
  CodeRank,    \* of a project: the place of its code in the alphabet
  Worker,      \* relay workers running the snapshot-builder
  Session,     \* requests deciding on an override
  Category,    \* of the states a record may stand on
  EntryCategory,   \* the category of a new task
  Capacity, Score, \* values of weekly_capacity_points, of a score
  StaleAfter,  \* STALENESS_THRESHOLD_DAYS
  Due,         \* the dates operators give a project or a task
  Forced,      \* projects with an override when the behaviour starts
  DefaultCapacity, \* DEFAULT_WEEKLY_CAPACITY_POINTS
  PageSize,
  LastDay,     \* bound: days in a behaviour
  EditLimit,   \* bound: commits in a behaviour
  None

Day == 0..LastDay

\* A row of PriorityOverride: a key and expires_at.
Override == [id : 0..EditLimit, expires : Day \cup {None}]

ASSUME BoundsAreNatural ==
  /\ EditLimit \in Nat /\ LastDay \in Nat /\ StaleAfter \in Nat
  /\ Capacity \subseteq Nat /\ Score \subseteq Nat /\ 0 \in Score
  /\ PageSize \in Nat \ {0} /\ Due \subseteq Day /\ DefaultCapacity \in Capacity
ASSUME PortfolioIsFinite == IsFiniteSet(Project)
ASSUME HomeAssumption == HomeOf \in [Task -> Project]
ASSUME CodesAreUnique ==
  /\ CodeRank \in [Project -> Nat]
  /\ \A p, q \in Project : CodeRank[p] = CodeRank[q] => p = q
ASSUME EntryAssumption == EntryCategory \in Category
ASSUME NoneIsNothing ==
  /\ None \notin Day \cup Person \cup Override \cup Project
  /\ None \notin [category : Category, due : Due \cup {None},
                  assignee : Person \cup {None}, archived : BOOLEAN]
ASSUME KindsOfActor == Project \cap Worker = {}

Health == {"BLOCKED", "AT_RISK", "HEALTHY"}

VARIABLES
  today,
  project,   \* Project: state category, dates, next step, owner, is_archived
  task,      \* Task, None before it is created
  obstacles, \* of a project: blockers with no resolved_at
  capacity,  \* weekly_capacity_points of a person
  last,      \* of a project: the day of the newest record of its timeline
  live,      \* of a project: overrides with no revoked_at
  score,     \* PriorityScore.value
  pending,   \* events waiting, by project and day
  row,       \* ProjectSnapshot
  build,     \* what each worker is rebuilding
  request,   \* what each session is deciding
  edits,
  drift,     \* history: rows and rebuilds the owner's load has left behind
  overtaken, \* history: workers another has written past
  muddled,   \* history: rows written by an overtaken worker
  decided,   \* history: the last decision on a project's override
  crossed    \* history: projects whose last revocation found a replaced row

facts   == <<project, task, obstacles, capacity, last, score>>
ranking == <<live, decided, crossed>>
reading == <<row, build, overtaken, muddled>>
vars    == <<today, facts, ranking, pending, reading, request, edits, drift>>

-----------------------------------------------------------------------------
(* What the tables say of a project. *)

Closed == {"DONE", "CANCELLED"}

\* Task.objects.active()
OnBoard(t) == task[t] # None /\ ~task[t].archived

BoardOf(p) == {t \in Task : HomeOf[t] = p /\ OnBoard(t)}

Late(t, day) ==
  /\ task[t].category \notin Closed
  /\ task[t].due # None /\ task[t].due < day

\* owner_load_for_codes: open tasks, whatever their project.
Load(x) == Cardinality({t \in Task :
             OnBoard(t) /\ task[t].assignee = x /\ task[t].category \notin Closed})

Overloaded(p) == LET x == project[p].owner
                 IN  x # None /\ Load(x) > capacity[x]

\* read_project_priority._live_override: not revoked, and not expired.
Standing(p, day) == {o \in live[p] : o.expires = None \/ o.expires > day}

\* Mutant: the snapshot takes no notice of the expiry.
EverPlaced(p, day) == live[p]

\* rebuild_snapshot._live_override, at the instant of the event.
Placed(p, day) == {o \in live[p] : o.expires = None \/ o.expires > day}

\* The three sources of the BLOCKED flag: state, blockers, tasks.
Blocked(p) == \/ project[p].category = "BLOCKED"
              \/ obstacles[p] > 0
              \/ \E t \in BoardOf(p) : task[t].category = "BLOCKED"

\* rebuild_snapshot: what a rebuild at that day copies.  Of the counts only
\* whether they are zero matters to a flag, of the load whether it exceeds.
Facts(p, day) ==
  [archived   |-> project[p].archived,
   blocked    |-> Blocked(p),
   late       |-> \E t \in BoardOf(p) : Late(t, day),
   busy       |-> \E t \in BoardOf(p) : task[t].category = "IN_PROGRESS",
   step       |-> project[p].step,
   target     |-> project[p].target,
   last       |-> last[p],
   overloaded |-> Overloaded(p),
   override   |-> Placed(p, day),
   score      |-> score[p],
   asOf       |-> day]

Fact == [archived : BOOLEAN, blocked : BOOLEAN, late : BOOLEAN,
         busy : BOOLEAN, step : BOOLEAN, target : Due \cup {None},
         last : Day, overloaded : BOOLEAN, override : SUBSET Override,
         score : Score, asOf : Day]

ASSUME NoneIsNoRebuild == None \notin [project : Project, facts : Fact]

\* evaluate_risk, over a row or over the live facts.
Flags(f, day) ==
  LET raised == [
        BLOCKED          |-> f.blocked,
        OVERDUE          |-> f.late \/ (f.target # None /\ f.target < day),
        NO_NEXT_STEP     |-> ~f.step /\ ~f.busy,
        NO_TARGET_DATE   |-> f.target = None,
        STALE            |-> day >= f.last + StaleAfter,
        OWNER_OVERLOADED |-> f.overloaded]
  IN  {x \in DOMAIN raised : ~f.archived /\ raised[x]}

HealthOf(flags) == IF "BLOCKED" \in flags THEN "BLOCKED"
                   ELSE IF flags # {} THEN "AT_RISK" ELSE "HEALTHY"

\* collect_project_facts: what the page of the project reads.
Collected(p) ==
  [archived   |-> project[p].archived,
   blocked    |-> Blocked(p),
   late       |-> \E t \in BoardOf(p) : Late(t, today),
   busy       |-> \E t \in BoardOf(p) : task[t].category = "IN_PROGRESS",
   step       |-> project[p].step,
   target     |-> project[p].target,
   last       |-> last[p],
   overloaded |-> Overloaded(p)]

\* read_project_priority: what the page of the project says now.
Detail(p) == Flags(Collected(p), today)

\* to_queue_item: what the queue says now.
QueueFlags(p) == Flags(row[p], today)

-----------------------------------------------------------------------------
Init ==
  /\ today = 0
  /\ project \in [Project -> [category : {EntryCategory}, target : {None},
                              step : {FALSE}, owner : Person, archived : {FALSE}]]
  /\ task = [t \in Task |-> None]
  /\ obstacles = [p \in Project |-> 0]
  /\ capacity = [x \in Person |-> DefaultCapacity]
  /\ last = [p \in Project |-> 0]
  /\ decided = [p \in Project |->
       IF p \in Forced THEN [id |-> 0, expires |-> None] ELSE None]
  /\ live = [p \in Project |-> {decided[p]} \ {None}]
  /\ score = [p \in Project |-> 0]
  /\ pending = [e \in Project \X Day |-> 0]
  /\ row = [p \in Project |-> Facts(p, 0)]
  /\ build = [w \in Worker |-> None]
  /\ request = [s \in Session |-> None]
  /\ edits = 0
  /\ drift = {} /\ overtaken = {} /\ muddled = {}
  /\ crossed = {}

\* Every topic but the tick is on the snapshot-builder's subscription.
Announced(p) == pending' = [pending EXCEPT ![<<p, today>>] = @ + 1]

\* Mutant: a change of blockers is left off the subscription.
Unannounced(p) == UNCHANGED pending

\* A blocker's event names the project in its payload.
BlockerAnnounced(p) == Announced(p)

\* One commit about a project, and whether its timeline records it: the
\* activities of tasks and of blockers are filed under other entities.
Commit(p, recorded) ==
  /\ edits < EditLimit
  /\ edits' = edits + 1
  /\ last' = [last EXCEPT ![p] = IF recorded THEN today ELSE @]

\* The rows and rebuilds of other projects whose owner's load has moved.
Drifting(home, people) ==
  LET left == {p \in Project \ {home} : project[p].owner \in people}
  IN  drift' = drift \cup left
               \cup {w \in Worker : build[w] # None /\ build[w].project \in left}

NextDay ==
  /\ today < LastDay
  /\ today' = today + 1
  /\ UNCHANGED <<facts, ranking, pending, reading, request, edits, drift>>

-----------------------------------------------------------------------------
(* Operators at work. *)

\* Only a change of owner or of next step is written on the timeline.
UpdateProject(p) ==
  \E new \in [category : {project[p].category}, target : Due \cup {None},
              step : BOOLEAN, owner : Person \cup {None}, archived : BOOLEAN] :
    /\ new # project[p]
    /\ project' = [project EXCEPT ![p] = new]
    /\ Commit(p, new.owner # project[p].owner \/ new.step # project[p].step)
    /\ Announced(p)
    /\ UNCHANGED <<today, task, obstacles, capacity, score, ranking, reading,
                   request, drift>>

TransitionProject(p) ==
  \E c \in Category \ {project[p].category} :
    /\ project' = [project EXCEPT ![p].category = c]
    /\ Commit(p, TRUE)
    /\ Announced(p)
    /\ UNCHANGED <<today, task, obstacles, capacity, score, ranking, reading,
                   request, drift>>

\* People whose load the change of a row of Task moves.
Moved == {x \in Person : Load(x)' # Load(x)}

SaveTask(t, new, recorded) ==
  /\ task' = [task EXCEPT ![t] = new]
  /\ Commit(HomeOf[t], recorded)
  /\ Announced(HomeOf[t])
  /\ Drifting(HomeOf[t], Moved)
  /\ UNCHANGED <<today, project, obstacles, capacity, score, ranking, reading,
                 request>>

CreateTask(t) ==
  /\ task[t] = None
  /\ \E due \in Due \cup {None}, x \in Person \cup {None} :
       SaveTask(t, [category |-> EntryCategory, due |-> due, assignee |-> x,
                    archived |-> FALSE], TRUE)

\* update_task: removing and restoring a task is on the project's timeline.
UpdateTask(t) ==
  /\ task[t] # None
  /\ \E due \in Due \cup {None}, x \in Person \cup {None}, gone \in BOOLEAN :
       LET new == [task[t] EXCEPT !.due = due, !.assignee = x, !.archived = gone]
       IN  new # task[t] /\ SaveTask(t, new, gone # task[t].archived)

TransitionTask(t) ==
  /\ OnBoard(t)
  /\ \E c \in Category \ {task[t].category} :
       SaveTask(t, [task[t] EXCEPT !.category = c], FALSE)

RaiseBlocker(p) ==
  /\ obstacles' = [obstacles EXCEPT ![p] = @ + 1]
  /\ Commit(p, FALSE)
  /\ BlockerAnnounced(p)
  /\ UNCHANGED <<today, project, task, capacity, score, ranking, reading,
                 request, drift>>

\* Mutant: a blocker resolved already is resolved again.
EvenResolved(p) == TRUE

\* The row is locked, so of two resolutions the second is refused.
Unresolved(p) == obstacles[p] > 0

ResolveBlocker(p) ==
  /\ Unresolved(p)
  /\ obstacles' = [obstacles EXCEPT ![p] = @ - 1]
  /\ Commit(p, FALSE)
  /\ BlockerAnnounced(p)
  /\ UNCHANGED <<today, project, task, capacity, score, ranking, reading,
                 request, drift>>

AddNote(p) ==
  /\ Commit(p, TRUE)
  /\ Announced(p)
  /\ UNCHANGED <<today, project, task, obstacles, capacity, score, ranking,
                 reading, request, drift>>

\* member.updated names no project: nothing is rebuilt.
UpdateCapacity(x) ==
  \E c \in Capacity \ {capacity[x]} :
    /\ edits < EditLimit /\ edits' = edits + 1
    /\ capacity' = [capacity EXCEPT ![x] = c]
    /\ Drifting(None, {x})
    /\ UNCHANGED <<today, project, task, obstacles, last, score, ranking,
                   pending, reading, request>>

\* The engine's own record has origin POLICY, which the timeline leaves out.
Rescore(p) ==
  \E v \in Score \ {score[p]} :
    /\ score' = [score EXCEPT ![p] = v]
    /\ Commit(p, FALSE)
    /\ Announced(p)
    /\ UNCHANGED <<today, project, task, obstacles, capacity, ranking, reading,
                   request, drift>>

-----------------------------------------------------------------------------
(* Overrides: the live row is read without a lock. *)

Ask(s) ==
  /\ request[s] = None
  /\ \E p \in Project, op \in {"override", "revoke"} :
       \* revoking finds nothing to revoke, and returns
       /\ op = "revoke" => live[p] # {}
       /\ request' = [request EXCEPT ![s] =
                        [op |-> op, project |-> p, found |-> live[p]]]
  /\ UNCHANGED <<today, facts, ranking, pending, reading, edits, drift>>

Answered(s) == request' = [request EXCEPT ![s] = None]

\* Mutant: no partial unique index.
NeverClashes(p, found) == FALSE

\* The partial unique index: one row with no revoked_at per project.
Clashes(p, found) == live[p] \ found # {}

OverridePriority(s) ==
  /\ request[s] # None /\ request[s].op = "override"
  /\ LET p == request[s].project  found == request[s].found IN
       /\ ~Clashes(p, found)
       /\ \E expires \in Day \cup {None} :
            LET new == [id |-> edits + 1, expires |-> expires] IN
              /\ live' = [live EXCEPT ![p] = (@ \ found) \cup {new}]
              /\ decided' = [decided EXCEPT ![p] = new]
       /\ crossed' = crossed \ {p}
       /\ Commit(p, TRUE)
       /\ Announced(p)
  /\ Answered(s)
  /\ UNCHANGED <<today, project, task, obstacles, capacity, score, reading, drift>>

\* IntegrityError: the whole decision is rolled back.
Rejected(s) ==
  /\ request[s] # None /\ request[s].op = "override"
  /\ Clashes(request[s].project, request[s].found)
  /\ Answered(s)
  /\ UNCHANGED <<today, facts, ranking, pending, reading, edits, drift>>

\* The row it found may have been replaced: revoking it again is no error.
RevokeOverride(s) ==
  /\ request[s] # None /\ request[s].op = "revoke"
  /\ LET p == request[s].project  found == request[s].found IN
       /\ live' = [live EXCEPT ![p] = @ \ found]
       /\ decided' = [decided EXCEPT ![p] = None]
       /\ crossed' = IF live[p] \ found = {} THEN crossed \ {p} ELSE crossed \cup {p}
       /\ Commit(p, TRUE)
       /\ Announced(p)
  /\ Answered(s)
  /\ UNCHANGED <<today, project, task, obstacles, capacity, score, reading, drift>>

-----------------------------------------------------------------------------
(* The snapshot-builder. *)

Read(w) ==
  /\ build[w] = None
  /\ \E p \in Project, day \in Day :
       /\ pending[<<p, day>>] > 0
       /\ pending' = [pending EXCEPT ![<<p, day>>] = @ - 1]
       /\ build' = [build EXCEPT ![w] = [project |-> p, facts |-> Facts(p, day)]]
  /\ drift' = drift \ {w}
  /\ overtaken' = overtaken \ {w}
  /\ UNCHANGED <<today, facts, ranking, row, muddled, request, edits>>

\* The upsert is unconditional.
Write(w) ==
  /\ build[w] # None
  /\ LET p == build[w].project IN
       /\ row' = [row EXCEPT ![p] = build[w].facts]
       /\ drift' = IF w \in drift THEN (drift \ {w}) \cup {p} ELSE drift \ {p}
       /\ muddled' = IF w \in overtaken THEN muddled \cup {p} ELSE muddled \ {p}
       /\ overtaken' = (overtaken \ {w}) \cup
            {v \in Worker \ {w} : build[v] # None /\ build[v].project = p}
  /\ build' = [build EXCEPT ![w] = None]
  /\ UNCHANGED <<today, facts, ranking, pending, request, edits>>

\* The worker dies or the upsert fails: the event is delivered again.
Abort(w) ==
  /\ build[w] # None
  /\ LET b == build[w]
     IN  pending' = [pending EXCEPT ![<<b.project, b.facts.asOf>>] = @ + 1]
  /\ build' = [build EXCEPT ![w] = None]
  /\ drift' = drift \ {w}
  /\ overtaken' = overtaken \ {w}
  /\ UNCHANGED <<today, facts, ranking, row, muddled, request, edits>>

-----------------------------------------------------------------------------
\* Bound: the commits made and those of the requests that were begun.
Room == edits + Cardinality({s \in Session : request[s] # None}) < EditLimit

Next ==
  \/ NextDay
  \/ /\ Room
     /\ \/ \E p \in Project :
             \/ UpdateProject(p) \/ TransitionProject(p) \/ AddNote(p)
             \/ RaiseBlocker(p) \/ ResolveBlocker(p) \/ Rescore(p)
        \/ \E t \in Task : CreateTask(t) \/ UpdateTask(t) \/ TransitionTask(t)
        \/ \E x \in Person : UpdateCapacity(x)
        \/ \E s \in Session : Ask(s)
  \/ \E s \in Session : OverridePriority(s) \/ Rejected(s) \/ RevokeOverride(s)
  \/ \E w \in Worker : Read(w) \/ Write(w) \/ Abort(w)

Spec == Init /\ [][Next]_vars

-----------------------------------------------------------------------------
(* Reading the queue. *)

\* Mutant: no tiebreaker.
HigherScore(p, q) == row[p].score > row[q].score

\* resolve_ordering("-score", tiebreaker="project_code")
Precedes(p, q) == \/ row[p].score > row[q].score
                  \/ row[p].score = row[q].score /\ CodeRank[p] < CodeRank[q]

\* The orders the database may answer a query of these rows in.
Orders(rows) ==
  {o \in [1..Cardinality(rows) -> rows] :
     \A i, j \in DOMAIN o : i < j => o[i] # o[j] /\ ~Precedes(o[j], o[i])}

\* The rows of a queue: the archived facet is the database's, the health
\* facet is applied to the evaluated items (read_queue._matches_derived).
Rows(archived) == {p \in Project : row[p].archived = archived}
Matching(rows, health) ==
  {p \in rows : health = None \/ HealthOf(QueueFlags(p)) = health}

\* How many of the wanted an answer lists before a project.
Ahead(order, wanted, p) ==
  Cardinality({q \in wanted : \E i, j \in DOMAIN order :
                                i < j /\ order[i] = q /\ order[j] = p})

\* A page of the wanted, counted from zero.
Page(order, wanted, n) ==
  {p \in wanted : Ahead(order, wanted, p) \div PageSize = n}

-----------------------------------------------------------------------------
(* Properties. *)

TypeOK ==
  /\ today \in Day /\ edits \in 0..EditLimit
  /\ project \in [Project -> [category : Category, target : Due \cup {None},
       step : BOOLEAN, owner : Person \cup {None}, archived : BOOLEAN]]
  /\ task \in [Task -> {None} \cup [category : Category, due : Due \cup {None},
       assignee : Person \cup {None}, archived : BOOLEAN]]
  /\ obstacles \in [Project -> Nat] /\ capacity \in [Person -> Capacity]
  /\ last \in [Project -> Day] /\ score \in [Project -> Score]
  /\ live \in [Project -> SUBSET Override]
  /\ decided \in [Project -> Override \cup {None}]
  /\ crossed \subseteq Project /\ muddled \subseteq Project
  /\ drift \subseteq Project \cup Worker /\ overtaken \subseteq Worker
  /\ pending \in [Project \X Day -> Nat]
  /\ row \in [Project -> Fact]
  /\ build \in [Worker -> {None} \cup [project : Project, facts : Fact]]
  /\ request \in [Session -> {None} \cup
       [op : {"override", "revoke"}, project : Project, found : SUBSET Override]]

\* No event about the project is waiting or in hand.
Settled(p) ==
  /\ \A day \in Day : pending[<<p, day>>] = 0
  /\ \A w \in Worker : build[w] # None => build[w].project # p

\* Some open task has fallen due since the row was built.
DueSince(p) == \E t \in BoardOf(p) : Late(t, today) /\ ~Late(t, row[p].asOf)

\* The flags the queue may show wrong of a project no event is waiting about.
Excused(p) ==
  (IF DueSince(p) THEN {"OVERDUE"} ELSE {})
  \cup (IF p \in drift THEN {"OWNER_OVERLOADED"} ELSE {})

\* Once the events about a project are delivered, the queue raises the flags
\* its page raises, but for a task that fell due since, or a load its owner
\* took from other projects (handlers.py: every topic that names a project
\* rebuilds it).  What an overtaken rebuild writes is Ranking's subject.
SettledQueueAgreesWithDetail ==
  \A p \in Project : Settled(p) /\ p \notin muddled =>
    QueueFlags(p) \ Excused(p) = Detail(p) \ Excused(p)

\* The forced position a settled row shows is the one in force, or one that
\* has expired since the row was built (rebuild_snapshot._live_override).
SettledQueueShowsTheOverride ==
  \A p \in Project : Settled(p) /\ p \notin muddled =>
    /\ Standing(p, today) \subseteq row[p].override
    /\ \A o \in row[p].override \ Standing(p, today) :
         o \in live[p] /\ row[p].asOf < o.expires

\* One override is live per project, and it is the last decision: but for a
\* revocation that found an override another operator had just replaced.
LastDecisionStands ==
  \A p \in Project :
    /\ Cardinality(live[p]) <= 1
    /\ p \notin crossed =>
         live[p] = {decided[p]} \ {None}

\* Whichever way the database answers each query, the pages of a listing
\* hold every project that matches, once (shared/ordering.py: a tiebreaker).
PagesCoverTheQueue ==
  \A archived \in BOOLEAN :
    LET rows   == Rows(archived)
        orders == Orders(rows)
    IN  \A health \in Health \cup {None} :
          LET wanted == Matching(rows, health)
              pages  == 0..((Cardinality(wanted) - 1) \div PageSize)
          IN  wanted # {} =>
                \A answer \in [pages -> orders] :
                  \A p \in wanted :
                    Cardinality({n \in pages : p \in Page(answer[n], wanted, n)}) = 1

\* "A row nobody has rebuilt since yesterday still reports today's truth"
\* (portfolio/models.py): the calendar alone makes no row wrong.
QueueTellsTodaysTruth ==
  \A p \in Project : Settled(p) /\ p \notin muddled /\ p \notin drift =>
    QueueFlags(p) = Detail(p)
=============================================================================
