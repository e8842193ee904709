--------------------------- MODULE RankingProofs ---------------------------
(***************************************************************************)
(* Theorems about Ranking for every set of projects, workers and consoles, *)
(* every calendar and every value of the bounds.                           *)
(***************************************************************************)
EXTENDS Ranking, TLAPS

Rescoring == {"rescoring", "collected", "compared"}

(***************************************************************************)
(* What a session's label says of the rest of its state.                   *)
(***************************************************************************)
LabelsAgree ==
  \A w \in Session :
    /\ pc[w] = "idle" => job[w] = None
    /\ pc[w] \in Rescoring => job[w] # None /\ job[w].handler = "priority-recalculator"
    /\ pc[w] \in {"building", "viewed"} =>
         job[w] # None /\ job[w].handler = "snapshot-builder"
    /\ pc[w] = "viewed" => view[w] # None
    /\ w \in Worker => job[w] \in Delivery \cup {None}
    /\ w \in Console => job[w] \in Manual \cup {None}

\* Inputs are collected for a project that the session is rescoring or has
\* rescored, rows are written for the latter only, and the project of the
\* session's own delivery is one or the other.
ProgressAgrees ==
  \A w \in Session :
    /\ pc[w] \in {"collected", "compared"} =>
         on[w] \in left[w] /\ data[w][on[w]] # None
    /\ \A p \in Project :
         /\ data[w][p] # None =>
              /\ pc[w] \in Rescoring
              /\ p \in left[w] => pc[w] # "rescoring" /\ on[w] = p
         /\ p \in wrote[w] => data[w][p] # None /\ p \notin left[w]
         /\ pc[w] \in Rescoring /\ job[w].project = p =>
              data[w][p] # None \/ p \in left[w]

Typed == TypeOK /\ LabelsAgree /\ ProgressAgrees

Current(i, p) == i # None /\ i = Inputs(facts[p], i.now)

\* A change of p is still to be read: it waits, or the worker that holds it has
\* not read p yet or has read it as it is.
Fresh(p) ==
  \/ \E d \in pending : d.project = p /\ d.handler = "priority-recalculator"
  \/ \E x \in Worker :
       /\ pc[x] \in Rescoring /\ job[x].project = p
       /\ data[x][p] = None \/ Current(data[x][p], p)

ScoresAreFresh ==
  \A p \in Project \ raced : Current(score[p], p) \/ Fresh(p)

CollectedIsFresh ==
  \A w \in Session : \A p \in Project :
    data[w][p] # None /\ p \notin tainted[w] =>
      Current(data[w][p], p) \/ Fresh(p)

SkippedIsStored ==
  \A w \in Session : \A p \in Project :
    data[w][p] # None /\ p \notin tainted[w] \cup left[w] \cup wrote[w] =>
      score[p] = data[w][p]

IInv == Typed /\ ScoresAreFresh /\ CollectedIsFresh /\ SkippedIsStored

-----------------------------------------------------------------------------
(***************************************************************************)
(* Facts about the operators the steps are built from.                     *)
(***************************************************************************)

\* Collecting the facts of a project as of a day gives the engine's input.
LEMMA InputsAreTyped ==
  ASSUME NEW f \in Facts, NEW d \in Day
  PROVE  Inputs(f, d) \in SignalInput /\ Inputs(f, d).now = d
BY DEF Inputs, Facts, SignalInput

\* None is none of the values it stands beside.
LEMMA NoneIsDistinct ==
  /\ None \notin Project /\ None \notin SignalInput /\ None \notin Snapshot
  /\ None \notin Delivery /\ None \notin Manual
BY NoneIsNoValue

\* The bus delivers an event about a project to handlers of projects.
LEMMA DeliveriesAreTyped ==
  ASSUME NEW n \in Nat, NEW p \in Project, NEW d \in Day,
         NEW k \in {"changed", "rescored"}
  PROVE  DeliveriesOf(n, k, p, d) \subseteq Delivery
BY DEF DeliveriesOf, Subscribers, Delivery, Handlers

\* A tick is delivered to the recalculator alone.
LEMMA TicksAreTyped ==
  ASSUME NEW d \in Day
  PROVE  DeliveriesOf(0, "ticked", None, d) \subseteq Delivery
BY DEF DeliveriesOf, Subscribers, Delivery, Handlers

\* What a session serves names a day, and a handler; only a tick names no
\* project, and only the recalculator is served a tick.
LEMMA JobsAreTyped ==
  ASSUME NEW j \in Delivery \cup Manual
  PROVE  /\ j.at \in Day
         /\ j.handler \in Handlers
         /\ j.kind # "ticked" => j.project \in Project
         /\ j.handler = "snapshot-builder" => j.project \in Project
         /\ j.kind = "ticked" => j.project = None
BY DEF Delivery, Manual, Handlers

-----------------------------------------------------------------------------
(***************************************************************************)
(* Typing.  A step of one session leaves the others' labels alone, and     *)
(* Release returns its own session to the idle label.                      *)
(***************************************************************************)

\* A session that has released its transaction is typed and idle.
LEMMA ReleaseIsTyped ==
  ASSUME Typed, NEW w \in Session, Release(w)
  PROVE  /\ pc' \in [Session -> Labels]
         /\ job' \in [Session -> Delivery \cup Manual \cup {None}]
         /\ left' \in [Session -> SUBSET Project]
         /\ on' \in [Session -> Project \cup {None}]
         /\ data' \in [Session -> [Project -> SignalInput \cup {None}]]
         /\ seen' \in [Session -> SignalInput \cup {None}]
         /\ wrote' \in [Session -> SUBSET Project]
         /\ news' \in [Session -> SUBSET Project]
         /\ view' \in [Session -> Snapshot \cup {None}]
         /\ LabelsAgree'
         /\ ProgressAgrees'
<1> USE DEF Typed, TypeOK, Release, Goto, Labels
<1>1. /\ pc'[w] = "idle" /\ job'[w] = None
      /\ \A p \in Project : data'[w][p] = None
      /\ left'[w] = {} /\ wrote'[w] = {}
  OBVIOUS
<1>2. \A x \in Session \ {w} :
        /\ pc'[x] = pc[x] /\ job'[x] = job[x] /\ data'[x] = data[x]
        /\ left'[x] = left[x] /\ wrote'[x] = wrote[x] /\ on'[x] = on[x]
        /\ view'[x] = view[x]
  OBVIOUS
<1>3. LabelsAgree'
  BY <1>1, <1>2 DEF LabelsAgree, Rescoring
<1>4. ProgressAgrees'
  BY <1>1, <1>2 DEF ProgressAgrees, Rescoring
<1> QED
  BY <1>3, <1>4

\* Overtaking marks projects only.
LEMMA OvertakeIsTyped ==
  ASSUME Typed, NEW w \in Session, Overtake(w)
  PROVE  tainted' \in [Session -> SUBSET Project]
<1> DEFINE T(x) == IF x = w THEN {}
                   ELSE tainted[x] \cup (Collected(x) \cap Collected(w))
                                   \cup (Viewed(x) \cap Viewed(w))
<1>1. tainted' = [x \in Session |-> T(x)]
  BY DEF Overtake
<1>2. ASSUME NEW x \in Session PROVE T(x) \subseteq Project
  <2>1. Collected(x) \subseteq Project
    BY DEF Collected
  <2>2. Viewed(x) \subseteq Project
    BY JobsAreTyped DEF Viewed, Typed, TypeOK, LabelsAgree
  <2> QED
    BY <2>1, <2>2 DEF Typed, TypeOK
<1> QED
  BY <1>1, <1>2

\* Every step keeps the types and the labels consistent.
LEMMA TypedStep == Typed /\ [Next]_vars => Typed'
<1> SUFFICES ASSUME Typed, [Next]_vars PROVE Typed'
  OBVIOUS
<1> USE DEF Typed
<1>1. ASSUME NEW p \in Project, NEW f \in Facts, Edit(p, f) PROVE Typed'
  <2>1. DeliveriesOf(log + 1, "changed", p, today) \subseteq Delivery
    BY DeliveriesAreTyped DEF TypeOK
  <2>2. TypeOK'
    BY <1>1, <2>1, RankingBounds DEF Edit, TypeOK, session, history
  <2>3. LabelsAgree' /\ ProgressAgrees'
    BY <1>1 DEF Edit, LabelsAgree, ProgressAgrees, session
  <2> QED
    BY <2>2, <2>3
<1>2. CASE NextDay
  <2>1. TypeOK'
    BY <1>2, RankingBounds DEF NextDay, TypeOK, Day, session, history, counters
  <2>2. LabelsAgree' /\ ProgressAgrees'
    BY <1>2 DEF NextDay, LabelsAgree, ProgressAgrees, session
  <2> QED
    BY <2>1, <2>2
<1>3. CASE Tick
  <2>1. DeliveriesOf(0, "ticked", None, today) \subseteq Delivery
    BY TicksAreTyped DEF TypeOK
  <2>2. TypeOK'
    BY <1>3, <2>1 DEF Tick, TypeOK, session, history, counters
  <2>3. LabelsAgree' /\ ProgressAgrees'
    BY <1>3 DEF Tick, LabelsAgree, ProgressAgrees, session
  <2> QED
    BY <2>2, <2>3
<1>4. ASSUME NEW w \in Worker, NEW d \in pending, Start(w, d) PROVE Typed'
  <2>1. w \in Session /\ d \in Delivery /\ pc[w] = "idle" /\ w \notin Console
    BY <1>4, SessionsAreDistinct DEF Start, TypeOK, Session
  <2>2. d.handler = "priority-recalculator" =>
          (IF d.kind = "ticked" THEN StaleAt(d.at) ELSE {d.project})
             \in SUBSET Project
    BY <2>1, JobsAreTyped DEF StaleAt
  <2>3. TypeOK'
    <3>1. CASE d.handler = "snapshot-builder"
      BY <1>4, <2>1, <3>1
      DEF Start, Goto, TypeOK, Labels, history, counters
    <3>2. CASE d.handler = "priority-recalculator"
      <4> DEFINE L == IF d.kind = "ticked" THEN StaleAt(d.at) ELSE {d.project}
      <4>1. L \in SUBSET Project
        BY <2>2, <3>2
      <4>2. left' = [left EXCEPT ![w] = L] /\ pc' = [pc EXCEPT ![w] = "rescoring"]
        BY <1>4, <3>2 DEF Start, Goto
      <4> HIDE DEF L
      <4>3. left' \in [Session -> SUBSET Project]
        BY <4>1, <4>2 DEF TypeOK
      <4> QED
        BY <1>4, <2>1, <4>2, <4>3
        DEF Start, TypeOK, Labels, history, counters
    <3> QED
      BY <1>4, <3>1, <3>2 DEF Start
  <2>4. LabelsAgree'
    BY <1>4, <2>1, NoneIsDistinct
    DEF Start, Goto, TypeOK, LabelsAgree, Rescoring, Labels
  <2>5. ProgressAgrees'
    BY <1>4, <2>1, <2>2, JobsAreTyped, NoneIsDistinct
    DEF Start, Goto, TypeOK, LabelsAgree, ProgressAgrees, Rescoring, Labels
  <2> QED
    BY <2>3, <2>4, <2>5
<1>5. ASSUME NEW c \in Console, NEW p \in Project, Rebuild(c, p) PROVE Typed'
  <2>1. c \in Session /\ c \notin Worker
    BY SessionsAreDistinct DEF Session
  <2> DEFINE j == [id |-> 0, kind |-> "manual", project |-> p, at |-> today,
                   handler |-> "priority-recalculator"]
  <2>2. /\ j \in Manual /\ job' = [job EXCEPT ![c] = j]
        /\ j.project = p /\ j.handler = "priority-recalculator"
    BY <1>5 DEF Rebuild, Manual, TypeOK
  <2> HIDE DEF j
  <2>3. TypeOK'
    BY <1>5, <2>1, <2>2, RankingBounds
    DEF Rebuild, Goto, TypeOK, Labels, history
  <2>4. LabelsAgree'
    BY <1>5, <2>1, <2>2, NoneIsDistinct
    DEF Rebuild, Goto, TypeOK, LabelsAgree, Rescoring
  <2>5. ProgressAgrees'
    BY <1>5, <2>1, <2>2
    DEF Rebuild, Goto, TypeOK, ProgressAgrees, Rescoring
  <2> QED
    BY <2>3, <2>4, <2>5
<1>6. ASSUME NEW w \in Session, NEW p \in Project, Collect(w, p) PROVE Typed'
  <2>1. job[w] \in Delivery \cup Manual
    BY <1>6 DEF Collect, LabelsAgree, TypeOK, Rescoring
  <2>2. Inputs(facts[p], job[w].at) \in SignalInput
    BY <2>1, JobsAreTyped, InputsAreTyped DEF TypeOK
  <2>3. TypeOK'
    BY <1>6, <2>2 DEF Collect, Goto, TypeOK, Labels, history, counters
  <2>4. LabelsAgree'
    BY <1>6 DEF Collect, Goto, TypeOK, LabelsAgree, Rescoring
  <2>5. ProgressAgrees'
    BY <1>6, <2>2, NoneIsDistinct
    DEF Collect, Goto, TypeOK, ProgressAgrees, Rescoring
  <2> QED
    BY <2>3, <2>4, <2>5
<1>7. ASSUME NEW w \in Session, Compare(w) PROVE Typed'
  <2>1. on[w] \in Project
    BY <1>7 DEF Compare, TypeOK, ProgressAgrees
  <2>2. TypeOK'
    <3>1. /\ left' \in [Session -> SUBSET Project]
          /\ on' \in [Session -> Project \cup {None}]
          /\ seen' \in [Session -> SignalInput \cup {None}]
          /\ pc' \in [Session -> Labels]
      <4>1. CASE SameInputs(score[on[w]], data[w][on[w]])
        <5>1. /\ left' = [left EXCEPT ![w] = @ \ {on[w]}]
              /\ on' = [on EXCEPT ![w] = None]
              /\ pc' = [pc EXCEPT ![w] = "rescoring"]
              /\ seen' = seen
          BY <1>7, <4>1 DEF Compare, Goto
        <5> QED
          BY <5>1 DEF TypeOK, Labels
      <4>2. CASE ~SameInputs(score[on[w]], data[w][on[w]])
        <5>1. /\ UNCHANGED <<left, on>>
              /\ pc' = [pc EXCEPT ![w] = "compared"]
              /\ seen' = [seen EXCEPT ![w] = score[on[w]]]
          BY <1>7, <4>2 DEF Compare, Goto
        <5>2. score[on[w]] \in SignalInput \cup {None}
          BY <2>1 DEF TypeOK
        <5> QED
          BY <5>1, <5>2 DEF TypeOK, Labels
      <4> QED
        BY <4>1, <4>2
    <3> QED
      BY <1>7, <3>1 DEF Compare, TypeOK, history, counters
  <2>3. LabelsAgree'
    BY <1>7 DEF Compare, Goto, TypeOK, LabelsAgree, Rescoring
  <2>4. ProgressAgrees'
    BY <1>7, <2>1 DEF Compare, Goto, TypeOK, ProgressAgrees, Rescoring
  <2> QED
    BY <2>2, <2>3, <2>4
<1>8. ASSUME NEW w \in Session, Write(w) PROVE Typed'
  <2>1. on[w] \in Project
    BY <1>8 DEF Write, TypeOK, ProgressAgrees
  <2>2. TypeOK'
    BY <1>8, <2>1 DEF Write, Goto, TypeOK, Labels, history, counters
  <2>3. LabelsAgree'
    BY <1>8 DEF Write, Goto, TypeOK, LabelsAgree, Rescoring
  <2>4. ProgressAgrees'
    BY <1>8, <2>1 DEF Write, Goto, TypeOK, ProgressAgrees, Rescoring
  <2> QED
    BY <2>2, <2>3, <2>4
<1>9. ASSUME NEW w \in Session, Commit(w) PROVE Typed'
  <2>1. Release(w) /\ Overtake(w)
    BY <1>9 DEF Commit
  <2>2. job[w] \in Delivery \cup Manual
    BY <1>9 DEF Commit, LabelsAgree, TypeOK, Rescoring
  <2>3. score' \in [Project -> SignalInput \cup {None}]
    BY <1>9 DEF Commit, TypeOK
  <2>4. \A p \in Announced(w) : p \in Project
    BY DEF Announced, TypeOK
  <2>5. pending' \subseteq Delivery
    <3>1. job[w].at \in Day /\ log + 1 \in Nat
      BY <2>2, JobsAreTyped DEF TypeOK
    <3>2. \A p \in Announced(w) :
            DeliveriesOf(log + 1, "rescored", p, job[w].at) \subseteq Delivery
      BY <2>4, <3>1, DeliveriesAreTyped
    <3> QED
      BY <1>9, <3>2 DEF Commit, TypeOK
  <2>6. raced' \subseteq Project /\ silent' \subseteq Project /\ log' \in Nat
        /\ applied' \in Day
    BY <1>9, <2>2, JobsAreTyped
    DEF Commit, TypeOK, Collected, Announced, Changing
  <2> QED
    BY <1>9, <2>1, <2>3, <2>5, <2>6, ReleaseIsTyped, OvertakeIsTyped
    DEF Commit, TypeOK, counters
<1>10. ASSUME NEW w \in Session, View(w) PROVE Typed'
  <2>1. /\ job[w] \in Delivery \cup Manual
        /\ job[w].handler = "snapshot-builder"
    BY <1>10 DEF View, LabelsAgree, TypeOK
  <2>2. job[w].project \in Project /\ job[w].at \in Day
    BY <2>1, JobsAreTyped
  <2>3. PICK v \in Snapshot : view' = [view EXCEPT ![w] = v]
    BY <1>10, <2>2 DEF View, TypeOK, Snapshot
  <2>4. TypeOK'
    BY <1>10, <2>3 DEF View, Goto, TypeOK, Labels, history, counters
  <2>5. LabelsAgree'
    BY <1>10, <2>3, NoneIsDistinct
    DEF View, Goto, TypeOK, LabelsAgree, Rescoring
  <2>6. ProgressAgrees'
    BY <1>10 DEF View, Goto, TypeOK, ProgressAgrees, Rescoring
  <2> QED
    BY <2>4, <2>5, <2>6
<1>11. ASSUME NEW w \in Session, Upsert(w) PROVE Typed'
  <2>1. Release(w) /\ Overtake(w)
    BY <1>11 DEF Upsert
  <2>2. view[w] \in Snapshot
    BY <1>11 DEF Upsert, LabelsAgree, TypeOK
  <2>3. /\ snapshot' \in [Project -> Snapshot \cup {None}]
        /\ blurred' \subseteq Project /\ silent' \subseteq Project
    BY <1>11, <2>2 DEF Upsert, TypeOK
  <2> QED
    BY <1>11, <2>1, <2>3, ReleaseIsTyped, OvertakeIsTyped
    DEF Upsert, TypeOK, counters
<1>12. ASSUME NEW w \in Session, Abort(w) PROVE Typed'
  <2>1. Release(w)
    BY <1>12 DEF Abort
  <2>2. pending' \subseteq Delivery
    BY <1>12, NoneIsDistinct
    DEF Abort, LabelsAgree, TypeOK, Labels, Rescoring, Session
  <2>3. tainted' \in [Session -> SUBSET Project]
    BY <1>12 DEF Abort, TypeOK
  <2> QED
    BY <1>12, <2>1, <2>2, <2>3, RankingBounds, ReleaseIsTyped
    DEF Abort, TypeOK
<1>13. CASE UNCHANGED vars
  BY <1>13
  DEF vars, session, history, counters, TypeOK, LabelsAgree, ProgressAgrees
<1> QED
  BY <1>1, <1>2, <1>3, <1>4, <1>5, <1>6, <1>7, <1>8, <1>9, <1>10, <1>11,
     <1>12, <1>13
  DEF Next, SessionStep

-----------------------------------------------------------------------------
(***************************************************************************)
(* Freshness.  A change of p stays unread, or read as it is, until the     *)
(* session that serves it commits or rolls back.                           *)
(***************************************************************************)

\* Fresh(p) survives a step that leaves alone the facts of p, what waits for
\* the recalculator and the sessions that serve p.
LEMMA FreshIsKept ==
  ASSUME NEW p \in Project, Fresh(p), facts'[p] = facts[p],
         \A d \in pending :
           d.project = p /\ d.handler = "priority-recalculator" => d \in pending',
         \A x \in Worker :
           pc[x] \in Rescoring /\ job[x].project = p =>
             pc'[x] \in Rescoring /\ job'[x] = job[x] /\ data'[x][p] = data[x][p]
  PROVE  Fresh(p)'
<1>1. CASE \E d \in pending :
             d.project = p /\ d.handler = "priority-recalculator"
  BY <1>1 DEF Fresh
<1>2. CASE \E x \in Worker :
             /\ pc[x] \in Rescoring /\ job[x].project = p
             /\ data[x][p] = None \/ Current(data[x][p], p)
  <2>1. PICK x \in Worker :
          /\ pc[x] \in Rescoring /\ job[x].project = p
          /\ data[x][p] = None \/ Current(data[x][p], p)
    BY <1>2
  <2>2. /\ pc'[x] \in Rescoring /\ job'[x].project = p
        /\ data'[x][p] = None \/ Current(data[x][p], p)'
    BY <2>1 DEF Current
  <2> QED
    BY <2>1, <2>2 DEF Fresh
<1> QED
  BY <1>1, <1>2 DEF Fresh

\* Fresh(p) survives the commit of a session that has read p out of date, or
\* does not serve p.
LEMMA FreshByOthers ==
  ASSUME NEW p \in Project, Fresh(p), facts'[p] = facts[p], NEW w \in Session,
         pending \subseteq pending',
         \A x \in Session \ {w} : UNCHANGED <<pc[x], job[x], data[x]>>,
         job[w].project = p => data[w][p] # None,
         data[w][p] = None \/ ~Current(data[w][p], p)
  PROVE  Fresh(p)'
<1>1. CASE \E d \in pending :
             d.project = p /\ d.handler = "priority-recalculator"
  BY <1>1 DEF Fresh
<1>2. CASE \E x \in Worker :
             /\ pc[x] \in Rescoring /\ job[x].project = p
             /\ data[x][p] = None \/ Current(data[x][p], p)
  <2>1. PICK x \in Worker :
          /\ pc[x] \in Rescoring /\ job[x].project = p
          /\ data[x][p] = None \/ Current(data[x][p], p)
    BY <1>2
  <2>2. x \in Session \ {w}
    BY <2>1 DEF Session
  <2>3. /\ pc'[x] \in Rescoring /\ job'[x].project = p
        /\ data'[x][p] = None \/ Current(data[x][p], p)'
    BY <2>1, <2>2 DEF Current
  <2> QED
    BY <2>1, <2>3 DEF Fresh
<1> QED
  BY <1>1, <1>2 DEF Fresh

\* A step that keeps every Fresh(p), the facts, the scores, what the sessions
\* have collected and left to do, and the marks, keeps the three invariants.
LEMMA QuietStep ==
  ASSUME ScoresAreFresh, CollectedIsFresh, SkippedIsStored,
         facts' = facts, score' = score, data' = data, wrote' = wrote,
         left' = left \/ \A w \in Session :
           left'[w] = left[w] \/ \A p \in Project : data[w][p] = None,
         tainted' = tainted, raced' = raced,
         \A p \in Project : Fresh(p) => Fresh(p)'
  PROVE  (ScoresAreFresh /\ CollectedIsFresh /\ SkippedIsStored)'
<1>1. ScoresAreFresh'
  BY DEF ScoresAreFresh, Current
<1>2. CollectedIsFresh'
  BY DEF CollectedIsFresh, Current
<1>3. SkippedIsStored'
  BY DEF SkippedIsStored
<1> QED
  BY <1>1, <1>2, <1>3

\* Nothing but a commit moves a score, and nothing but an edit moves a fact:
\* every other step is quiet, or adds what it has just read.
LEMMA FreshnessStep ==
  IInv /\ [Next]_vars => (ScoresAreFresh /\ CollectedIsFresh /\ SkippedIsStored)'
<1> SUFFICES ASSUME IInv, [Next]_vars
             PROVE  (ScoresAreFresh /\ CollectedIsFresh /\ SkippedIsStored)'
  OBVIOUS
<1> USE DEF IInv, Typed
<1>1. ASSUME NEW q \in Project, NEW f \in Facts, Edit(q, f)
      PROVE  (ScoresAreFresh /\ CollectedIsFresh /\ SkippedIsStored)'
  <2> DEFINE e == [id |-> log + 1, kind |-> "changed", project |-> q,
                   at |-> today, handler |-> "priority-recalculator"]
  <2>1. e \in pending'
    BY <1>1, RegistryAssumption DEF Edit, DeliveriesOf, Subscribers, Handlers
  <2>2. Fresh(q)'
    BY <2>1 DEF Fresh
  <2>3. /\ \A p \in Project \ {q} : facts'[p] = facts[p]
        /\ pending \subseteq pending'
        /\ UNCHANGED <<score, pc, job, left, data, wrote, tainted, raced>>
    BY <1>1 DEF Edit, TypeOK, session, history
  <2>4. \A p \in Project \ {q} : Fresh(p) => Fresh(p)'
    BY <2>3, FreshIsKept
  <2>5. ScoresAreFresh'
    BY <2>2, <2>3, <2>4 DEF ScoresAreFresh, Current
  <2>6. CollectedIsFresh'
    BY <2>2, <2>3, <2>4 DEF CollectedIsFresh, Current
  <2>7. SkippedIsStored'
    BY <2>3 DEF SkippedIsStored
  <2> QED
    BY <2>5, <2>6, <2>7
<1>2. CASE NextDay \/ Tick \/ UNCHANGED vars
  <2>1. /\ pending \subseteq pending'
        /\ UNCHANGED <<facts, score, pc, job, left, data, wrote, tainted, raced>>
    BY <1>2 DEF NextDay, Tick, vars, session, history
  <2> QED
    BY <2>1, FreshIsKept, QuietStep
<1>3. ASSUME NEW w \in Worker, NEW d \in pending, Start(w, d)
      PROVE  (ScoresAreFresh /\ CollectedIsFresh /\ SkippedIsStored)'
  <2>1. /\ w \in Session /\ pc[w] = "idle" /\ pc[w] \notin Rescoring
        /\ \A p \in Project : data[w][p] = None
    BY <1>3 DEF Start, Session, ProgressAgrees, Rescoring
  <2>2. /\ pending' = pending \ {d} /\ job' = [job EXCEPT ![w] = d]
        /\ \A x \in Session \ {w} : pc'[x] = pc[x] /\ left'[x] = left[x]
        /\ UNCHANGED <<facts, score, data, wrote, tainted, raced>>
    BY <1>3 DEF Start, Goto, TypeOK, history
  <2>3. ASSUME NEW p \in Project, Fresh(p) PROVE Fresh(p)'
    <3>1. CASE d.project = p /\ d.handler = "priority-recalculator"
      <4>1. pc'[w] = "rescoring" /\ job'[w] = d
        BY <1>3, <2>1, <2>2, <3>1 DEF Start, Goto, TypeOK
      <4>2. data'[w][p] = None
        BY <2>1, <2>2
      <4> QED
        BY <3>1, <4>1, <4>2 DEF Fresh, Rescoring
    <3>2. CASE ~(d.project = p /\ d.handler = "priority-recalculator")
      <4>1. \A x \in Worker : pc[x] \in Rescoring =>
              pc'[x] \in Rescoring /\ job'[x] = job[x]
        BY <2>1, <2>2 DEF Session, TypeOK
      <4> QED
        BY <2>2, <2>3, <3>2, <4>1, FreshIsKept
    <3> QED
      BY <3>1, <3>2
  <2> QED
    BY <2>1, <2>2, <2>3, QuietStep
<1>4. ASSUME NEW c \in Console, NEW q \in Project, Rebuild(c, q)
      PROVE  (ScoresAreFresh /\ CollectedIsFresh /\ SkippedIsStored)'
  <2>1. /\ c \in Session /\ c \notin Worker
        /\ \A p \in Project : data[c][p] = None
    BY <1>4, SessionsAreDistinct DEF Rebuild, Session, ProgressAgrees, Rescoring
  <2>2. /\ \A x \in Session \ {c} :
             pc'[x] = pc[x] /\ job'[x] = job[x] /\ left'[x] = left[x]
        /\ UNCHANGED <<pending, facts, score, data, wrote, tainted, raced>>
    BY <1>4 DEF Rebuild, Goto, TypeOK, history
  <2>3. ASSUME NEW p \in Project, Fresh(p) PROVE Fresh(p)'
    BY <2>1, <2>2, <2>3, FreshIsKept DEF Session
  <2> QED
    BY <2>1, <2>2, <2>3, QuietStep
<1>5. ASSUME NEW w \in Session, NEW q \in Project, Collect(w, q)
      PROVE  (ScoresAreFresh /\ CollectedIsFresh /\ SkippedIsStored)'
  <2>1. job[w] \in Delivery \cup Manual
    BY <1>5 DEF Collect, LabelsAgree, TypeOK, Rescoring
  <2>2. PICK i \in SignalInput :
          /\ i = Inputs(facts[q], job[w].at)
          /\ i # None /\ i = Inputs(facts[q], i.now)
    BY <2>1, JobsAreTyped, InputsAreTyped, NoneIsDistinct DEF TypeOK
  <2>3. /\ data' = [data EXCEPT ![w][q] = i]
        /\ q \in left[w] /\ pc[w] = "rescoring"
        /\ pc' = [pc EXCEPT ![w] = "collected"]
        /\ UNCHANGED <<pending, facts, score, job, left, wrote, tainted, raced>>
    BY <1>5, <2>2 DEF Collect, Goto, history
  <2>4. /\ data'[w][q] = i
        /\ \A x \in Session, p \in Project :
             x # w \/ p # q => data'[x][p] = data[x][p]
        /\ \A x \in Session : pc[x] \in Rescoring => pc'[x] \in Rescoring
    BY <2>3 DEF TypeOK, Rescoring
  <2>5. Current(data[w][q], q)'
    BY <2>2, <2>3, <2>4 DEF Current
  <2>6. ASSUME NEW p \in Project, Fresh(p) PROVE Fresh(p)'
    <3>1. CASE w \in Worker /\ job[w].project = p /\ p = q
      <4>1. /\ pc'[w] \in Rescoring /\ job'[w].project = p
            /\ Current(data[w][p], p)'
        BY <2>3, <2>4, <2>5, <3>1 DEF Rescoring
      <4> QED
        BY <3>1, <4>1 DEF Fresh
    <3>2. CASE ~(w \in Worker /\ job[w].project = p /\ p = q)
      BY <2>3, <2>4, <2>6, <3>2, FreshIsKept DEF Session
    <3> QED
      BY <3>1, <3>2
  <2>7. ScoresAreFresh'
    BY <2>3, <2>6 DEF ScoresAreFresh, Current
  <2>8. CollectedIsFresh'
    BY <2>3, <2>4, <2>5, <2>6 DEF CollectedIsFresh, Current
  <2>9. SkippedIsStored'
    BY <2>3, <2>4 DEF SkippedIsStored
  <2> QED
    BY <2>7, <2>8, <2>9
<1>6. ASSUME NEW w \in Session, Compare(w)
      PROVE  (ScoresAreFresh /\ CollectedIsFresh /\ SkippedIsStored)'
  <2>1. /\ on[w] \in Project /\ pc[w] = "collected"
        /\ \A x \in Session \ {w} : left'[x] = left[x]
        /\ \/ score[on[w]] = data[w][on[w]] /\ left'[w] = left[w] \ {on[w]}
           \/ left'[w] = left[w]
        /\ \A x \in Session : pc[x] \in Rescoring => pc'[x] \in Rescoring
        /\ UNCHANGED <<pending, facts, score, job, data, wrote, tainted, raced>>
    BY <1>6
    DEF Compare, Goto, SameInputs, ProgressAgrees, TypeOK, Rescoring, history
  <2>2. \A p \in Project : Fresh(p) => Fresh(p)'
    BY <2>1, FreshIsKept DEF Session
  <2>3. ScoresAreFresh' /\ CollectedIsFresh'
    BY <2>1, <2>2 DEF ScoresAreFresh, CollectedIsFresh, Current
  <2>4. SkippedIsStored'
    BY <2>1 DEF SkippedIsStored
  <2> QED
    BY <2>3, <2>4
<1>7. ASSUME NEW w \in Session, Write(w)
      PROVE  (ScoresAreFresh /\ CollectedIsFresh /\ SkippedIsStored)'
  <2>1. /\ on[w] \in Project /\ pc[w] = "compared"
        /\ \A x \in Session \ {w} : left'[x] = left[x] /\ wrote'[x] = wrote[x]
        /\ left'[w] = left[w] \ {on[w]} /\ wrote'[w] = wrote[w] \cup {on[w]}
        /\ \A x \in Session : pc[x] \in Rescoring => pc'[x] \in Rescoring
        /\ UNCHANGED <<pending, facts, score, job, data, tainted, raced>>
    BY <1>7 DEF Write, Goto, ProgressAgrees, TypeOK, Rescoring, history
  <2>2. \A p \in Project : Fresh(p) => Fresh(p)'
    BY <2>1, FreshIsKept DEF Session
  <2>3. ScoresAreFresh' /\ CollectedIsFresh'
    BY <2>1, <2>2 DEF ScoresAreFresh, CollectedIsFresh, Current
  <2>4. SkippedIsStored'
    BY <2>1 DEF SkippedIsStored
  <2> QED
    BY <2>3, <2>4
<1>8. ASSUME NEW w \in Session, View(w)
      PROVE  (ScoresAreFresh /\ CollectedIsFresh /\ SkippedIsStored)'
  <2>1. /\ pc[w] = "building"
        /\ \A x \in Session \ {w} : pc'[x] = pc[x]
        /\ UNCHANGED <<pending, facts, score, job, left, data, wrote, tainted,
                       raced>>
    BY <1>8 DEF View, Goto, TypeOK, history
  <2>2. \A p \in Project : Fresh(p) => Fresh(p)'
    BY <2>1, FreshIsKept DEF Session, Rescoring
  <2> QED
    BY <2>1, <2>2, QuietStep
<1>9. ASSUME NEW w \in Session, Commit(w)
      PROVE  (ScoresAreFresh /\ CollectedIsFresh /\ SkippedIsStored)'
  <2>1. /\ left[w] = {} /\ pc[w] = "rescoring"
        /\ pending \subseteq pending'
        /\ facts' = facts
        /\ \A x \in Session \ {w} :
             /\ UNCHANGED <<pc[x], job[x], left[x], data[x], wrote[x]>>
             /\ tainted[x] \subseteq tainted'[x]
             /\ Collected(x) \cap Collected(w) \subseteq tainted'[x]
        /\ \A p \in Project : data'[w][p] = None
        /\ raced' = (raced \ Collected(w)) \cup tainted[w]
    BY <1>9 DEF Commit, Release, Overtake, Goto, TypeOK
  <2>2. \A p \in Project :
          /\ p \in wrote[w] => score'[p] = data[w][p] /\ data[w][p] # None
          /\ p \notin wrote[w] => score'[p] = score[p]
    BY <1>9 DEF Commit, TypeOK, ProgressAgrees
  <2>3. \A p \in Project : job[w].project = p => data[w][p] # None
    BY <2>1 DEF ProgressAgrees, Rescoring
  <2>4. ASSUME NEW p \in Project, Fresh(p),
               data[w][p] = None \/ ~Current(data[w][p], p)
        PROVE  Fresh(p)'
    BY <2>1, <2>3, <2>4, FreshByOthers
  <2>5. ASSUME NEW p \in Project, p \notin raced'
        PROVE  (Current(score[p], p) \/ Fresh(p))'
    <3>1. CASE data[w][p] = None
      <4>1. p \notin raced /\ score'[p] = score[p]
        BY <2>1, <2>2, <2>5, <3>1 DEF Collected
      <4>2. Current(score[p], p) \/ Fresh(p)
        BY <4>1 DEF ScoresAreFresh
      <4> QED
        BY <2>1, <2>4, <3>1, <4>1, <4>2 DEF Current
    <3>2. CASE data[w][p] # None
      <4>1. p \notin tainted[w]
        BY <2>1, <2>5
      <4>2. score'[p] = data[w][p]
        BY <2>1, <2>2, <3>2, <4>1 DEF SkippedIsStored
      <4>3. Current(data[w][p], p) \/ Fresh(p)
        BY <3>2, <4>1 DEF CollectedIsFresh
      <4> QED
        BY <2>1, <2>4, <4>2, <4>3 DEF Current
    <3> QED
      BY <3>1, <3>2
  <2>6. ScoresAreFresh'
    BY <2>5 DEF ScoresAreFresh
  <2>7. ASSUME NEW x \in Session, NEW p \in Project,
               data'[x][p] # None, p \notin tainted'[x]
        PROVE  /\ x # w /\ data'[x] = data[x] /\ data[w][p] = None
               /\ p \notin tainted[x] /\ score'[p] = score[p]
    BY <2>1, <2>2, <2>7 DEF Collected
  <2>8. CollectedIsFresh'
    <3> SUFFICES ASSUME NEW x \in Session, NEW p \in Project,
                        data'[x][p] # None, p \notin tainted'[x]
                 PROVE  (Current(data[x][p], p) \/ Fresh(p))'
      BY DEF CollectedIsFresh
    <3>1. /\ data'[x] = data[x] /\ data[w][p] = None
          /\ Current(data[x][p], p) \/ Fresh(p)
      BY <2>7 DEF CollectedIsFresh
    <3> QED
      BY <2>1, <2>4, <3>1 DEF Current
  <2>9. SkippedIsStored'
    BY <2>1, <2>7 DEF SkippedIsStored
  <2> QED
    BY <2>6, <2>8, <2>9
<1>10. ASSUME NEW w \in Session, Upsert(w)
      PROVE  (ScoresAreFresh /\ CollectedIsFresh /\ SkippedIsStored)'
  <2>1. /\ pc[w] = "viewed"
        /\ UNCHANGED <<pending, facts, score, raced>>
        /\ \A x \in Session \ {w} :
             /\ UNCHANGED <<pc[x], job[x], left[x], data[x], wrote[x]>>
             /\ tainted[x] \subseteq tainted'[x]
        /\ \A p \in Project : data'[w][p] = None
    BY <1>10 DEF Upsert, Release, Overtake, Goto, TypeOK
  <2>2. ASSUME NEW p \in Project, Fresh(p) PROVE Fresh(p)'
    BY <2>1, <2>2, FreshIsKept DEF Session, Rescoring
  <2>3. ScoresAreFresh'
    BY <2>1, <2>2 DEF ScoresAreFresh, Current
  <2>4. CollectedIsFresh'
    BY <2>1, <2>2 DEF CollectedIsFresh, Current
  <2>5. SkippedIsStored'
    BY <2>1 DEF SkippedIsStored
  <2> QED
    BY <2>3, <2>4, <2>5
<1>11. ASSUME NEW w \in Session, Abort(w)
      PROVE  (ScoresAreFresh /\ CollectedIsFresh /\ SkippedIsStored)'
  <2>1. /\ UNCHANGED <<facts, score, raced>>
        /\ pending \subseteq pending'
        /\ w \in Worker => job[w] \in pending'
        /\ \A x \in Session \ {w} :
             UNCHANGED <<pc[x], job[x], left[x], data[x], wrote[x], tainted[x]>>
        /\ \A p \in Project : data'[w][p] = None
    BY <1>11, SessionsAreDistinct DEF Abort, Release, Goto, TypeOK
  <2>2. ASSUME NEW p \in Project, Fresh(p) PROVE Fresh(p)'
    <3>1. CASE w \in Worker /\ pc[w] \in Rescoring /\ job[w].project = p
      BY <2>1, <3>1 DEF Fresh, LabelsAgree
    <3>2. CASE ~(w \in Worker /\ pc[w] \in Rescoring /\ job[w].project = p)
      BY <2>1, <2>2, <3>2, FreshIsKept DEF Session
    <3> QED
      BY <3>1, <3>2
  <2>3. ScoresAreFresh'
    BY <2>1, <2>2 DEF ScoresAreFresh, Current
  <2>4. CollectedIsFresh'
    BY <2>1, <2>2 DEF CollectedIsFresh, Current
  <2>5. SkippedIsStored'
    BY <2>1 DEF SkippedIsStored
  <2> QED
    BY <2>3, <2>4, <2>5
<1> QED
  BY <1>1, <1>2, <1>3, <1>4, <1>5, <1>6, <1>7, <1>8, <1>9, <1>10, <1>11
  DEF Next, SessionStep

-----------------------------------------------------------------------------
\* A new project's change waits for the recalculator.
LEMMA Initially == Init => IInv
<1> SUFFICES ASSUME Init PROVE IInv
  OBVIOUS
<1>1. TypeOK
  <2>1. pending \subseteq Delivery
    <3>1. 0 \in Day
      BY RankingBounds DEF Day
    <3>2. \A p \in Project : DeliveriesOf(1, "changed", p, 0) \subseteq Delivery
      BY <3>1, DeliveriesAreTyped
    <3> QED
      BY <3>2 DEF Init
  <2> QED
    BY <2>1, RankingBounds DEF Init, TypeOK, Labels, Day
<1>2. LabelsAgree /\ ProgressAgrees
  BY DEF Init, LabelsAgree, ProgressAgrees, Rescoring
<1>3. ASSUME NEW p \in Project PROVE Fresh(p)
  <2> DEFINE e == [id |-> 1, kind |-> "changed", project |-> p,
                   at |-> 0, handler |-> "priority-recalculator"]
  <2>1. e \in DeliveriesOf(1, "changed", p, 0)
    BY RegistryAssumption DEF DeliveriesOf, Subscribers, Handlers
  <2>2. e \in pending
    BY <2>1 DEF Init
  <2> QED
    BY <2>2 DEF Fresh
<1> QED
  BY <1>1, <1>2, <1>3
  DEF Init, IInv, Typed, ScoresAreFresh, CollectedIsFresh, SkippedIsStored

LEMMA Invariance == Spec => []IInv
<1>1. IInv /\ [Next]_vars => IInv'
  BY TypedStep, FreshnessStep DEF IInv
<1> QED
  BY <1>1, Initially, PTL DEF Spec

\* Every state of the ranking has the types of its tables and of the rows its
\* sessions hold.
THEOREM RankingTypeCorrect == Spec => []TypeOK
<1>1. IInv => TypeOK
  BY DEF IInv, Typed
<1> QED
  BY <1>1, Invariance, PTL

\* recompute_for_project keeps the stored score current: once no change of a
\* project is on its way, its score is made from the facts as they are, unless
\* another session finished the project between its last reading and writing.
THEOREM SettledScoresAreCurrent == Spec => []SettledScoreIsCurrent
<1>1. ASSUME NEW p \in Project, Fresh(p), Typed
      PROVE  Awaited(p, "priority-recalculator")
  BY <1>1 DEF Fresh, Awaited, Typed, LabelsAgree, Session
<1>2. IInv => SettledScoreIsCurrent
  BY <1>1 DEF IInv, ScoresAreFresh, Current, SettledScoreIsCurrent
<1> QED
  BY <1>2, Invariance, PTL

-----------------------------------------------------------------------------
(***************************************************************************)
(* The queue's rows.  A rebuild of p is still to be read, or it has been   *)
(* read as p is; this is said of the facts and of the score apart, since a *)
(* score may move unannounced and move back.                               *)
(***************************************************************************)
Building == {"building", "viewed"}

\* The row need not follow the score from a to b.
Unmoved(a, b) == IF b = None THEN a = None ELSE ~Moved(a, b)

FactsToCome(p) ==
  \/ \E d \in pending : d.project = p /\ d.handler = "snapshot-builder"
  \/ \E x \in Session :
       /\ pc[x] \in Building /\ job[x].project = p
       /\ pc[x] = "viewed" => view[x].facts = facts[p]

ScoreToCome(p) ==
  \/ \E d \in pending : d.project = p /\ d.handler = "snapshot-builder"
  \/ \E x \in Session :
       /\ pc[x] \in Building /\ job[x].project = p
       /\ pc[x] = "viewed" => Unmoved(view[x].score, score[p])

RowsFollow ==
  \A p \in Project \ blurred :
    /\ FactsToCome(p) \/ (snapshot[p] # None /\ snapshot[p].facts = facts[p])
    /\ p \notin silent =>
         \/ ScoreToCome(p)
         \/ snapshot[p] # None /\ Unmoved(snapshot[p].score, score[p])

ViewsFollow ==
  \A w \in Session : \A p \in Project \ tainted[w] :
    pc[w] = "viewed" /\ job[w].project = p =>
      /\ FactsToCome(p) \/ view[w].facts = facts[p]
      /\ p \notin silent => ScoreToCome(p) \/ Unmoved(view[w].score, score[p])

\* A session is overtaken on what it has read only, and whoever overtakes a
\* recalculator leaves a score behind.
TaintsAreRead ==
  \A w \in Session : \A p \in tainted[w] :
    \/ data[w][p] # None /\ score[p] # None
    \/ pc[w] = "viewed"
RacedAreScored == \A p \in raced : score[p] # None

RowInv == RowsFollow /\ ViewsFollow /\ TaintsAreRead /\ RacedAreScored

LEMMA UnmovedIsTransitive ==
  /\ \A a : Unmoved(a, a)
  /\ \A a, b, c : Unmoved(a, b) /\ Unmoved(b, c) => Unmoved(a, c)
BY DEF Unmoved, Moved

\* What is to come of p stays so while its deliveries and rebuilds are let be.
LEMMA ToComeIsKept ==
  ASSUME NEW p \in Project,
         \A d \in pending :
           d.project = p /\ d.handler = "snapshot-builder" => d \in pending',
         \A x \in Session :
           pc[x] \in Building /\ job[x].project = p =>
             UNCHANGED <<pc[x], job[x], view[x]>>
  PROVE  /\ FactsToCome(p) /\ facts'[p] = facts[p] => FactsToCome(p)'
         /\ ScoreToCome(p) /\ Unmoved(score[p], score'[p]) => ScoreToCome(p)'
<1>1. ASSUME FactsToCome(p), facts'[p] = facts[p] PROVE FactsToCome(p)'
  BY <1>1 DEF FactsToCome
<1>2. ASSUME ScoreToCome(p), Unmoved(score[p], score'[p]) PROVE ScoreToCome(p)'
  <2>1. CASE \E d \in pending : d.project = p /\ d.handler = "snapshot-builder"
    BY <2>1 DEF ScoreToCome
  <2>2. CASE \E x \in Session :
               /\ pc[x] \in Building /\ job[x].project = p
               /\ pc[x] = "viewed" => Unmoved(view[x].score, score[p])
    <3>1. PICK x \in Session :
            /\ pc[x] \in Building /\ job[x].project = p
            /\ pc[x] = "viewed" => Unmoved(view[x].score, score[p])
      BY <2>2
    <3>2. UNCHANGED <<pc[x], job[x], view[x]>>
      BY <3>1
    <3>3. pc[x] = "viewed" => Unmoved(view[x].score, score'[p])
      BY <1>2, <3>1, UnmovedIsTransitive
    <3>4. pc'[x] \in Building /\ job'[x].project = p
      BY <3>1, <3>2
    <3>5. pc'[x] = "viewed" => Unmoved(view'[x].score, score'[p])
      BY <3>2, <3>3
    <3>6. Unmoved(view[x].score, score[p])' <=> Unmoved(view'[x].score, score'[p])
      BY DEF Unmoved, Moved, Breakdown, Silence
    <3> QED
      BY <3>4, <3>5, <3>6 DEF ScoreToCome
  <2> QED
    BY <1>2, <2>1, <2>2 DEF ScoreToCome
<1> QED
  BY <1>1, <1>2

\* A step that touches neither the tables nor what has been viewed.
LEMMA QuietRows ==
  ASSUME RowInv, UNCHANGED <<facts, score, snapshot, blurred, silent, tainted, raced>>,
         \A p \in Project : /\ FactsToCome(p) => FactsToCome(p)'
                            /\ ScoreToCome(p) => ScoreToCome(p)',
         \A w \in Session : pc[w] = "viewed" \/ pc'[w] = "viewed" =>
           UNCHANGED <<pc[w], job[w], view[w]>>,
         \A w \in Session : \A p \in Project : data[w][p] # None => data'[w][p] # None,
         \A w \in Session : tainted[w] \subseteq Project
  PROVE  RowInv'
<1>1. RowsFollow'
  BY DEF RowInv, RowsFollow, Unmoved, Moved, Breakdown, Silence
<1>2. ViewsFollow'
  BY DEF RowInv, ViewsFollow, Unmoved, Moved, Breakdown, Silence
<1>3. TaintsAreRead' /\ RacedAreScored'
  BY DEF RowInv, TaintsAreRead, RacedAreScored
<1> QED
  BY <1>1, <1>2, <1>3 DEF RowInv

\* A commit moves scores only where it announces that it does, or is marked.
LEMMA CommitMovesWhatItSays ==
  ASSUME Typed, NEW w \in Session, Commit(w), NEW p \in Project,
         p \notin Announced(w), p \notin silent'
  PROVE  p \notin silent /\ Unmoved(score[p], score'[p])
<1>1. p \notin Changing(w) /\ p \notin silent
  BY DEF Commit
<1>2. CASE p \in wrote[w]
  <2>1. score'[p] = data[w][p] /\ data[w][p] # None
    BY <1>2 DEF Commit, Typed, TypeOK, ProgressAgrees
  <2>2. ~Moved(score[p], data[w][p])
    BY <1>1, <1>2 DEF Changing
  <2> QED
    BY <1>1, <2>1, <2>2 DEF Unmoved
<1>3. CASE p \notin wrote[w]
  <2>1. score'[p] = score[p]
    BY <1>3 DEF Commit, Typed, TypeOK
  <2> QED
    BY <1>1, <2>1, UnmovedIsTransitive
<1> QED
  BY <1>2, <1>3

\* The row, and what has been viewed of it, follow every step where the
\* snapshot-builder is deployed.
LEMMA RowStep ==
  ASSUME "snapshot-builder" \in Registered, IInv, RowInv, [Next]_vars
  PROVE  RowInv'
<1> USE DEF IInv, Typed
<1>1. ASSUME NEW q \in Project, NEW f \in Facts, Edit(q, f) PROVE RowInv'
  <2> DEFINE e == [id |-> log + 1, kind |-> "changed", project |-> q,
                   at |-> today, handler |-> "snapshot-builder"]
  <2>1. e \in pending'
    BY <1>1 DEF Edit, DeliveriesOf, Subscribers, Handlers
  <2>2. FactsToCome(q)' /\ ScoreToCome(q)'
    BY <2>1 DEF FactsToCome, ScoreToCome
  <2>3. /\ \A p \in Project \ {q} : facts'[p] = facts[p]
        /\ pending \subseteq pending'
        /\ UNCHANGED <<score, snapshot, pc, job, view, data, tainted, raced,
                       blurred, silent>>
    BY <1>1 DEF Edit, TypeOK, session, history
  <2>4. \A p \in Project \ {q} : /\ FactsToCome(p) => FactsToCome(p)'
                                 /\ ScoreToCome(p) => ScoreToCome(p)'
    BY <2>3, ToComeIsKept, UnmovedIsTransitive
  <2>5. RowsFollow'
    BY <2>2, <2>3, <2>4 DEF RowInv, RowsFollow, Unmoved, Moved, Breakdown, Silence
  <2>6. ViewsFollow'
    BY <2>2, <2>3, <2>4 DEF RowInv, ViewsFollow, Unmoved, Moved, Breakdown, Silence
  <2>7. TaintsAreRead' /\ RacedAreScored'
    BY <2>3 DEF RowInv, TaintsAreRead, RacedAreScored
  <2> QED
    BY <2>5, <2>6, <2>7 DEF RowInv
<1>2. CASE NextDay \/ Tick \/ UNCHANGED vars
  <2>1. /\ pending \subseteq pending'
        /\ UNCHANGED <<facts, score, snapshot, pc, job, view, data, tainted,
                       raced, blurred, silent>>
    BY <1>2 DEF NextDay, Tick, vars, session, history
  <2>2. \A p \in Project : /\ FactsToCome(p) => FactsToCome(p)'
                           /\ ScoreToCome(p) => ScoreToCome(p)'
    BY <2>1, ToComeIsKept, UnmovedIsTransitive
  <2>3. \A w \in Session : tainted[w] \subseteq Project
    BY DEF TypeOK
  <2> QED
    BY <2>1, <2>2, <2>3, QuietRows
<1>3. ASSUME NEW w \in Worker, NEW d \in pending, Start(w, d) PROVE RowInv'
  <2>1. /\ w \in Session /\ pc[w] = "idle"
        /\ pending' = pending \ {d} /\ job' = [job EXCEPT ![w] = d]
        /\ \A x \in Session \ {w} : UNCHANGED <<pc[x], job[x], view[x]>>
        /\ UNCHANGED <<facts, score, snapshot, data, view, tainted, raced,
                       blurred, silent>>
    BY <1>3 DEF Start, Goto, TypeOK, Session, history
  <2>2. /\ d.handler = "snapshot-builder" => pc'[w] = "building" /\ job'[w] = d
        /\ pc'[w] # "viewed"
    BY <1>3, <2>1 DEF Start, Goto, TypeOK
  <2>3. ASSUME NEW p \in Project
        PROVE  /\ FactsToCome(p) => FactsToCome(p)'
               /\ ScoreToCome(p) => ScoreToCome(p)'
    <3>1. CASE d.project = p /\ d.handler = "snapshot-builder"
      <4>1. pc'[w] \in Building /\ job'[w].project = p /\ pc'[w] # "viewed"
        BY <2>2, <3>1 DEF Building
      <4> QED
        BY <2>1, <4>1 DEF FactsToCome, ScoreToCome
    <3>2. CASE ~(d.project = p /\ d.handler = "snapshot-builder")
      <4>1. \A x \in Session : pc[x] \in Building =>
              UNCHANGED <<pc[x], job[x], view[x]>>
        BY <2>1 DEF Building
      <4> QED
        BY <2>1, <3>2, <4>1, ToComeIsKept, UnmovedIsTransitive
    <3> QED
      BY <3>1, <3>2
  <2>4. \A x \in Session : pc[x] = "viewed" \/ pc'[x] = "viewed" =>
          UNCHANGED <<pc[x], job[x], view[x]>>
    BY <2>1, <2>2
  <2>5. \A x \in Session : tainted[x] \subseteq Project
    BY DEF TypeOK
  <2> QED
    BY <2>1, <2>3, <2>4, <2>5, QuietRows
<1>4. ASSUME NEW c \in Console, NEW q \in Project, Rebuild(c, q) PROVE RowInv'
  <2>1. /\ c \in Session /\ pc[c] = "idle" /\ pc'[c] = "rescoring"
        /\ \A x \in Session \ {c} : UNCHANGED <<pc[x], job[x], view[x]>>
        /\ UNCHANGED <<facts, score, snapshot, pending, data, view, tainted,
                       raced, blurred, silent>>
    BY <1>4 DEF Rebuild, Goto, TypeOK, Session, history
  <2>2. \A x \in Session : pc[x] \in Building \/ pc'[x] = "viewed" =>
          UNCHANGED <<pc[x], job[x], view[x]>>
    BY <2>1 DEF Building
  <2>3. \A p \in Project : /\ FactsToCome(p) => FactsToCome(p)'
                           /\ ScoreToCome(p) => ScoreToCome(p)'
    BY <2>1, <2>2, ToComeIsKept, UnmovedIsTransitive
  <2>4. \A x \in Session : tainted[x] \subseteq Project
    BY DEF TypeOK
  <2> QED
    BY <2>1, <2>2, <2>3, <2>4, QuietRows DEF Building
<1>5. ASSUME NEW w \in Session, NEW q \in Project, Collect(w, q) PROVE RowInv'
  <2>1. job[w] \in Delivery \cup Manual
    BY <1>5 DEF Collect, LabelsAgree, TypeOK, Rescoring
  <2>2. Inputs(facts[q], job[w].at) # None
    BY <2>1, JobsAreTyped, InputsAreTyped, NoneIsDistinct DEF TypeOK
  <2>3. /\ pc[w] = "rescoring" /\ pc'[w] = "collected"
        /\ \A x \in Session \ {w} : UNCHANGED <<pc[x], job[x], view[x]>>
        /\ \A x \in Session : \A p \in Project :
             data[x][p] # None => data'[x][p] # None
        /\ UNCHANGED <<facts, score, snapshot, pending, tainted, raced, blurred,
                       silent>>
    BY <1>5, <2>2 DEF Collect, Goto, TypeOK, history
  <2>4. \A x \in Session : pc[x] \in Building \/ pc'[x] = "viewed" =>
          UNCHANGED <<pc[x], job[x], view[x]>>
    BY <2>3 DEF Building
  <2>5. \A p \in Project : /\ FactsToCome(p) => FactsToCome(p)'
                           /\ ScoreToCome(p) => ScoreToCome(p)'
    BY <2>3, <2>4, ToComeIsKept, UnmovedIsTransitive
  <2>6. \A x \in Session : tainted[x] \subseteq Project
    BY DEF TypeOK
  <2> QED
    BY <2>3, <2>4, <2>5, <2>6, QuietRows DEF Building
<1>6. ASSUME NEW w \in Session, Compare(w) \/ Write(w) PROVE RowInv'
  <2>1. /\ pc[w] \notin Building /\ pc'[w] \in Rescoring
        /\ \A x \in Session \ {w} : UNCHANGED <<pc[x], job[x], view[x]>>
        /\ UNCHANGED <<facts, score, snapshot, pending, data, tainted, raced,
                       blurred, silent>>
    BY <1>6 DEF Compare, Write, Goto, TypeOK, history, Building, Rescoring
  <2>2. \A x \in Session : pc[x] \in Building \/ pc'[x] = "viewed" =>
          UNCHANGED <<pc[x], job[x], view[x]>>
    BY <2>1 DEF Building, Rescoring
  <2>3. \A p \in Project : /\ FactsToCome(p) => FactsToCome(p)'
                           /\ ScoreToCome(p) => ScoreToCome(p)'
    BY <2>1, <2>2, ToComeIsKept, UnmovedIsTransitive
  <2>4. \A x \in Session : tainted[x] \subseteq Project
    BY DEF TypeOK
  <2> QED
    BY <2>1, <2>2, <2>3, <2>4, QuietRows DEF Building
<1>7. ASSUME NEW w \in Session, View(w) PROVE RowInv'
  <2>1. /\ job[w] \in Delivery \cup Manual
        /\ job[w].handler = "snapshot-builder"
    BY <1>7 DEF View, LabelsAgree, TypeOK
  <2>2. PICK q \in Project : q = job[w].project
    BY <2>1, JobsAreTyped
  <2>3. /\ pc[w] = "building" /\ pc'[w] = "viewed" /\ job'[w] = job[w]
        /\ view'[w].facts = facts[q] /\ view'[w].score = score[q]
        /\ \A x \in Session \ {w} : UNCHANGED <<pc[x], job[x], view[x]>>
        /\ UNCHANGED <<facts, score, snapshot, pending, data, tainted, raced,
                       blurred, silent>>
    BY <1>7, <2>2 DEF View, Goto, TypeOK, history
  <2>4. FactsToCome(q)' /\ ScoreToCome(q)'
    <3>1. Unmoved(view'[w].score, score'[q])
      BY <2>3, UnmovedIsTransitive
    <3> QED
      BY <2>2, <2>3, <3>1
      DEF FactsToCome, ScoreToCome, Building, Unmoved, Moved, Breakdown, Silence
  <2>5. \A x \in Session, p \in Project :
          pc[x] \in Building /\ job[x].project = p /\ p # q =>
            UNCHANGED <<pc[x], job[x], view[x]>>
    BY <2>2, <2>3
  <2>6. \A p \in Project : /\ FactsToCome(p) => FactsToCome(p)'
                           /\ ScoreToCome(p) => ScoreToCome(p)'
    <3> SUFFICES ASSUME NEW p \in Project, p # q
                 PROVE  /\ FactsToCome(p) => FactsToCome(p)'
                        /\ ScoreToCome(p) => ScoreToCome(p)'
      BY <2>4
    <3> QED
      BY <2>3, <2>5, ToComeIsKept, UnmovedIsTransitive
  <2>7. RowsFollow'
    BY <2>3, <2>6 DEF RowInv, RowsFollow, Unmoved, Moved, Breakdown, Silence
  <2>8. ViewsFollow'
    BY <2>2, <2>3, <2>4, <2>6
    DEF RowInv, ViewsFollow, Unmoved, Moved, Breakdown, Silence
  <2>9. TaintsAreRead' /\ RacedAreScored'
    BY <2>3 DEF RowInv, TaintsAreRead, RacedAreScored
  <2> QED
    BY <2>7, <2>8, <2>9 DEF RowInv
<1>8. ASSUME NEW w \in Session, Commit(w) PROVE RowInv'
  <2>1. /\ left[w] = {} /\ pc[w] = "rescoring" /\ pc'[w] = "idle"
        /\ pending \subseteq pending'
        /\ UNCHANGED <<facts, snapshot, blurred>>
        /\ \A x \in Session \ {w} :
             /\ UNCHANGED <<pc[x], job[x], view[x], data[x]>>
             /\ tainted'[x] = tainted[x] \cup (Collected(x) \cap Collected(w))
        /\ tainted'[w] = {}
        /\ raced' = (raced \ Collected(w)) \cup tainted[w]
    BY <1>8 DEF Commit, Release, Overtake, Goto, TypeOK, Viewed
  <2>2. ASSUME NEW p \in Announced(w)
        PROVE  FactsToCome(p)' /\ ScoreToCome(p)'
    <3> DEFINE e == [id |-> log + 1, kind |-> "rescored", project |-> p,
                     at |-> job[w].at, handler |-> "snapshot-builder"]
    <3>1. e \in DeliveriesOf(log + 1, "rescored", p, job[w].at)
      BY DEF DeliveriesOf, Subscribers, Handlers
    <3>2. e \in pending'
      BY <1>8, <3>1 DEF Commit
    <3> QED
      BY <3>2 DEF FactsToCome, ScoreToCome
  <2>3. \A x \in Session : pc[x] \in Building \/ pc'[x] = "viewed" =>
          UNCHANGED <<pc[x], job[x], view[x]>> /\ x # w
    BY <2>1 DEF Building
  <2>4. ASSUME NEW p \in Project
        PROVE  /\ FactsToCome(p) => FactsToCome(p)'
               /\ ScoreToCome(p) /\ Unmoved(score[p], score'[p]) => ScoreToCome(p)'
    BY <2>1, <2>3, ToComeIsKept
  <2>5. ASSUME NEW p \in Project, p \notin silent', ~ScoreToCome(p)'
        PROVE  /\ p \notin silent /\ ~ScoreToCome(p)
               /\ Unmoved(score[p], score'[p])
    BY <1>8, <2>2, <2>4, <2>5, CommitMovesWhatItSays
  <2>6. RowsFollow'
    <3> SUFFICES ASSUME NEW p \in Project, p \notin blurred
                 PROVE  /\ \/ FactsToCome(p)'
                           \/ snapshot[p] # None /\ snapshot[p].facts = facts[p]
                        /\ p \notin silent' /\ ~ScoreToCome(p)' =>
                             /\ snapshot[p] # None
                             /\ Unmoved(snapshot[p].score, score'[p])
      BY <2>1 DEF RowsFollow, Unmoved, Moved, Breakdown, Silence
    <3> QED
      BY <2>4, <2>5, UnmovedIsTransitive DEF RowInv, RowsFollow
  <2>7. ViewsFollow'
    <3> SUFFICES ASSUME NEW x \in Session, NEW p \in Project, p \notin tainted[x],
                        pc[x] = "viewed", job[x].project = p
                 PROVE  /\ FactsToCome(p)' \/ view[x].facts = facts[p]
                        /\ p \notin silent' /\ ~ScoreToCome(p)' =>
                             Unmoved(view[x].score, score'[p])
      BY <2>1, <2>3 DEF ViewsFollow, Unmoved, Moved, Breakdown, Silence
    <3> QED
      BY <2>4, <2>5, UnmovedIsTransitive DEF RowInv, ViewsFollow
  <2>8. \A p \in Project : /\ score[p] # None => score'[p] # None
                           /\ p \in Collected(w) => score'[p] # None
    <3> TAKE p \in Project
    <3>1. CASE p \in wrote[w]
      BY <1>8, <3>1 DEF Commit, TypeOK, ProgressAgrees
    <3>2. CASE p \notin wrote[w]
      <4>1. score'[p] = score[p]
        BY <1>8, <3>2 DEF Commit, TypeOK
      <4>2. CASE p \in tainted[w]
        BY <2>1, <4>1, <4>2 DEF RowInv, TaintsAreRead
      <4>3. CASE p \notin tainted[w]
        BY <2>1, <3>2, <4>1, <4>3 DEF SkippedIsStored, Collected
      <4> QED
        BY <4>2, <4>3
    <3> QED
      BY <3>1, <3>2
  <2>9. TaintsAreRead'
    <3> SUFFICES ASSUME NEW x \in Session \ {w}, NEW p \in tainted'[x]
                 PROVE  (data'[x][p] # None /\ score'[p] # None) \/ pc'[x] = "viewed"
      BY <2>1 DEF TaintsAreRead
    <3>1. CASE p \in tainted[x]
      BY <2>1, <2>8, <3>1 DEF RowInv, TaintsAreRead, TypeOK
    <3>2. CASE p \in Collected(x) \cap Collected(w)
      BY <2>1, <2>8, <3>2 DEF Collected
    <3> QED
      BY <2>1, <3>1, <3>2
  <2>10. RacedAreScored'
    BY <2>1, <2>8 DEF RowInv, TaintsAreRead, RacedAreScored, TypeOK
  <2> QED
    BY <2>6, <2>7, <2>9, <2>10 DEF RowInv
<1>9. ASSUME NEW w \in Session, Upsert(w) PROVE RowInv'
  <2>1. /\ job[w] \in Delivery \cup Manual /\ view[w] # None
        /\ job[w].handler = "snapshot-builder"
    BY <1>9 DEF Upsert, LabelsAgree, TypeOK
  <2>2. PICK q \in Project : q = job[w].project
    BY <2>1, JobsAreTyped
  <2>3. /\ pc[w] = "viewed" /\ pc'[w] = "idle"
        /\ snapshot'[q] = view[w]
        /\ \A p \in Project \ {q} : snapshot'[p] = snapshot[p]
        /\ blurred' = (blurred \ {q}) \cup tainted[w]
        /\ silent' = IF view[w].score = score[q] THEN silent \ {q} ELSE silent
        /\ q = job[w].project
        /\ UNCHANGED <<facts, score, pending, raced>>
    BY <1>9, <2>2 DEF Upsert, Release, Goto, TypeOK
  <2>4. /\ \A x \in Session \ {w} : UNCHANGED <<pc[x], job[x], view[x], data[x]>>
        /\ \A p \in Project : data[w][p] = None
        /\ tainted'[w] = {}
        /\ \A x \in Session \ {w} :
             tainted'[x] = tainted[x] \cup (Viewed(x) \cap {q})
    <3>1. \A p \in Project : data[w][p] = None
      BY <2>3 DEF ProgressAgrees, Rescoring
    <3>2. Collected(w) = {} /\ Viewed(w) = {q}
      BY <2>3, <3>1 DEF Collected, Viewed
    <3>3. \A x \in Session \ {w} : UNCHANGED <<pc[x], job[x], view[x], data[x]>>
      BY <1>9 DEF Upsert, Release, Goto, TypeOK
    <3>4. Overtake(w)
      BY <1>9 DEF Upsert
    <3> QED
      BY <3>1, <3>2, <3>3, <3>4 DEF Overtake
  <2>5. ASSUME NEW p \in Project \ {q}
        PROVE  /\ FactsToCome(p) => FactsToCome(p)'
               /\ ScoreToCome(p) => ScoreToCome(p)'
    <3>1. \A x \in Session : pc[x] \in Building /\ job[x].project = p =>
            UNCHANGED <<pc[x], job[x], view[x]>>
      BY <2>3, <2>4
    <3> QED
      BY <2>3, <3>1, ToComeIsKept, UnmovedIsTransitive
  <2>6. /\ FactsToCome(q) => FactsToCome(q)' \/ view[w].facts = facts[q]
        /\ ScoreToCome(q) => ScoreToCome(q)' \/ Unmoved(view[w].score, score[q])
    <3>1. ASSUME NEW x \in Session \ {w}
          PROVE  /\ pc'[x] = pc[x] /\ job'[x] = job[x] /\ view'[x] = view[x]
                 /\ facts' = facts /\ score' = score /\ pending' = pending
      BY <2>3, <2>4
    <3>2. FactsToCome(q) /\ view[w].facts # facts[q] => FactsToCome(q)'
      <4>1. CASE \E d \in pending : d.project = q /\ d.handler = "snapshot-builder"
        BY <2>3, <4>1 DEF FactsToCome
      <4>2. ASSUME NEW x \in Session \ {w}, pc[x] \in Building, job[x].project = q,
                   pc[x] = "viewed" => view[x].facts = facts[q]
            PROVE  FactsToCome(q)'
        BY <3>1, <4>2 DEF FactsToCome
      <4> QED
        BY <2>3, <4>1, <4>2 DEF FactsToCome
    <3>3. ScoreToCome(q) /\ ~Unmoved(view[w].score, score[q]) => ScoreToCome(q)'
      <4>1. CASE \E d \in pending : d.project = q /\ d.handler = "snapshot-builder"
        BY <2>3, <4>1 DEF ScoreToCome
      <4>2. ASSUME NEW x \in Session \ {w}, pc[x] \in Building, job[x].project = q,
                   pc[x] = "viewed" => Unmoved(view[x].score, score[q])
            PROVE  ScoreToCome(q)'
        BY <3>1, <4>2 DEF ScoreToCome, Unmoved, Moved, Breakdown, Silence
      <4> QED
        BY <2>3, <4>1, <4>2 DEF ScoreToCome
    <3> QED
      BY <3>2, <3>3
  <2>7. q \notin tainted[w] =>
          /\ FactsToCome(q)' \/ view[w].facts = facts[q]
          /\ q \notin silent' => ScoreToCome(q)' \/ Unmoved(view[w].score, score[q])
    <3>1. view[w].score = score[q] => Unmoved(view[w].score, score[q])
      BY UnmovedIsTransitive
    <3> QED
      BY <2>2, <2>3, <2>6, <3>1 DEF RowInv, ViewsFollow
  <2>8. RowsFollow'
    <3>1. ASSUME NEW p \in Project, p \notin blurred'
          PROVE  /\ \/ FactsToCome(p)'
                    \/ snapshot'[p] # None /\ snapshot'[p].facts = facts[p]
                 /\ p \notin silent' =>
                      \/ ScoreToCome(p)'
                      \/ /\ snapshot'[p] # None
                         /\ Unmoved(snapshot'[p].score, score[p])
      <4>1. CASE p = q
        BY <2>1, <2>3, <2>7, <3>1, <4>1
      <4>2. CASE p # q
        BY <2>3, <2>5, <3>1, <4>2 DEF RowInv, RowsFollow
      <4> QED
        BY <4>1, <4>2
    <3> QED
      BY <2>3, <3>1 DEF RowsFollow, Unmoved, Moved, Breakdown, Silence
  <2>9. ViewsFollow'
    <3> SUFFICES ASSUME NEW x \in Session \ {w}, NEW p \in Project,
                        p \notin tainted'[x], pc[x] = "viewed", job[x].project = p
                 PROVE  /\ FactsToCome(p)' \/ view[x].facts = facts[p]
                        /\ p \notin silent' =>
                             ScoreToCome(p)' \/ Unmoved(view[x].score, score[p])
      <4>1. \A x \in Session \ {w}, p \in Project :
              Unmoved(view[x].score, score[p])' = Unmoved(view[x].score, score[p])
        BY <2>3, <2>4 DEF Unmoved, Moved, Breakdown, Silence
      <4> QED
        BY <2>3, <2>4, <4>1 DEF ViewsFollow
    <3>1. p # q /\ p \notin tainted[x]
      BY <2>4 DEF Viewed
    <3> QED
      BY <2>3, <2>5, <3>1 DEF RowInv, ViewsFollow
  <2>10. TaintsAreRead' /\ RacedAreScored'
    BY <2>3, <2>4 DEF RowInv, TaintsAreRead, RacedAreScored, Viewed
  <2> QED
    BY <2>8, <2>9, <2>10 DEF RowInv
<1>10. ASSUME NEW w \in Session, Abort(w) PROVE RowInv'
  <2>1. /\ pc'[w] = "idle"
        /\ pending \subseteq pending'
        /\ pc[w] \in Building => job[w] \in pending' /\ job[w].handler = "snapshot-builder"
        /\ \A x \in Session \ {w} :
             UNCHANGED <<pc[x], job[x], view[x], data[x], tainted[x]>>
        /\ tainted'[w] = {}
        /\ UNCHANGED <<facts, score, snapshot, raced, blurred, silent>>
    <3>1. pc[w] \in Building => w \notin Console /\ job[w].handler = "snapshot-builder"
      BY NoneIsDistinct DEF Building, LabelsAgree, Manual
    <3> QED
      BY <1>10, <3>1 DEF Abort, Release, Goto, TypeOK
  <2>2. ASSUME NEW p \in Project
        PROVE  /\ FactsToCome(p) => FactsToCome(p)'
               /\ ScoreToCome(p) => ScoreToCome(p)'
    <3>1. CASE pc[w] \in Building /\ job[w].project = p
      BY <2>1, <3>1 DEF FactsToCome, ScoreToCome
    <3>2. CASE ~(pc[w] \in Building /\ job[w].project = p)
      <4>1. \A x \in Session : pc[x] \in Building /\ job[x].project = p =>
              UNCHANGED <<pc[x], job[x], view[x]>>
        BY <2>1, <3>2
      <4> QED
        BY <2>1, <4>1, ToComeIsKept, UnmovedIsTransitive
    <3> QED
      BY <3>1, <3>2
  <2>3. RowsFollow'
    BY <2>1, <2>2 DEF RowInv, RowsFollow, Unmoved, Moved, Breakdown, Silence
  <2>4. ViewsFollow'
    BY <2>1, <2>2 DEF RowInv, ViewsFollow, Unmoved, Moved, Breakdown, Silence
  <2>5. TaintsAreRead' /\ RacedAreScored'
    BY <2>1 DEF RowInv, TaintsAreRead, RacedAreScored
  <2> QED
    BY <2>3, <2>4, <2>5 DEF RowInv
<1> QED
  BY <1>1, <1>2, <1>3, <1>4, <1>5, <1>6, <1>7, <1>8, <1>9, <1>10 DEF Next, SessionStep

\* The snapshot-builder is subscribed to the creation of every project.
LEMMA RowsInitially ==
  ASSUME "snapshot-builder" \in Registered, Init
  PROVE  RowInv
<1>1. ASSUME NEW p \in Project PROVE FactsToCome(p) /\ ScoreToCome(p)
  <2> DEFINE e == [id |-> 1, kind |-> "changed", project |-> p,
                   at |-> 0, handler |-> "snapshot-builder"]
  <2>1. e \in DeliveriesOf(1, "changed", p, 0)
    BY DEF DeliveriesOf, Subscribers, Handlers
  <2>2. e \in pending
    BY <2>1 DEF Init
  <2> QED
    BY <2>2 DEF FactsToCome, ScoreToCome
<1>2. RowsFollow /\ ViewsFollow
  BY <1>1 DEF RowsFollow, ViewsFollow
<1>3. TaintsAreRead /\ RacedAreScored
  BY DEF Init, TaintsAreRead, RacedAreScored
<1> QED
  BY <1>2, <1>3 DEF RowInv

\* With nothing on its way the invariants leave the row no way to be behind.
LEMMA RowsSettle ==
  ASSUME IInv, RowInv
  PROVE  SettledSnapshotIsCurrent
<1> SUFFICES ASSUME NEW p \in Project, p \notin blurred, p \notin silent,
                    ~Awaited(p, "priority-recalculator"),
                    ~Awaited(p, "snapshot-builder")
             PROVE  /\ snapshot[p] # None
                    /\ snapshot[p].facts = facts[p]
                    /\ snapshot[p].score # None
                    /\ Breakdown(snapshot[p].score) = Breakdown(score[p])
  BY DEF SettledSnapshotIsCurrent
<1>1. ~FactsToCome(p) /\ ~ScoreToCome(p)
  BY DEF FactsToCome, ScoreToCome, Building, Awaited, IInv, Typed, LabelsAgree
<1>2. score[p] # None
  <2>1. CASE p \in raced
    BY <2>1 DEF RowInv, RacedAreScored
  <2>2. CASE p \notin raced
    <3>1. ~Fresh(p)
      BY DEF Fresh, Awaited, IInv, Typed, LabelsAgree, Session
    <3> QED
      BY <2>2, <3>1 DEF IInv, ScoresAreFresh, Current
  <2> QED
    BY <2>1, <2>2
<1>3. /\ snapshot[p] # None /\ snapshot[p].facts = facts[p]
      /\ Unmoved(snapshot[p].score, score[p])
  BY <1>1 DEF RowInv, RowsFollow
<1> QED
  BY <1>2, <1>3 DEF Unmoved, Moved

\* rebuild_snapshot keeps the queue's row current where the snapshot-builder is
\* deployed: once nothing about a project is on its way, the row shows its facts
\* and the breakdown of its stored score, unless the last rebuild was overtaken
\* or the score moved unannounced.
THEOREM SettledSnapshotsAreCurrent ==
  ASSUME "snapshot-builder" \in Registered
  PROVE  Spec => []SettledSnapshotIsCurrent
<1>1. Init => RowInv
  BY RowsInitially
<1>2. IInv /\ RowInv /\ [Next]_vars => RowInv'
  BY RowStep
<1>3. IInv /\ RowInv => SettledSnapshotIsCurrent
  BY RowsSettle
<1> QED
  BY <1>1, <1>2, <1>3, Invariance, PTL DEF Spec

-----------------------------------------------------------------------------
(***************************************************************************)
(* What would make the exceptions vanish.  Nothing in the code keeps two   *)
(* sessions from having read one project at once; a lock of its row from   *)
(* the collection to the commit, and from the view to the upsert, would.   *)
(***************************************************************************)
OneSessionPerProject ==
  \A w, x \in Session : w # x =>
    /\ Collected(w) \cap Collected(x) = {}
    /\ Viewed(w) \cap Viewed(x) = {}

\* Nobody calls the recompute route.
NoRebuildByHand ==
  \A w \in Session : job[w] # None => job[w].kind # "manual"

NobodyOvertakes ==
  /\ raced = {} /\ blurred = {}
  /\ \A w \in Session : tainted[w] = {}

\* A session announces what its commit will change.
AnnouncesMoves ==
  /\ \A w \in Session : pc[w] = "compared" => seen[w] = score[on[w]]
  /\ \A w \in Session : \A p \in wrote[w] :
       Moved(score[p], data[w][p]) => p \in news[w]

NothingMovesSilently == silent = {}

\* The queue's row with nothing on its way, without the exceptions of
\* SettledSnapshotIsCurrent.
SnapshotIsCurrentWhenSettled ==
  \A p \in Project :
    \/ Awaited(p, "priority-recalculator") \/ Awaited(p, "snapshot-builder")
    \/ /\ snapshot[p] # None
       /\ snapshot[p].facts = facts[p]
       /\ snapshot[p].score # None
       /\ Breakdown(snapshot[p].score) = Breakdown(score[p])

LEMMA OvertakesNobody ==
  ASSUME NobodyOvertakes, OneSessionPerProject, NEW w \in Session, Overtake(w)
  PROVE  \A x \in Session : tainted'[x] = {}
BY DEF NobodyOvertakes, OneSessionPerProject, Overtake

LEMMA ExclusionStep ==
  ASSUME Typed, NobodyOvertakes, OneSessionPerProject, [Next]_vars
  PROVE  NobodyOvertakes'
<1>1. ASSUME NEW w \in Session, Commit(w)  PROVE NobodyOvertakes'
  <2>1. Overtake(w) /\ raced' = (raced \ Collected(w)) \cup tainted[w] /\ blurred' = blurred
    BY <1>1 DEF Commit
  <2> QED  BY <2>1, OvertakesNobody DEF NobodyOvertakes
<1>2. ASSUME NEW w \in Session, Upsert(w)  PROVE NobodyOvertakes'
  <2>1. /\ Overtake(w) /\ raced' = raced
        /\ blurred' = (blurred \ {job[w].project}) \cup tainted[w]
    BY <1>2 DEF Upsert
  <2> QED  BY <2>1, OvertakesNobody DEF NobodyOvertakes
<1>3. ASSUME NEW w \in Session, Abort(w)  PROVE NobodyOvertakes'
  BY <1>3 DEF Abort, NobodyOvertakes, Typed, TypeOK
<1>4. ASSUME UNCHANGED <<tainted, raced, blurred>>  PROVE NobodyOvertakes'
  BY <1>4 DEF NobodyOvertakes
<1>5. ASSUME \/ \E p \in Project, f \in Facts : Edit(p, f)
             \/ NextDay \/ Tick
             \/ \E w \in Worker : \E d \in pending : Start(w, d)
             \/ \E c \in Console, p \in Project : Rebuild(c, p)
             \/ \E w \in Session : \E p \in Project : Collect(w, p)
             \/ \E w \in Session : Compare(w) \/ Write(w) \/ View(w)
             \/ UNCHANGED vars
      PROVE  UNCHANGED <<tainted, raced, blurred>>
  BY <1>5 DEF Edit, NextDay, Tick, Start, Rebuild, Collect, Compare, Write, View,
              vars, history
<1> QED
  BY <1>1, <1>2, <1>3, <1>4, <1>5 DEF Next, SessionStep

\* A session that has released its transaction owes nothing.
LEMMA ReleasedOwesNothing ==
  ASSUME Typed, NEW w \in Session, Release(w)
  PROVE  /\ pc'[w] = "idle" /\ wrote'[w] = {}
         /\ \A x \in Session \ {w} :
              /\ pc'[x] = pc[x] /\ on'[x] = on[x] /\ seen'[x] = seen[x]
              /\ data'[x] = data[x] /\ wrote'[x] = wrote[x] /\ news'[x] = news[x]
BY DEF Typed, TypeOK, Release, Goto

LEMMA AnnouncesStep ==
  ASSUME Typed, AnnouncesMoves, OneSessionPerProject, [Next]_vars
  PROVE  AnnouncesMoves'
<1> USE DEF Typed
<1>1. ASSUME NEW w \in Session, NEW p \in Project, Collect(w, p)
      PROVE  AnnouncesMoves'
  <2>1. p \notin wrote[w]
    BY <1>1 DEF Collect, ProgressAgrees
  <2>2. /\ UNCHANGED <<score, seen, wrote, news>>
        /\ pc' = [pc EXCEPT ![w] = "collected"] /\ on' = [on EXCEPT ![w] = p]
        /\ \A x \in Session, q \in Project :
             x # w \/ q # p => data'[x][q] = data[x][q]
    BY <1>1 DEF Collect, Goto, TypeOK
  <2> QED  BY <2>1, <2>2 DEF AnnouncesMoves, TypeOK
<1>2. ASSUME NEW w \in Session, Compare(w)  PROVE AnnouncesMoves'
  <2>1. UNCHANGED <<score, data, wrote, news>>
    BY <1>2 DEF Compare
  <2>2. ASSUME NEW x \in Session \ {w}
        PROVE  pc'[x] = pc[x] /\ on'[x] = on[x] /\ seen'[x] = seen[x]
    BY <1>2 DEF Compare, Goto, TypeOK
  <2>3. pc'[w] = "compared" => seen'[w] = score[on'[w]]
    <3>1. CASE SameInputs(score[on[w]], data[w][on[w]]) /\ Goto(w, "rescoring")
      BY <3>1 DEF Goto, TypeOK
    <3>2. CASE /\ seen' = [seen EXCEPT ![w] = score[on[w]]]
               /\ UNCHANGED on
      BY <3>2 DEF TypeOK
    <3> QED  BY <1>2, <3>1, <3>2 DEF Compare
  <2>4. \A x \in Session : pc'[x] = "compared" => seen'[x] = score[on'[x]]
    BY <2>2, <2>3 DEF AnnouncesMoves
  <2> QED  BY <2>1, <2>4 DEF AnnouncesMoves, Moved
<1>3. ASSUME NEW w \in Session, Write(w)  PROVE AnnouncesMoves'
  <2> DEFINE p == on[w]
  <2>1. seen[w] = score[p]
    BY <1>3 DEF Write, AnnouncesMoves
  <2>2. Moved(score[p], data[w][p]) => p \in news'[w]
    BY <1>3, <2>1 DEF Write, TypeOK
  <2>3. /\ wrote'[w] = wrote[w] \cup {p} /\ news[w] \subseteq news'[w]
        /\ pc'[w] = "rescoring" /\ score' = score /\ data' = data
        /\ \A x \in Session \ {w} :
             /\ pc'[x] = pc[x] /\ on'[x] = on[x] /\ seen'[x] = seen[x]
             /\ wrote'[x] = wrote[x] /\ news'[x] = news[x]
    BY <1>3 DEF Write, Goto, TypeOK
  <2> QED  BY <2>2, <2>3 DEF AnnouncesMoves, Moved
<1>4. ASSUME NEW w \in Session, Commit(w)  PROVE AnnouncesMoves'
  <2>1. Release(w) /\ \A p \in Project : p \notin wrote[w] => score'[p] = score[p]
    BY <1>4 DEF Commit
  <2>2. wrote[w] \subseteq Collected(w)
    BY DEF Collected, ProgressAgrees, TypeOK
  <2>3. ASSUME NEW x \in Session \ {w}  PROVE wrote[x] \cap wrote[w] = {}
    BY <2>2 DEF Collected, ProgressAgrees, TypeOK, OneSessionPerProject
  <2>4. ASSUME NEW x \in Session \ {w}, pc[x] = "compared"
        PROVE  on[x] \in Project /\ on[x] \notin wrote[w]
    <3>1. on[x] \in Project /\ data[x][on[x]] # None
      BY <2>4 DEF ProgressAgrees, TypeOK
    <3> QED  BY <2>2, <3>1 DEF Collected, OneSessionPerProject
  <2>5. \A x \in Session : wrote[x] \subseteq Project
    BY DEF TypeOK
  <2> QED
    BY <2>1, <2>3, <2>4, <2>5, ReleasedOwesNothing DEF AnnouncesMoves, Moved
<1>5. ASSUME NEW w \in Session, Upsert(w) \/ Abort(w)  PROVE AnnouncesMoves'
  <2>1. Release(w) /\ score' = score
    BY <1>5 DEF Upsert, Abort
  <2> QED  BY <2>1, ReleasedOwesNothing DEF AnnouncesMoves, Moved
<1>6. ASSUME UNCHANGED <<score, on, data, seen, wrote, news>>,
             \A x \in Session : pc'[x] = "compared" => pc[x] = "compared"
      PROVE  AnnouncesMoves'
  BY <1>6 DEF AnnouncesMoves, Moved
<1>7. ASSUME \/ \E p \in Project, f \in Facts : Edit(p, f)
             \/ NextDay \/ Tick
             \/ \E w \in Worker : \E d \in pending : Start(w, d)
             \/ \E c \in Console, p \in Project : Rebuild(c, p)
             \/ \E w \in Session : View(w)
             \/ UNCHANGED vars
      PROVE  /\ UNCHANGED <<score, on, data, seen, wrote, news>>
             /\ \A x \in Session : pc'[x] = "compared" => pc[x] = "compared"
  BY <1>7 DEF Edit, NextDay, Tick, Start, Rebuild, View, Goto, vars, session,
              TypeOK, Session
<1> QED
  BY <1>1, <1>2, <1>3, <1>4, <1>5, <1>6, <1>7 DEF Next, SessionStep

LEMMA SilenceStep ==
  ASSUME Typed, AnnouncesMoves, NoRebuildByHand, NothingMovesSilently, [Next]_vars
  PROVE  NothingMovesSilently'
<1> USE DEF NothingMovesSilently
<1>1. ASSUME NEW w \in Session, Commit(w)  PROVE NothingMovesSilently'
  <2>1. job[w] # None
    BY <1>1 DEF Commit, Typed, LabelsAgree, Rescoring
  <2>2. Announced(w) = news[w]
    BY <2>1 DEF Announced, NoRebuildByHand
  <2>3. Changing(w) \subseteq news[w]
    BY DEF Changing, AnnouncesMoves
  <2>4. silent' = (silent \ Announced(w)) \cup (Changing(w) \ Announced(w))
    BY <1>1 DEF Commit
  <2> QED  BY <2>2, <2>3, <2>4
<1>2. ASSUME NEW w \in Session, Upsert(w)  PROVE NothingMovesSilently'
  BY <1>2 DEF Upsert
<1>3. ASSUME ~\E w \in Session : Commit(w) \/ Upsert(w)
      PROVE  silent' = silent
  BY <1>3 DEF Next, SessionStep, Edit, NextDay, Tick, Start, Rebuild, Collect,
              Compare, Write, View, Abort, vars, history
<1> QED
  BY <1>1, <1>2, <1>3

LEMMA NobodyOvertakesAlways ==
  Spec /\ []OneSessionPerProject => []NobodyOvertakes
<1>1. Init => NobodyOvertakes
  BY DEF Init, NobodyOvertakes
<1>2. IInv /\ NobodyOvertakes /\ OneSessionPerProject /\ [Next]_vars
        => NobodyOvertakes'
  BY ExclusionStep DEF IInv
<1> QED
  BY <1>1, <1>2, Invariance, PTL DEF Spec

\* When no two sessions have read one project at once, a change is in the score
\* as soon as it has been applied, as EVENTS.md says, with no exception.
THEOREM ExclusionKeepsScoresCurrent ==
  Spec /\ []OneSessionPerProject => []ScoreIsCurrentWhenSettled
<1>1. NobodyOvertakes /\ SettledScoreIsCurrent => ScoreIsCurrentWhenSettled
  BY DEF NobodyOvertakes, SettledScoreIsCurrent, ScoreIsCurrentWhenSettled
<1> QED
  BY <1>1, NobodyOvertakesAlways, SettledScoresAreCurrent, PTL

\* If moreover nobody calls the recompute route, which announces nothing, then
\* the queue's row is current with no exception too: the two missing locks and
\* the missing announcement are all that ever leaves a row behind.
THEOREM ExclusionKeepsRowsCurrent ==
  ASSUME "snapshot-builder" \in Registered
  PROVE  Spec /\ []OneSessionPerProject /\ []NoRebuildByHand
           => []SnapshotIsCurrentWhenSettled
<1>1. Init => AnnouncesMoves /\ NothingMovesSilently
  BY DEF Init, AnnouncesMoves, NothingMovesSilently
<1>2. IInv /\ AnnouncesMoves /\ OneSessionPerProject /\ [Next]_vars
        => AnnouncesMoves'
  BY AnnouncesStep DEF IInv
<1>3. IInv /\ AnnouncesMoves /\ NothingMovesSilently /\ NoRebuildByHand
          /\ [Next]_vars
        => NothingMovesSilently'
  BY SilenceStep DEF IInv
<1>4. NobodyOvertakes /\ NothingMovesSilently /\ SettledSnapshotIsCurrent
        => SnapshotIsCurrentWhenSettled
  BY DEF NobodyOvertakes, NothingMovesSilently, SettledSnapshotIsCurrent,
         SnapshotIsCurrentWhenSettled
<1>5. Spec => []SettledSnapshotIsCurrent
  BY SettledSnapshotsAreCurrent
<1> QED
  BY <1>1, <1>2, <1>3, <1>4, <1>5, Invariance, NobodyOvertakesAlways, PTL DEF Spec
=============================================================================
