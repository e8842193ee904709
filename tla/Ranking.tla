------------------------------ MODULE Ranking ------------------------------
(***************************************************************************)
(* The stored ranking and the read model (apps/prioritization and          *)
(* apps/portfolio), driven by the events of the bus.                       *)
(*                                                                         *)
(* The priority-recalculator rescores a project when its facts change and, *)
(* on a clock tick, every project whose valid_until has passed; it writes  *)
(* the PriorityScore row and announces it when the breakdown moved.  The   *)
(* snapshot-builder copies facts and score into the queue's row.  Both     *)
(* read, compute and then write in a READ COMMITTED transaction that locks *)
(* a row only when it writes it, and both take `now` from the event.  A    *)
(* console session is the recompute route, which rescores without an       *)
(* event and announces nothing.                                            *)
(*                                                                         *)
(* The bus is used through what EventBus is shown to implement: every      *)
(* subscribed delivery of a committed event is applied once, in any order. *)
(* Time is counted in days.                                                *)
(***************************************************************************)
EXTENDS Integers

CONSTANTS
  Project,
  Worker,        \* slots of the Celery pool
  Console,       \* API sessions that serve POST /recompute
  TargetDates,   \* target dates people may commit to
  DueDates,      \* due dates people may give the open task
  Registered,    \* handlers in the registry of this deployment
  Horizon,       \* PRESSURE_HORIZON_DAYS
  FinalWeek,     \* FINAL_WEEK_DAYS
  Threshold,     \* STALENESS_THRESHOLD_DAYS
  None,          \* no date, no row, no delivery in hand
  MaxDay,        \* bound: days the clock advances
  MaxEdits,      \* bound: mutations by people
  MaxRebuilds,   \* bound: calls of the recompute route
  MaxAborts      \* bound: transactions rolled back

Session == Worker \cup Console
Day == 0 .. MaxDay

\* What the score reads of a project: its target date, the due date of its open
\* task and the day a person last touched it.
Facts ==
  [target : TargetDates \cup {None}, due : DueDates \cup {None}, active : Day]

\* SignalInput: the facts as they stand on the day the score is made for.
SignalInput ==
  [target : TargetDates \cup {None}, overdue : BOOLEAN, active : Day, now : Day]

Handlers == {"priority-recalculator", "snapshot-builder"}

Delivery ==
  [id : Nat, kind : {"changed", "rescored"}, project : Project, at : Day,
   handler : Handlers]
  \cup
  [id : Nat, kind : {"ticked"}, project : {None}, at : Day,
   handler : {"priority-recalculator"}]

\* A call of the recompute route, in the shape of a delivery.
Manual == [id : {0}, kind : {"manual"}, project : Project, at : Day,
           handler : {"priority-recalculator"}]

Snapshot == [facts : Facts, score : SignalInput \cup {None}, now : Day]

ASSUME DatesAssumption == TargetDates \subseteq Int /\ DueDates \subseteq Int
ASSUME CalendarAssumption ==
  Horizon \in Nat \ {0} /\ FinalWeek \in Nat /\ Threshold \in Nat \ {0}
ASSUME RankingBounds ==
  /\ MaxDay \in Nat /\ MaxEdits \in Nat /\ MaxRebuilds \in Nat
  /\ MaxAborts \in Nat
ASSUME RegistryAssumption ==
  Registered \subseteq Handlers /\ "priority-recalculator" \in Registered
ASSUME SessionsAreDistinct == Worker \cap Console = {}
ASSUME NoneIsNoValue ==
  None \notin Int \cup Project \cup SignalInput \cup Snapshot \cup Delivery
                  \cup Manual

VARIABLES
  today,      \* the calendar day
  facts,      \* the committed rows a score is computed from
  score,      \* prioritization_priorityscore, by the inputs it was made from
  snapshot,   \* portfolio_projectsnapshot
  log,        \* events recorded so far
  pending,    \* deliveries not applied yet
  pc,         \* what each session is doing
  job,        \* the delivery or route call a session serves
  left,       \* projects the session still has to rescore
  on,         \* the project it is rescoring
  data,       \* data[w][p]: the inputs w collected for p, None before
  seen,       \* the stored row it compared them with
  wrote,      \* rows it has written and not committed
  news,       \* moved projects it will announce
  view,       \* the projection a snapshot-builder has read
  tainted,    \* history: rows another session finished since w read them
  raced,      \* history: scores whose last rescoring was so overtaken
  blurred,    \* history: snapshots whose last rebuild was so overtaken
  silent,     \* history: scores that moved unannounced
  applied,    \* history: day of the latest tick applied
  edits, rebuilds, aborts     \* how much of each bound is used

session  == <<pc, job, left, on, data, seen, wrote, news, view>>
history  == <<tainted, raced, blurred, silent, applied>>
counters == <<edits, rebuilds, aborts>>
vars     == <<today, facts, score, snapshot, log, pending, session, history,
              counters>>

-----------------------------------------------------------------------------
(***************************************************************************)
(* The scoring engine, as a function of its inputs.                        *)
(***************************************************************************)

\* collect_project_facts at `now`.
Inputs(f, d) ==
  [target |-> f.target, overdue |-> f.due # None /\ f.due < d,
   active |-> f.active, now |-> d]

Silence(i) == IF i.now > i.active THEN i.now - i.active ELSE 0

\* The breakdown document without computed_at: its reasons name the days.
Breakdown(i) ==
  [remaining |-> IF i.target = None THEN None ELSE i.target - i.now,
   silence |-> Silence(i), overdue |-> i.overdue]

\* deadline_pressure, scaled by the horizon.
Pressure(i) ==
  IF i.target = None THEN None
  ELSE CASE i.target - i.now <= 0       -> Horizon
         [] i.target - i.now >= Horizon -> 0
         [] OTHER                       -> Horizon - (i.target - i.now)

\* The time-dependent part of the number itself.
Value(i) ==
  [pressure |-> Pressure(i), overdue |-> i.overdue,
   staleness |-> IF Silence(i) < Threshold THEN Silence(i) ELSE Threshold]

\* Where a time-dependent signal changes bucket.
Boundaries(i) ==
  (IF i.target = None THEN {} ELSE {i.target, i.target - FinalWeek})
    \cup {i.active + Threshold}

\* compute_valid_until: the earliest of them still to come.
ValidUntil(i) ==
  LET future == {b \in Boundaries(i) : b > i.now}
  IN  IF future = {} THEN None
      ELSE CHOOSE b \in future : \A c \in future : b <= c

\* Mutant: WHERE valid_until < tick_at.
StaleBefore(d) ==
  {p \in Project : /\ score[p] # None
                   /\ ValidUntil(score[p]) # None
                   /\ ValidUntil(score[p]) < d}

\* PriorityScore.objects.stale_at(d).
StaleAt(d) ==
  {p \in Project : /\ score[p] # None
                   /\ ValidUntil(score[p]) # None
                   /\ ValidUntil(score[p]) <= d}

\* Mutant: the fingerprint leaves the silence out.
SameInputsButSilence(stored, i) ==
  stored # None /\ [stored EXCEPT !.active = i.active] = i

\* The stored input_hash is that of these inputs.
SameInputs(stored, i) == stored # None /\ stored = i

\* Mutant: the row is announced only when the number moved.
MovedInValue(stored, i) == stored = None \/ Value(stored) # Value(i)

\* _moved: the first computation, or another breakdown.
Moved(stored, i) == stored = None \/ Breakdown(stored) # Breakdown(i)

-----------------------------------------------------------------------------
\* Mutant: the read model's topics no longer exclude the clock's.
SubscribersOfClock(kind) ==
  IF kind = "rescored" THEN {"snapshot-builder"} ELSE Handlers

\* The topics each handler is registered for.
Subscribers(kind) ==
  CASE kind = "changed"  -> Handlers
    [] kind = "ticked"   -> {"priority-recalculator"}
    [] kind = "rescored" -> {"snapshot-builder"}

DeliveriesOf(n, kind, p, d) ==
  {[id |-> n, kind |-> kind, project |-> p, at |-> d, handler |-> h] :
     h \in Subscribers(kind) \cap Registered}

Goto(w, label) == pc' = [pc EXCEPT ![w] = label]

\* The rows w has read in its transaction, by handler.
Collected(w) == {p \in Project : data[w][p] # None}
Viewed(w) == IF pc[w] = "viewed" THEN {job[w].project} ELSE {}

\* w finishes a rescoring or a rebuild: whoever read the same rows before has
\* been overtaken.
Overtake(w) ==
  tainted' = [x \in Session |->
    IF x = w THEN {}
    ELSE tainted[x] \cup (Collected(x) \cap Collected(w))
                    \cup (Viewed(x) \cap Viewed(w))]

\* The session's transaction is over.
Release(w) ==
  /\ Goto(w, "idle")
  /\ job' = [job EXCEPT ![w] = None]
  /\ left' = [left EXCEPT ![w] = {}]
  /\ on' = [on EXCEPT ![w] = None]
  /\ data' = [data EXCEPT ![w] = [p \in Project |-> None]]
  /\ seen' = [seen EXCEPT ![w] = None]
  /\ wrote' = [wrote EXCEPT ![w] = {}]
  /\ news' = [news EXCEPT ![w] = {}]
  /\ view' = [view EXCEPT ![w] = None]

-----------------------------------------------------------------------------
(***************************************************************************)
(* People and the calendar.                                                *)
(***************************************************************************)

\* A service commits a mutation of p with its event, and an audit record on the
\* project's timeline if it is a change of the audited kind.
Edit(p, f) ==
  /\ edits < MaxEdits
  /\ edits' = edits + 1
  /\ f.active \in {facts[p].active, today}
  /\ facts' = [facts EXCEPT ![p] = f]
  /\ log' = log + 1
  /\ pending' = pending \cup DeliveriesOf(log + 1, "changed", p, today)
  /\ UNCHANGED <<today, score, snapshot, session, history, rebuilds, aborts>>

NextDay ==
  /\ today < MaxDay
  /\ today' = today + 1
  /\ UNCHANGED <<facts, score, snapshot, log, pending, session, history,
                 counters>>

\* The ticker writes clock.ticked; the model keeps one tick under way.
Tick ==
  /\ \A d \in pending : d.kind # "ticked"
  /\ ~ \E w \in Worker : job[w] # None /\ job[w].kind = "ticked"
  /\ pending' = pending \cup DeliveriesOf(0, "ticked", None, today)
  /\ UNCHANGED <<today, facts, score, snapshot, log, session, history, counters>>

-----------------------------------------------------------------------------
(***************************************************************************)
(* The priority-recalculator.                                              *)
(***************************************************************************)

\* Claim the delivery; a tick selects the scores that have expired.
Start(w, d) ==
  /\ pc[w] = "idle"
  /\ d \in pending
  /\ pending' = pending \ {d}
  /\ job' = [job EXCEPT ![w] = d]
  /\ \/ /\ d.handler = "snapshot-builder"
        /\ Goto(w, "building")
        /\ UNCHANGED left
     \/ /\ d.handler = "priority-recalculator"
        /\ Goto(w, "rescoring")
        /\ left' = [left EXCEPT ![w] =
             IF d.kind = "ticked" THEN StaleAt(d.at) ELSE {d.project}]
  /\ UNCHANGED <<today, facts, score, snapshot, log, on, data, seen, wrote,
                 news, view, history, counters>>

\* POST /projects/{p}/recompute.
Rebuild(c, p) ==
  /\ pc[c] = "idle"
  /\ rebuilds < MaxRebuilds
  /\ rebuilds' = rebuilds + 1
  /\ job' = [job EXCEPT ![c] =
       [id |-> 0, kind |-> "manual", project |-> p, at |-> today,
        handler |-> "priority-recalculator"]]
  /\ left' = [left EXCEPT ![c] = {p}]
  /\ Goto(c, "rescoring")
  /\ UNCHANGED <<today, facts, score, snapshot, log, pending, on, data, seen,
                 wrote, news, view, history, edits, aborts>>

\* recompute_for_project, first: read every fact about p as of `now`.
Collect(w, p) ==
  /\ pc[w] = "rescoring"
  /\ p \in left[w]
  /\ on' = [on EXCEPT ![w] = p]
  /\ data' = [data EXCEPT ![w][p] = Inputs(facts[p], job[w].at)]
  /\ Goto(w, "collected")
  /\ UNCHANGED <<today, facts, score, snapshot, log, pending, job, left, seen,
                 wrote, news, view, history, counters>>

\* Then: read the stored row; the same inputs end the recomputation.
Compare(w) ==
  LET p == on[w] IN
  /\ pc[w] = "collected"
  /\ \/ /\ SameInputs(score[p], data[w][p])
        /\ left' = [left EXCEPT ![w] = @ \ {p}]
        /\ on' = [on EXCEPT ![w] = None]
        /\ Goto(w, "rescoring")
        /\ UNCHANGED seen
     \/ /\ ~SameInputs(score[p], data[w][p])
        /\ seen' = [seen EXCEPT ![w] = score[p]]
        /\ Goto(w, "compared")
        /\ UNCHANGED <<left, on>>
  /\ UNCHANGED <<today, facts, score, snapshot, log, pending, job, data, wrote,
                 news, view, history, counters>>

\* update_or_create waits for an uncommitted write of the row, and locks it.
Write(w) ==
  LET p == on[w] IN
  /\ pc[w] = "compared"
  /\ \A x \in Session \ {w} : p \notin wrote[x]
  /\ wrote' = [wrote EXCEPT ![w] = @ \cup {p}]
  /\ news' = [news EXCEPT ![w] = IF Moved(seen[w], data[w][p])
                                 THEN @ \cup {p} ELSE @]
  /\ left' = [left EXCEPT ![w] = @ \ {p}]
  /\ on' = [on EXCEPT ![w] = None]
  /\ seen' = [seen EXCEPT ![w] = None]
  /\ Goto(w, "rescoring")
  /\ UNCHANGED <<today, facts, score, snapshot, log, pending, job, data, view,
                 history, counters>>

\* What the commit of w announces: nothing for the recompute route.
Announced(w) == IF job[w].kind = "manual" THEN {} ELSE news[w]

\* Rows whose breakdown the commit of w changes.
Changing(w) == {p \in wrote[w] : Moved(score[p], data[w][p])}

\* The claim, the rows and the project.priority.recalculated events commit.
Commit(w) ==
  /\ pc[w] = "rescoring"
  /\ left[w] = {}
  /\ score' = [p \in Project |->
       IF p \in wrote[w] THEN data[w][p] ELSE score[p]]
  /\ log' = IF Announced(w) = {} THEN log ELSE log + 1
  /\ pending' = pending \cup
       UNION {DeliveriesOf(log + 1, "rescored", p, job[w].at) :
                p \in Announced(w)}
  /\ Overtake(w)
  /\ raced' = (raced \ Collected(w)) \cup tainted[w]
  /\ silent' = (silent \ Announced(w)) \cup (Changing(w) \ Announced(w))
  /\ applied' = IF job[w].kind = "ticked" /\ job[w].at > applied
                THEN job[w].at ELSE applied
  /\ Release(w)
  /\ UNCHANGED <<today, facts, snapshot, blurred, counters>>

-----------------------------------------------------------------------------
(***************************************************************************)
(* The snapshot-builder.                                                   *)
(***************************************************************************)

\* rebuild_snapshot reads the project, its counts and its score.
View(w) ==
  LET p == job[w].project IN
  /\ pc[w] = "building"
  /\ view' = [view EXCEPT ![w] =
       [facts |-> facts[p], score |-> score[p], now |-> job[w].at]]
  /\ Goto(w, "viewed")
  /\ UNCHANGED <<today, facts, score, snapshot, log, pending, job, left, on,
                 data, seen, wrote, news, history, counters>>

\* ProjectSnapshot.objects.upsert replaces the whole row, and commits.
Upsert(w) ==
  LET p == job[w].project IN
  /\ pc[w] = "viewed"
  /\ snapshot' = [snapshot EXCEPT ![p] = view[w]]
  /\ Overtake(w)
  /\ blurred' = (blurred \ {p}) \cup tainted[w]
  /\ silent' = IF view[w].score = score[p] THEN silent \ {p} ELSE silent
  /\ Release(w)
  /\ UNCHANGED <<today, facts, score, log, pending, raced, applied, counters>>

\* A transaction rolls back: a deadlock, a lost connection, a killed worker.
\* The bus delivers the event again; a route call is not repeated.
Abort(w) ==
  /\ pc[w] # "idle"
  /\ aborts < MaxAborts
  /\ aborts' = aborts + 1
  /\ pending' = IF w \in Console THEN pending ELSE pending \cup {job[w]}
  /\ tainted' = [tainted EXCEPT ![w] = {}]
  /\ Release(w)
  /\ UNCHANGED <<today, facts, score, snapshot, log, raced, blurred, silent,
                 applied, edits, rebuilds>>

-----------------------------------------------------------------------------
\* Every project has just been created, without tasks, and nothing has
\* reacted yet.
Init ==
  /\ today = 0
  /\ facts \in [Project -> {f \in Facts : f.due = None /\ f.active = 0}]
  /\ score = [p \in Project |-> None]
  /\ snapshot = [p \in Project |-> None]
  /\ log = 1
  /\ pending = UNION {DeliveriesOf(1, "changed", p, 0) : p \in Project}
  /\ pc = [w \in Session |-> "idle"]
  /\ job = [w \in Session |-> None]
  /\ left = [w \in Session |-> {}]
  /\ on = [w \in Session |-> None]
  /\ data = [w \in Session |-> [p \in Project |-> None]]
  /\ seen = [w \in Session |-> None]
  /\ wrote = [w \in Session |-> {}]
  /\ news = [w \in Session |-> {}]
  /\ view = [w \in Session |-> None]
  /\ tainted = [w \in Session |-> {}]
  /\ raced = {} /\ blurred = {} /\ silent = {} /\ applied = 0
  /\ edits = 0 /\ rebuilds = 0 /\ aborts = 0

SessionStep(w) ==
  \/ \E p \in Project : Collect(w, p)
  \/ Compare(w) \/ Write(w) \/ Commit(w) \/ View(w) \/ Upsert(w)

Next ==
  \/ \E p \in Project, f \in Facts : Edit(p, f)
  \/ NextDay
  \/ Tick
  \/ \E w \in Worker : \E d \in pending : Start(w, d)
  \/ \E c \in Console, p \in Project : Rebuild(c, p)
  \/ \E w \in Session : SessionStep(w) \/ Abort(w)

Spec == Init /\ [][Next]_vars

(***************************************************************************)
(* Beat keeps ticking, a session finishes what it is doing, and the bus    *)
(* applies every delivery (EveryDeliverySettles of EventBus).  People, the *)
(* calendar and rollbacks are owed nothing.                                *)
(***************************************************************************)
Fairness ==
  /\ WF_vars(Tick)
  /\ \A w \in Session : WF_vars(SessionStep(w))
  /\ SF_vars(\E w \in Worker, d \in pending : d.kind = "ticked" /\ Start(w, d))
  /\ \A p \in Project, h \in Handlers :
       SF_vars(\E w \in Worker, d \in pending :
                 d.project = p /\ d.handler = h /\ Start(w, d))

FairSpec == Spec /\ Fairness

-----------------------------------------------------------------------------
Labels == {"idle", "rescoring", "collected", "compared", "building", "viewed"}

TypeOK ==
  /\ today \in Day
  /\ facts \in [Project -> Facts]
  /\ score \in [Project -> SignalInput \cup {None}]
  /\ snapshot \in [Project -> Snapshot \cup {None}]
  /\ log \in Nat
  /\ pending \subseteq Delivery
  /\ pc \in [Session -> Labels]
  /\ job \in [Session -> Delivery \cup Manual \cup {None}]
  /\ left \in [Session -> SUBSET Project]
  /\ on \in [Session -> Project \cup {None}]
  /\ data \in [Session -> [Project -> SignalInput \cup {None}]]
  /\ seen \in [Session -> SignalInput \cup {None}]
  /\ wrote \in [Session -> SUBSET Project]
  /\ news \in [Session -> SUBSET Project]
  /\ view \in [Session -> Snapshot \cup {None}]
  /\ tainted \in [Session -> SUBSET Project]
  /\ raced \subseteq Project /\ blurred \subseteq Project
  /\ silent \subseteq Project
  /\ applied \in Day
  /\ edits \in 0 .. MaxEdits
  /\ rebuilds \in 0 .. MaxRebuilds
  /\ aborts \in 0 .. MaxAborts

\* A change of p is on its way to handler h, or being applied by it.
Awaited(p, h) ==
  \/ \E d \in pending : d.project = p /\ d.handler = h
  \/ \E w \in Session :
       job[w] # None /\ job[w].project = p /\ job[w].handler = h

\* Once every change of a project has been applied its score is made from the
\* facts as they are, through edits, ticks, rebuilds, duplicates of work and
\* rollbacks; unless its last writer was overtaken, by a session that finished
\* the same project between the read and the write (raced).
SettledScoreIsCurrent ==
  \A p \in Project \ raced :
    \/ Awaited(p, "priority-recalculator")
    \/ score[p] # None /\ score[p] = Inputs(facts[p], score[p].now)

\* Once nothing is on its way the queue's row shows the facts and the score's
\* breakdown as they are stored, a score that was overtaken itself included: a
\* rescoring that the recalculator does not announce is one the row need not
\* follow.  The exceptions are a rebuild overtaken between its read and its
\* write, and a score that moved unannounced.
SettledSnapshotIsCurrent ==
  \A p \in Project \ (blurred \cup silent) :
    \/ Awaited(p, "priority-recalculator") \/ Awaited(p, "snapshot-builder")
    \/ /\ snapshot[p] # None
       /\ snapshot[p].facts = facts[p]
       /\ snapshot[p].score # None
       /\ Breakdown(snapshot[p].score) = Breakdown(score[p])

\* The boundaries of a row that have passed by day d.
Passed(i, d) == {b \in Boundaries(i) : b <= d}

\* The clock catches up with every stored score: in the end no target date,
\* final week or silence threshold has passed since the score was computed,
\* although ticks are applied late and a row is selected only by valid_until.
BucketsCatchUp ==
  <>[](\A p \in Project :
         score[p] # None
           /\ Passed(score[p], score[p].now) = Passed(score[p], today))

\* The claim of EVENTS.md that a change of data propagates at once: with every
\* change applied, the score is made from the facts as they are.
ScoreIsCurrentWhenSettled ==
  \A p \in Project :
    \/ Awaited(p, "priority-recalculator")
    \/ score[p] # None /\ score[p] = Inputs(facts[p], score[p].now)

\* The claim of EVENTS.md that a score is at most one tick stale with respect
\* to time: with a tick of today applied and nothing on its way, the number is
\* the one the facts give today.
AtMostOneTickStale ==
  \A p \in Project :
    applied = today /\ (\A w \in Session : job[w] = None)
      /\ ~Awaited(p, "priority-recalculator") /\ score[p] # None
    => Value(score[p]) = Value(Inputs(facts[p], today))
=============================================================================
