------------------------------ MODULE EventBus ------------------------------
(***************************************************************************)
(* The transactional outbox and its Celery transport (apps/events).        *)
(*                                                                         *)
(* A producer commits an outbox row with its mutation and, after the       *)
(* commit, hints that a drain should run.  A drain claims the oldest       *)
(* unpublished rows under a row lock, marks them published, commits, and   *)
(* only then queues one delivery per subscribed handler.  A delivery       *)
(* inserts a ProcessedEvent claim and runs the handler in one transaction; *)
(* a failure is retried as a new message until the attempt budget is       *)
(* spent, and the row is then dead-lettered until an operator re-queues    *)
(* it.  Messages are acknowledged late: a worker killed before the         *)
(* acknowledgement gives its task back to the broker.                      *)
(*                                                                         *)
(* A worker is one slot of the Celery pool; it runs one task at a time,    *)
(* a drain or a delivery, one database transaction or broker call a step.  *)
(***************************************************************************)
EXTENDS Naturals, FiniteSets

CONSTANTS
  Event,          \* outbox rows, numbered in (occurred_at, id) order
  Handler,        \* names in the handler registry
  Subscribers,    \* Subscribers[e]: the handlers of the topic of e
  Poison,         \* <<event, handler>> pairs whose handler raises every time
  Worker,         \* slots of the Celery worker pool
  Admin,          \* operators' re-queue requests in flight
  BatchSize,      \* EVENT_DRAIN_BATCH_SIZE
  MaxAttempts,    \* EVENT_MAX_ATTEMPTS
  None,           \* no delivery in hand
  MaxDrains,      \* bound: drain tasks waiting on the broker
  MaxFailures,    \* bound: transient failures of one pair
  MaxCrashes,     \* bound: workers killed
  MaxOutages,     \* bound: deliveries the broker refuses to queue
  MaxRequeues     \* bound: re-queue requests by operators

Pair == Event \X Handler

\* The JSON body of an events.handle_event task and its Celery retry count.
Message == [event : Event, handler : Handler, retries : 0 .. MaxAttempts - 1]

ASSUME EventsAreOrdered == Event \subseteq Nat
ASSUME SubscribersAssumption == Subscribers \in [Event -> SUBSET Handler]
ASSUME PoisonAssumption == Poison \subseteq Pair
ASSUME BudgetAssumption == BatchSize \in Nat \ {0} /\ MaxAttempts \in Nat \ {0}
ASSUME BoundsAssumption ==
  /\ MaxDrains \in Nat \ {0}
  /\ MaxFailures \in Nat
  /\ MaxCrashes \in Nat
  /\ MaxOutages \in Nat
  /\ MaxRequeues \in Nat
ASSUME NoneAssumption == None \notin Message

VARIABLES
  recorded,    \* rows of events_outboxevent
  published,   \* rows with published_at set
  dead,        \* rows with dead_lettered_at set
  ledger,      \* events_processedevent: the committed claims
  effects,     \* how often the writes of a pair's handler committed
  drains,      \* drain tasks waiting on the broker
  deliveries,  \* deliveries[m]: copies of message m waiting on the broker
  pc,          \* what each worker is doing
  job,         \* the delivery each worker holds, unacknowledged
  batch,       \* rows each worker's drain claimed
  todo,        \* on_commit callbacks each worker has yet to run
  selected,    \* rows each operator request has read and not yet written
  failures,    \* history: how often the handler of a pair raised
  spent,       \* history: pairs that exhausted their budget since a re-queue
  dropped,     \* history: pairs whose message never reached the broker
  crashes, outages, requeues   \* how much of each bound is used

tables    == <<recorded, published, dead, ledger, effects>>
broker    == <<drains, deliveries>>
workers   == <<pc, job, batch, todo>>
history   == <<failures, spent, dropped>>
counters  == <<crashes, outages, requeues>>
vars      == <<tables, broker, workers, selected, history, counters>>

-----------------------------------------------------------------------------
PairOf(m) == <<m.event, m.handler>>

\* One handle_event task per subscribed handler per row of S.
SubscribedPairs(S) == {p \in Pair : p[1] \in S /\ p[2] \in Subscribers[p[1]]}

\* Mutant: the claim takes no row lock.
LockedByNobody == {}

\* Row locks of SELECT ... FOR UPDATE, held until the drain's transaction ends.
Locked == UNION {batch[w] : w \in {x \in Worker : pc[x] = "claimed"}}

\* Mutant: the claim reads rows of transactions that have not committed.
ClaimableUncommitted == (Event \ published) \ Locked

\* The backlog another drain can still claim: unpublished, lock skipped.
Claimable == (recorded \ published) \ Locked

\* What claim_batch(limit) may return: the oldest rows, at most BatchSize.
OldestRows ==
  {S \in SUBSET Claimable :
     /\ \A e \in S, f \in Claimable \ S : e < f
     /\ \/ Cardinality(S) = BatchSize
        \/ S = Claimable /\ Cardinality(S) < BatchSize}

\* A hint beyond MaxDrains waiting ones is indistinguishable from them.
OneMoreDrain == IF drains < MaxDrains THEN drains + 1 ELSE drains

\* Mutant: check-then-insert, with no unique index to wait on.
NeverHoldsClaim(w, p) == FALSE

\* The ProcessedEvent row of p is inserted but not committed by w.
HoldsClaim(w, p) == pc[w] = "applying" /\ PairOf(job[w]) = p

\* Mutant: the duplicate is not recognised.
NeverClaimed(p) == FALSE

\* The unique index already holds the pair.
AlreadyClaimed(p) == p \in ledger

\* Mutant: the budget is counted from zero.
ExhaustedTooSoon(m) == m.retries + 2 >= MaxAttempts

\* attempt = self.request.retries + 1 has reached EVENT_MAX_ATTEMPTS.
Exhausted(m) == m.retries + 1 >= MaxAttempts

\* Mutant: the message never reaches the broker.
QueueNothing(m) == UNCHANGED deliveries

Queue(m) == deliveries' = [deliveries EXCEPT ![m] = @ + 1]

Goto(w, label) == pc' = [pc EXCEPT ![w] = label]

-----------------------------------------------------------------------------
(***************************************************************************)
(* Producers and the clock.                                                *)
(***************************************************************************)

\* The producing transaction commits; its on_commit kick reaches the broker
\* or is swallowed (broker unreachable, process killed after the commit).
Produce(e) ==
  /\ e \notin recorded
  /\ recorded' = recorded \cup {e}
  /\ drains' \in {drains, OneMoreDrain}
  /\ UNCHANGED <<published, dead, ledger, effects, deliveries, workers,
                 selected, history, counters>>

\* Beat queues the drain-outbox sweep.
Sweep ==
  /\ drains < MaxDrains
  /\ drains' = drains + 1
  /\ UNCHANGED <<tables, deliveries, workers, selected, history, counters>>

-----------------------------------------------------------------------------
(***************************************************************************)
(* events.drain_outbox.                                                    *)
(***************************************************************************)

\* Take the task and claim a batch; an empty one ends the transaction.
StartDrain(w) ==
  /\ pc[w] = "idle"
  /\ drains > 0
  /\ drains' = drains - 1
  /\ \E S \in OldestRows :
       /\ batch' = [batch EXCEPT ![w] = S]
       /\ Goto(w, IF S = {} THEN "drained" ELSE "claimed")
  /\ UNCHANGED <<tables, deliveries, job, todo, selected, history, counters>>

\* published_at commits; the callbacks registered for the batch become due.
CommitDrain(w) ==
  /\ pc[w] = "claimed"
  /\ published' = published \cup batch[w]
  /\ todo' = [todo EXCEPT ![w] = SubscribedPairs(batch[w])]
  /\ Goto(w, "dispatching")
  /\ UNCHANGED <<recorded, dead, ledger, effects, broker, job, batch,
                 selected, history, counters>>

\* One on_commit callback: _queue_delivery.
Dispatch(w) ==
  /\ pc[w] = "dispatching"
  /\ \E p \in todo[w] :
       /\ Queue([event |-> p[1], handler |-> p[2], retries |-> 0])
       /\ todo' = [todo EXCEPT ![w] = @ \ {p}]
  /\ UNCHANGED <<tables, drains, pc, job, batch, selected, history, counters>>

\* handle_event.delay raises in a callback: Django skips the later callbacks
\* and the drain task fails, which acknowledges it.
BrokerRefuses(w) ==
  /\ pc[w] = "dispatching"
  /\ todo[w] # {}
  /\ outages < MaxOutages
  /\ outages' = outages + 1
  /\ dropped' = dropped \cup todo[w]
  /\ todo' = [todo EXCEPT ![w] = {}]
  /\ Goto(w, "drained")
  /\ UNCHANGED <<tables, broker, job, batch, selected, failures, spent,
                 crashes, requeues>>

\* The callbacks are done; a full batch queues the next drain, unless the
\* broker refuses it.
FinishDrain(w) ==
  /\ pc[w] = "dispatching"
  /\ todo[w] = {}
  /\ \/ drains' = drains
     \/ Cardinality(batch[w]) = BatchSize /\ drains' = OneMoreDrain
  /\ Goto(w, "drained")
  /\ UNCHANGED <<tables, deliveries, job, batch, todo, selected, history,
                 counters>>

-----------------------------------------------------------------------------
(***************************************************************************)
(* events.handle_event.                                                    *)
(***************************************************************************)

\* Take the task and read the row; outbox rows are never deleted.
StartDelivery(w, m) ==
  /\ pc[w] = "idle"
  /\ deliveries[m] > 0
  /\ deliveries' = [deliveries EXCEPT ![m] = @ - 1]
  /\ job' = [job EXCEPT ![w] = m]
  /\ Goto(w, "received")
  /\ UNCHANGED <<tables, drains, batch, todo, selected, history, counters>>

\* Insert the ProcessedEvent row.  The unique index makes the insert wait for
\* an uncommitted claim of the same pair; a committed one is a duplicate.
Claim(w) ==
  /\ pc[w] = "received"
  /\ \A x \in Worker : ~HoldsClaim(x, PairOf(job[w]))
  /\ Goto(w, IF AlreadyClaimed(PairOf(job[w])) THEN "handled" ELSE "applying")
  /\ UNCHANGED <<tables, broker, job, batch, todo, selected, history, counters>>

\* The handler returns: claim and effect commit together.
Apply(w) ==
  LET p == PairOf(job[w]) IN
  /\ pc[w] = "applying"
  /\ p \notin Poison
  /\ ledger' = ledger \cup {p}
  /\ effects' = [effects EXCEPT ![p] = @ + 1]
  /\ Goto(w, "handled")
  /\ UNCHANGED <<recorded, published, dead, broker, job, batch, todo, selected,
                 history, counters>>

\* The handler raises: claim and effect roll back together.
Raise(w) ==
  LET p == PairOf(job[w]) IN
  /\ pc[w] = "applying"
  /\ p \in Poison \/ failures[p] < MaxFailures
  /\ failures' = [failures EXCEPT ![p] = @ + 1]
  /\ Goto(w, "failed")
  /\ UNCHANGED <<tables, broker, job, batch, todo, selected, spent, dropped,
                 counters>>

\* record_failure within the budget, mark_dead_lettered past it.  The UPDATE
\* waits for a drain that holds the row.
RecordFailure(w) ==
  LET m == job[w] IN
  /\ pc[w] = "failed"
  /\ m.event \notin Locked
  /\ \/ /\ Exhausted(m)
        /\ dead' = dead \cup {m.event}
        /\ spent' = spent \cup {PairOf(m)}
        /\ Goto(w, "handled")
     \/ /\ ~Exhausted(m)
        /\ Goto(w, "retrying")
        /\ UNCHANGED <<dead, spent>>
  /\ UNCHANGED <<recorded, published, ledger, effects, broker, job, batch,
                 todo, selected, failures, dropped, counters>>

\* self.retry publishes a new message with the next retry count.
Retry(w) ==
  LET m == job[w] IN
  /\ pc[w] = "retrying"
  /\ Queue([event |-> m.event, handler |-> m.handler,
            retries |-> m.retries + 1])
  /\ Goto(w, "handled")
  /\ UNCHANGED <<tables, drains, job, batch, todo, selected, history, counters>>

\* The broker refuses the retry: Celery rejects the task without requeueing it.
RetryRefused(w) ==
  /\ pc[w] = "retrying"
  /\ outages < MaxOutages
  /\ outages' = outages + 1
  /\ dropped' = dropped \cup {PairOf(job[w])}
  /\ Goto(w, "handled")
  /\ UNCHANGED <<tables, broker, job, batch, todo, selected, failures, spent,
                 crashes, requeues>>

-----------------------------------------------------------------------------
(***************************************************************************)
(* The worker pool: late acknowledgement and redelivery.                   *)
(***************************************************************************)

Ack(w) ==
  /\ pc[w] \in {"drained", "handled"}
  /\ Goto(w, "idle")
  /\ job' = [job EXCEPT ![w] = None]
  /\ batch' = [batch EXCEPT ![w] = {}]
  /\ UNCHANGED <<tables, broker, todo, selected, history, counters>>

\* The worker is killed: its open transaction rolls back, its callbacks are
\* forgotten, and the unacknowledged task returns to the broker.
Crash(w) ==
  /\ crashes < MaxCrashes
  /\ crashes' = crashes + 1
  /\ pc[w] # "idle"
  /\ IF job[w] = None
       THEN drains' = OneMoreDrain /\ UNCHANGED deliveries
       ELSE Queue(job[w]) /\ UNCHANGED drains
  /\ dropped' = dropped \cup todo[w]
  /\ Goto(w, "idle")
  /\ job' = [job EXCEPT ![w] = None]
  /\ batch' = [batch EXCEPT ![w] = {}]
  /\ todo' = [todo EXCEPT ![w] = {}]
  /\ UNCHANGED <<tables, selected, failures, spent, outages, requeues>>

-----------------------------------------------------------------------------
(***************************************************************************)
(* The operator: requeue_dead_lettered on a selection of rows.             *)
(***************************************************************************)

\* The request evaluates queryset.dead_lettered(): a plain read.
SelectDead(a, S) ==
  /\ requeues < MaxRequeues
  /\ requeues' = requeues + 1
  /\ selected[a] = {}
  /\ S # {} /\ S \subseteq dead
  /\ selected' = [selected EXCEPT ![a] = S]
  /\ UNCHANGED <<tables, broker, workers, history, crashes, outages>>

\* row.requeue(): an unconditional save of the four bookkeeping columns.
Requeue(a, e) ==
  /\ e \in selected[a]
  /\ e \notin Locked
  /\ selected' = [selected EXCEPT ![a] = @ \ {e}]
  /\ published' = published \ {e}
  /\ dead' = dead \ {e}
  /\ spent' = {p \in spent : p[1] # e}
  /\ dropped' = {p \in dropped : p[1] # e}
  /\ UNCHANGED <<recorded, ledger, effects, broker, workers, failures, counters>>

-----------------------------------------------------------------------------
Init ==
  /\ recorded = {} /\ published = {} /\ dead = {} /\ ledger = {}
  /\ effects = [p \in Pair |-> 0]
  /\ drains = 0
  /\ deliveries = [m \in Message |-> 0]
  /\ pc = [w \in Worker |-> "idle"]
  /\ job = [w \in Worker |-> None]
  /\ batch = [w \in Worker |-> {}]
  /\ todo = [w \in Worker |-> {}]
  /\ selected = [a \in Admin |-> {}]
  /\ failures = [p \in Pair |-> 0]
  /\ spent = {} /\ dropped = {}
  /\ crashes = 0 /\ outages = 0 /\ requeues = 0

DrainStep(w) ==
  CommitDrain(w) \/ Dispatch(w) \/ FinishDrain(w)

DeliveryStep(w) ==
  Claim(w) \/ Apply(w) \/ Raise(w) \/ RecordFailure(w) \/ Retry(w)

Next ==
  \/ \E e \in Event : Produce(e)
  \/ Sweep
  \/ \E w \in Worker :
       \/ StartDrain(w)
       \/ DrainStep(w)
       \/ BrokerRefuses(w) \/ RetryRefused(w)
       \/ \E m \in Message : StartDelivery(w, m)
       \/ DeliveryStep(w)
       \/ Ack(w)
       \/ Crash(w)
  \/ \E a \in Admin :
       \/ \E S \in SUBSET Event : SelectDead(a, S)
       \/ \E e \in Event : Requeue(a, e)

Spec == Init /\ [][Next]_vars

(***************************************************************************)
(* Beat keeps sweeping, a worker that is alive finishes the step it is in, *)
(* and the broker's list is first-in first-out, so a message that waits is *)
(* eventually taken.  Producers, failures, crashes, outages and operators  *)
(* are owed nothing.                                                       *)
(***************************************************************************)
Fairness ==
  /\ WF_vars(Sweep)
  /\ SF_vars(\E w \in Worker : StartDrain(w))
  /\ \A m \in Message : SF_vars(\E w \in Worker : StartDelivery(w, m))
  /\ \A w \in Worker :
       WF_vars(DrainStep(w)) /\ WF_vars(DeliveryStep(w)) /\ WF_vars(Ack(w))
  /\ \A a \in Admin, e \in Event : WF_vars(Requeue(a, e))

FairSpec == Spec /\ Fairness

-----------------------------------------------------------------------------
Labels == {"idle", "claimed", "dispatching", "drained",
           "received", "applying", "failed", "retrying", "handled"}

TypeOK ==
  /\ recorded \subseteq Event
  /\ published \subseteq recorded
  /\ dead \subseteq Event
  /\ ledger \subseteq Pair
  /\ effects \in [Pair -> Nat]
  /\ drains \in 0 .. MaxDrains
  /\ deliveries \in [Message -> Nat]
  /\ pc \in [Worker -> Labels]
  /\ job \in [Worker -> Message \cup {None}]
  /\ batch \in [Worker -> SUBSET recorded]
  /\ todo \in [Worker -> SUBSET Pair]
  /\ selected \in [Admin -> SUBSET Event]
  /\ failures \in [Pair -> Nat]
  /\ spent \subseteq Pair
  /\ dropped \subseteq Pair
  /\ crashes \in 0 .. MaxCrashes
  /\ outages \in 0 .. MaxOutages
  /\ requeues \in 0 .. MaxRequeues

\* A worker in a delivery label holds a message.
Handling == {"received", "applying", "failed", "retrying", "handled"}

\* Exactly the claimed pairs have had their effect, and each once: no
\* interleaving of duplicates, redeliveries, retries and replays makes
\* apply_once commit a handler's writes twice or without its claim.
EffectOncePerClaim ==
  \A p \in Pair : effects[p] = IF p \in ledger THEN 1 ELSE 0

\* Two drains never hold one row, and a held row is still unpublished: SKIP
\* LOCKED gives concurrent drains disjoint prefixes of the backlog.
DrainsAreDisjoint ==
  \A w \in Worker : pc[w] = "claimed" =>
    /\ batch[w] \cap published = {}
    /\ \A x \in Worker \ {w} : pc[x] = "claimed" => batch[w] \cap batch[x] = {}

\* A message for p waits on the broker.
Queued(p) == \E m \in Message : PairOf(m) = p /\ deliveries[m] > 0

\* A worker will still queue, apply or retry p, or give its task back.
InHand(p) ==
  \E w \in Worker :
    \/ p \in todo[w]
    \/ pc[w] \in Handling \ {"handled"} /\ PairOf(job[w]) = p

\* A published row's every subscribed delivery is applied, on its way, given
\* up with the row still flagged for the operator, or a message that a crash
\* between commit and callback or a refusing broker kept from being queued:
\* the last is the only way in which the bus loses a delivery.
NothingElseIsLost ==
  \A p \in SubscribedPairs(published) :
    \/ p \in ledger \/ Queued(p) \/ InHand(p)
    \/ p \in spent /\ p[1] \in dead
    \/ p \in dropped

\* A row is dead-lettered only for a delivery whose handler has raised
\* MaxAttempts times: neither another handler's failures nor a redelivery or
\* a replay in flight shortens a delivery's budget.
BudgetIsHonoured ==
  \A e \in dead : \E h \in Handler :
    <<e, h>> \in spent /\ failures[<<e, h>>] >= MaxAttempts

\* What the bus promises, seen through the tables: effects are at most once,
\* only for recorded events and their subscribers, and flags only on those.
Promise == INSTANCE EventDelivery WITH flagged <- dead

\* apply_once, the ledger, the retries and the re-queue together implement the
\* abstract delivery promise.
KeepsPromise == Promise!Spec

\* Every recorded event is eventually, for each subscribed handler, applied,
\* given up or stranded by a message never queued - and again after a
\* re-queue - although the kick may be lost and workers may be killed.
EveryDeliverySettles ==
  \A p \in SubscribedPairs(Event) :
    p[1] \in recorded ~> p \in ledger \cup spent \cup dropped

\* The claim of the events.drain_outbox docstring: the drain can never
\* dispatch zero times a row it has marked published.
NeverDispatchedZeroTimes ==
  \A p \in SubscribedPairs(published) :
    p \in ledger \/ Queued(p) \/ InHand(p) \/ p \in spent

\* The claim of the re-queue action's docstring: only dead-lettered rows are
\* touched, never a healthy row whose handlers may still be running.
OnlyDeadRowsAreRequeued ==
  [][\A e \in Event : e \in published /\ e \notin published' => e \in dead]_vars
=============================================================================
