--------------------------- MODULE EventBusProofs ---------------------------
(***************************************************************************)
(* Theorems about EventBus for every set of events, handlers, workers and  *)
(* operators, every subscription, every batch size and attempt budget, and *)
(* every value of the bounds.                                              *)
(***************************************************************************)
EXTENDS EventBus, TLAPS

USE DEF AlreadyClaimed, Exhausted

-----------------------------------------------------------------------------
(***************************************************************************)
(* Facts about the operators the steps are built from.                     *)
(***************************************************************************)

\* A message belongs to a pair of an event and a handler.
LEMMA PairOfMessage ==
  ASSUME NEW m \in Message
  PROVE  /\ PairOf(m) \in Pair
         /\ PairOf(m) = <<m.event, m.handler>>
         /\ m.event \in Event /\ m.handler \in Handler
         /\ m.retries \in Nat /\ m.retries < MaxAttempts
BY BudgetAssumption DEF Message, Pair, PairOf

\* The body of a delivery task for p is a message, and belongs to p.
LEMMA MessageForPair ==
  ASSUME NEW p \in Pair, NEW r \in Nat, r < MaxAttempts
  PROVE  LET m == [event |-> p[1], handler |-> p[2], retries |-> r]
         IN  m \in Message /\ PairOf(m) = p /\ m.retries = r
BY BudgetAssumption DEF Message, Pair, PairOf

\* Queueing a message adds one copy of it and touches no other message.
LEMMA QueueAddsOne ==
  ASSUME NEW n \in Message, deliveries \in [Message -> Nat], Queue(n)
  PROVE  /\ deliveries' \in [Message -> Nat]
         /\ deliveries'[n] = deliveries[n] + 1
         /\ \A m \in Message : m # n => deliveries'[m] = deliveries[m]
BY DEF Queue

\* The claim query returns rows that nobody else has locked or published.
LEMMA OldestRowsAreClaimable ==
  ASSUME NEW S \in OldestRows
  PROVE  S \subseteq (recorded \ published) \ Locked
BY DEF OldestRows, Claimable

\* A further hint keeps the number of waiting drain tasks within its bound.
LEMMA OneMoreDrainIsBounded ==
  ASSUME drains \in 0 .. MaxDrains
  PROVE  OneMoreDrain \in 0 .. MaxDrains
BY BoundsAssumption DEF OneMoreDrain

\* Deliveries are dispatched to subscribers only.
LEMMA SubscribedPairsArePairs ==
  ASSUME NEW S
  PROVE  SubscribedPairs(S) \subseteq Pair
BY DEF SubscribedPairs

-----------------------------------------------------------------------------
(***************************************************************************)
(* Which worker label holds what: a delivery label holds a message, only a *)
(* dispatching drain has callbacks left, and a delivery that is about to   *)
(* be retried has budget left.                                             *)
(***************************************************************************)
JobMatchesLabel ==
  \A w \in Worker :
    /\ pc[w] \in Handling => job[w] \in Message
    /\ pc[w] \notin Handling => job[w] = None
    /\ pc[w] # "dispatching" => todo[w] = {}
    /\ pc[w] = "retrying" => job[w].retries + 1 < MaxAttempts

Typed == TypeOK /\ JobMatchesLabel

\* Every step keeps the types and the labels consistent.
LEMMA TypedStep == Typed /\ [Next]_vars => Typed'
<1> SUFFICES ASSUME Typed, [Next]_vars PROVE Typed'
  OBVIOUS
<1> USE DEF Typed
<1>1. ASSUME NEW e \in Event, Produce(e) PROVE Typed'
  BY <1>1, OneMoreDrainIsBounded
  DEF Produce, TypeOK, JobMatchesLabel, workers, history, counters
<1>2. CASE Sweep
  BY <1>2, BoundsAssumption
  DEF Sweep, TypeOK, JobMatchesLabel, tables, workers, history, counters
<1>3. ASSUME NEW w \in Worker, StartDrain(w) PROVE Typed'
  <2>1. PICK S \in OldestRows :
          /\ batch' = [batch EXCEPT ![w] = S]
          /\ pc' = [pc EXCEPT ![w] = IF S = {} THEN "drained" ELSE "claimed"]
    BY <1>3 DEF StartDrain, Goto
  <2>2. S \subseteq recorded /\ recorded' = recorded
    BY <1>3, OldestRowsAreClaimable DEF StartDrain, tables
  <2>3. batch' \in [Worker -> SUBSET recorded']
    BY <2>1, <2>2 DEF TypeOK
  <2>4. pc' \in [Worker -> Labels]
    BY <2>1 DEF TypeOK, Labels
  <2>5. drains' \in 0 .. MaxDrains
    BY <1>3, BoundsAssumption DEF StartDrain, TypeOK
  <2> QED
    BY <1>3, <2>1, <2>3, <2>4, <2>5
    DEF StartDrain, TypeOK, JobMatchesLabel, tables, history, counters,
        Labels, Handling
<1>4. ASSUME NEW w \in Worker, CommitDrain(w) PROVE Typed'
  BY <1>4, SubscribedPairsArePairs
  DEF CommitDrain, Goto, TypeOK, JobMatchesLabel, broker, history, counters,
      Labels, Handling
<1>5. ASSUME NEW w \in Worker, Dispatch(w) PROVE Typed'
  <2>1. PICK p \in todo[w] :
          /\ Queue([event |-> p[1], handler |-> p[2], retries |-> 0])
          /\ todo' = [todo EXCEPT ![w] = @ \ {p}]
    BY <1>5 DEF Dispatch
  <2>2. deliveries' \in [Message -> Nat]
    BY <2>1, MessageForPair, QueueAddsOne, BudgetAssumption DEF TypeOK
  <2>3. todo' \in [Worker -> SUBSET Pair]
    BY <2>1 DEF TypeOK
  <2> QED
    BY <1>5, <2>1, <2>2, <2>3
    DEF Dispatch, TypeOK, JobMatchesLabel, tables, history, counters
<1>6. ASSUME NEW w \in Worker, BrokerRefuses(w) PROVE Typed'
  BY <1>6, BoundsAssumption
  DEF BrokerRefuses, Goto, TypeOK, JobMatchesLabel, tables, broker,
      Labels, Handling
<1>7. ASSUME NEW w \in Worker, FinishDrain(w) PROVE Typed'
  BY <1>7, OneMoreDrainIsBounded
  DEF FinishDrain, Goto, TypeOK, JobMatchesLabel, tables, history, counters,
      Labels, Handling
<1>8. ASSUME NEW w \in Worker, NEW m \in Message, StartDelivery(w, m)
      PROVE  Typed'
  BY <1>8
  DEF StartDelivery, Goto, TypeOK, JobMatchesLabel, tables, history, counters,
      Labels, Handling
<1>9. ASSUME NEW w \in Worker, Claim(w) PROVE Typed'
  BY <1>9
  DEF Claim, Goto, TypeOK, JobMatchesLabel, tables, broker, history, counters,
      Labels, Handling
<1>10. ASSUME NEW w \in Worker, Apply(w) PROVE Typed'
  BY <1>10, PairOfMessage
  DEF Apply, Goto, TypeOK, JobMatchesLabel, broker, history, counters,
      Labels, Handling
<1>11. ASSUME NEW w \in Worker, Raise(w) PROVE Typed'
  BY <1>11, PairOfMessage
  DEF Raise, Goto, TypeOK, JobMatchesLabel, tables, broker, counters,
      Labels, Handling
<1>12. ASSUME NEW w \in Worker, RecordFailure(w) PROVE Typed'
  <2>1. job[w] \in Message
    BY <1>12 DEF RecordFailure, JobMatchesLabel, Handling
  <2> QED
    BY <1>12, <2>1, PairOfMessage, BudgetAssumption
    DEF RecordFailure, Goto, TypeOK, JobMatchesLabel, broker, counters,
        Labels, Handling
<1>13. ASSUME NEW w \in Worker, Retry(w) PROVE Typed'
  <2>1. job[w] \in Message /\ job[w].retries + 1 < MaxAttempts
    BY <1>13 DEF Retry, JobMatchesLabel, Handling
  <2>2. deliveries' \in [Message -> Nat]
    BY <1>13, <2>1, PairOfMessage, QueueAddsOne, BudgetAssumption
    DEF Retry, TypeOK, Message
  <2> QED
    BY <1>13, <2>2
    DEF Retry, Goto, TypeOK, JobMatchesLabel, tables, history, counters,
        Labels, Handling
<1>14. ASSUME NEW w \in Worker, RetryRefused(w) PROVE Typed'
  BY <1>14, PairOfMessage, BoundsAssumption
  DEF RetryRefused, Goto, TypeOK, JobMatchesLabel, tables, broker,
      Labels, Handling
<1>15. ASSUME NEW w \in Worker, Ack(w) PROVE Typed'
  BY <1>15
  DEF Ack, Goto, TypeOK, JobMatchesLabel, tables, broker, history, counters,
      Labels, Handling
<1>16. ASSUME NEW w \in Worker, Crash(w) PROVE Typed'
  BY <1>16, OneMoreDrainIsBounded, BoundsAssumption
  DEF Crash, Queue, Goto, TypeOK, JobMatchesLabel, tables,
      Labels, Handling
<1>17. ASSUME NEW a \in Admin, NEW S \in SUBSET Event, SelectDead(a, S)
       PROVE  Typed'
  BY <1>17, BoundsAssumption
  DEF SelectDead, TypeOK, JobMatchesLabel, tables, broker, workers, history
<1>18. ASSUME NEW a \in Admin, NEW e \in Event, Requeue(a, e) PROVE Typed'
  BY <1>18
  DEF Requeue, TypeOK, JobMatchesLabel, broker, workers, counters
<1>19. CASE UNCHANGED vars
  BY <1>19
  DEF vars, tables, broker, workers, history, counters, TypeOK, JobMatchesLabel
<1> QED
  BY <1>1, <1>2, <1>3, <1>4, <1>5, <1>6, <1>7, <1>8, <1>9, <1>10, <1>11,
     <1>12, <1>13, <1>14, <1>15, <1>16, <1>17, <1>18, <1>19
  DEF Next, DrainStep, DeliveryStep

\* The initial tables, queues and workers are well typed.
LEMMA TypedInit == Init => Typed
BY BoundsAssumption
DEF Init, Typed, TypeOK, JobMatchesLabel, Labels, Handling

LEMMA TypedAlways == Spec => []Typed
BY TypedInit, TypedStep, PTL DEF Spec

\* Type correctness of the bus for every value of the constants.
THEOREM TypeCorrect == Spec => []TypeOK
<1>1. Typed => TypeOK
  BY DEF Typed
<1> QED
  BY <1>1, TypedAlways, PTL

-----------------------------------------------------------------------------
(***************************************************************************)
(* Concurrent drains.  The claim query skips locked rows, so the batches   *)
(* of two open transactions are disjoint; only a batch's own drain         *)
(* publishes its rows, so they stay unpublished while it is open.  The     *)
(* property is inductive as it stands.                                     *)
(***************************************************************************)
LEMMA DrainsStep ==
  Typed /\ DrainsAreDisjoint /\ [Next]_vars => DrainsAreDisjoint'
<1> SUFFICES ASSUME Typed, DrainsAreDisjoint, [Next]_vars
             PROVE  DrainsAreDisjoint'
  OBVIOUS
<1> USE DEF Typed, TypeOK
<1>1. ASSUME NEW w \in Worker, StartDrain(w) PROVE DrainsAreDisjoint'
  <2>1. PICK S \in OldestRows :
          /\ batch' = [batch EXCEPT ![w] = S]
          /\ pc' = [pc EXCEPT ![w] = IF S = {} THEN "drained" ELSE "claimed"]
    BY <1>1 DEF StartDrain, Goto
  <2>2. S \cap published = {} /\ S \cap Locked = {}
    BY OldestRowsAreClaimable
  <2>3. \A x \in Worker : pc[x] = "claimed" => S \cap batch[x] = {}
    BY <2>2 DEF Locked
  <2>4. pc[w] # "claimed" /\ published' = published
    BY <1>1 DEF StartDrain, tables
  <2> QED
    BY <2>1, <2>2, <2>3, <2>4 DEF DrainsAreDisjoint
<1>2. ASSUME NEW w \in Worker, CommitDrain(w) PROVE DrainsAreDisjoint'
  BY <1>2 DEF CommitDrain, Goto, DrainsAreDisjoint
<1>3. ASSUME NEW a \in Admin, NEW e \in Event, Requeue(a, e)
      PROVE  DrainsAreDisjoint'
  BY <1>3 DEF Requeue, workers, DrainsAreDisjoint
<1>4. ASSUME NEW w \in Worker, Ack(w) \/ Crash(w) PROVE DrainsAreDisjoint'
  BY <1>4 DEF Ack, Crash, Goto, tables, DrainsAreDisjoint
<1>5. ASSUME NEW w \in Worker,
             \/ BrokerRefuses(w) \/ FinishDrain(w) \/ DeliveryStep(w)
             \/ RetryRefused(w)
             \/ \E m \in Message : StartDelivery(w, m)
      PROVE  DrainsAreDisjoint'
  <2>1. /\ \E l \in Labels \ {"claimed"} : pc' = [pc EXCEPT ![w] = l]
        /\ batch' = batch /\ published' = published
    BY <1>5
    DEF BrokerRefuses, FinishDrain, DeliveryStep, Claim, Apply, Raise,
        RecordFailure, Retry, RetryRefused, StartDelivery, Goto, tables, Labels
  <2> QED
    BY <2>1 DEF DrainsAreDisjoint
<1>6. ASSUME \/ \E e \in Event : Produce(e)
             \/ Sweep
             \/ \E w \in Worker : Dispatch(w)
             \/ \E a \in Admin, S \in SUBSET Event : SelectDead(a, S)
             \/ UNCHANGED vars
      PROVE  DrainsAreDisjoint'
  BY <1>6
  DEF Produce, Sweep, Dispatch, SelectDead, vars, tables, workers,
      DrainsAreDisjoint
<1> QED
  BY <1>1, <1>2, <1>3, <1>4, <1>5, <1>6 DEF Next, DrainStep

\* Concurrent drains take disjoint, still unpublished batches.
THEOREM DrainsStayDisjoint == Spec => []DrainsAreDisjoint
<1>1. Init => DrainsAreDisjoint
  BY DEF Init, DrainsAreDisjoint
<1> QED
  BY <1>1, TypedAlways, DrainsStep, PTL DEF Spec

-----------------------------------------------------------------------------
(***************************************************************************)
(* Exactly-once effect.  The property needs one strengthening: a worker    *)
(* inside apply_once holds the only uncommitted claim of its pair, and no  *)
(* claim of that pair has committed before.                                *)
(***************************************************************************)
ClaimsAreExclusive ==
  \A w \in Worker : pc[w] = "applying" =>
    /\ PairOf(job[w]) \notin ledger
    /\ \A x \in Worker \ {w} : ~HoldsClaim(x, PairOf(job[w]))

OnceInv == EffectOncePerClaim /\ ClaimsAreExclusive

LEMMA OnceStep == Typed /\ OnceInv /\ [Next]_vars => OnceInv'
<1> SUFFICES ASSUME Typed, OnceInv, [Next]_vars
             PROVE  OnceInv'
  OBVIOUS
<1> USE DEF Typed, TypeOK, OnceInv
<1>1. ASSUME NEW w \in Worker, Claim(w) PROVE OnceInv'
  <2>1. EffectOncePerClaim'
    BY <1>1 DEF Claim, tables, EffectOncePerClaim
  <2>2. ClaimsAreExclusive'
    BY <1>1 DEF Claim, Goto, tables, ClaimsAreExclusive, HoldsClaim
  <2> QED
    BY <2>1, <2>2
<1>2. ASSUME NEW w \in Worker, Apply(w) PROVE OnceInv'
  <2> DEFINE p == PairOf(job[w])
  <2>1. p \in Pair /\ p \notin ledger
    BY <1>2, PairOfMessage
    DEF Apply, JobMatchesLabel, Handling, ClaimsAreExclusive
  <2>2. /\ ledger' = ledger \cup {p}
        /\ effects' = [effects EXCEPT ![p] = @ + 1]
    BY <1>2 DEF Apply
  <2>3. EffectOncePerClaim'
    BY <2>1, <2>2 DEF EffectOncePerClaim
  <2>4. ClaimsAreExclusive'
    BY <1>2, <2>2 DEF Apply, Goto, ClaimsAreExclusive, HoldsClaim
  <2> QED
    BY <2>3, <2>4
<1>3. ASSUME NEW w \in Worker,
             \/ StartDrain(w) \/ CommitDrain(w) \/ BrokerRefuses(w)
             \/ FinishDrain(w) \/ Raise(w) \/ RecordFailure(w) \/ Retry(w)
             \/ RetryRefused(w)
             \/ \E m \in Message : StartDelivery(w, m)
             \/ Ack(w) \/ Crash(w)
      PROVE  OnceInv'
  <2>1. /\ \E l \in Labels \ {"applying"} : pc' = [pc EXCEPT ![w] = l]
        /\ \A x \in Worker \ {w} : job'[x] = job[x]
        /\ ledger' = ledger /\ effects' = effects
    BY <1>3
    DEF StartDrain, CommitDrain, BrokerRefuses, FinishDrain, Raise,
        RecordFailure, Retry, RetryRefused, StartDelivery, Ack, Crash, Goto,
        tables, Labels
  <2>2. EffectOncePerClaim'
    BY <2>1 DEF EffectOncePerClaim
  <2>3. ClaimsAreExclusive'
    BY <2>1 DEF ClaimsAreExclusive, HoldsClaim
  <2> QED
    BY <2>2, <2>3
<1>4. ASSUME \/ \E e \in Event : Produce(e)
             \/ Sweep
             \/ \E w \in Worker : Dispatch(w)
             \/ \E a \in Admin, S \in SUBSET Event : SelectDead(a, S)
             \/ \E a \in Admin, e \in Event : Requeue(a, e)
             \/ UNCHANGED vars
      PROVE  OnceInv'
  <2>1. pc' = pc /\ job' = job /\ ledger' = ledger /\ effects' = effects
    BY <1>4
    DEF Produce, Sweep, Dispatch, SelectDead, Requeue, vars, tables, workers
  <2> QED
    BY <2>1 DEF EffectOncePerClaim, ClaimsAreExclusive, HoldsClaim
<1> QED
  BY <1>1, <1>2, <1>3, <1>4 DEF Next, DrainStep, DeliveryStep

LEMMA OnceAlways == Spec => []OnceInv
<1>1. Init => OnceInv
  BY DEF Init, OnceInv, EffectOncePerClaim, ClaimsAreExclusive
<1> QED
  BY <1>1, TypedAlways, OnceStep, PTL DEF Spec

\* apply_once commits the writes of a handler once per claimed event and
\* never without the claim, whatever is redelivered, retried or replayed.
THEOREM EffectsAreExactlyOnce == Spec => []EffectOncePerClaim
<1>1. OnceInv => EffectOncePerClaim
  BY DEF OnceInv
<1> QED
  BY <1>1, OnceAlways, PTL

-----------------------------------------------------------------------------
(***************************************************************************)
(* Deliveries in flight are due: they name a recorded row and one of its   *)
(* subscribers, and their handler has raised at least as often as their    *)
(* retry count says.                                                       *)
(***************************************************************************)
Due(m) == /\ PairOf(m) \in SubscribedPairs(recorded)
          /\ failures[PairOf(m)] >= m.retries

DeliveriesAreDue ==
  /\ \A m \in Message : deliveries[m] > 0 => Due(m)
  /\ \A w \in Worker :
       /\ pc[w] \in Handling => Due(job[w])
       /\ pc[w] \in {"failed", "retrying"} =>
            failures[PairOf(job[w])] >= job[w].retries + 1
       /\ todo[w] \subseteq SubscribedPairs(recorded)

DueInv == DeliveriesAreDue /\ BudgetIsHonoured

LEMMA DueStep == Typed /\ DueInv /\ [Next]_vars => DueInv'
<1> SUFFICES ASSUME Typed, DueInv, [Next]_vars
             PROVE  DueInv'
  OBVIOUS
<1> USE DEF Typed, TypeOK, DueInv
<1>1. ASSUME NEW e \in Event, Produce(e) PROVE DueInv'
  BY <1>1
  DEF Produce, workers, history, DeliveriesAreDue, BudgetIsHonoured, Due,
      SubscribedPairs
<1>2. ASSUME NEW w \in Worker, StartDrain(w) PROVE DueInv'
  <2>1. PICK S \in OldestRows :
          /\ batch' = [batch EXCEPT ![w] = S]
          /\ pc' = [pc EXCEPT ![w] = IF S = {} THEN "drained" ELSE "claimed"]
    BY <1>2 DEF StartDrain, Goto
  <2>2. S \subseteq recorded
    BY OldestRowsAreClaimable
  <2> QED
    BY <1>2, <2>1, <2>2
    DEF StartDrain, tables, history, DeliveriesAreDue, BudgetIsHonoured, Due,
        Handling
<1>3. ASSUME NEW w \in Worker, CommitDrain(w) PROVE DueInv'
  <2>1. SubscribedPairs(batch[w]) \subseteq SubscribedPairs(recorded)
    BY DEF SubscribedPairs
  <2> QED
    BY <1>3, <2>1
    DEF CommitDrain, Goto, broker, history, DeliveriesAreDue,
        BudgetIsHonoured, Due, Handling
<1>4. ASSUME NEW w \in Worker, Dispatch(w) PROVE DueInv'
  <2>1. PICK p \in todo[w] :
          /\ Queue([event |-> p[1], handler |-> p[2], retries |-> 0])
          /\ todo' = [todo EXCEPT ![w] = @ \ {p}]
    BY <1>4 DEF Dispatch
  <2> DEFINE n == [event |-> p[1], handler |-> p[2], retries |-> 0]
  <2>2. n \in Message /\ PairOf(n) = p /\ n.retries = 0
    BY MessageForPair, BudgetAssumption
  <2>3. Due(n)
    BY <2>2 DEF Due, DeliveriesAreDue
  <2>4. \A m \in Message : m # n => deliveries'[m] = deliveries[m]
    BY <2>1, <2>2, QueueAddsOne
  <2> HIDE DEF n
  <2> QED
    BY <1>4, <2>1, <2>3, <2>4
    DEF Dispatch, tables, history, DeliveriesAreDue, BudgetIsHonoured, Due
<1>5. ASSUME NEW w \in Worker, BrokerRefuses(w) PROVE DueInv'
  BY <1>5
  DEF BrokerRefuses, Goto, tables, broker, DeliveriesAreDue, BudgetIsHonoured,
      Due, Handling
<1>6. ASSUME NEW w \in Worker, FinishDrain(w) PROVE DueInv'
  BY <1>6
  DEF FinishDrain, Goto, tables, history, DeliveriesAreDue, BudgetIsHonoured,
      Due, Handling
<1>7. ASSUME NEW w \in Worker, NEW m \in Message, StartDelivery(w, m)
      PROVE  DueInv'
  BY <1>7
  DEF StartDelivery, Goto, tables, history, DeliveriesAreDue,
      BudgetIsHonoured, Due, Handling
<1>8. ASSUME NEW w \in Worker, Claim(w) PROVE DueInv'
  BY <1>8
  DEF Claim, Goto, tables, broker, history, DeliveriesAreDue,
      BudgetIsHonoured, Due, Handling
<1>9. ASSUME NEW w \in Worker, Apply(w) PROVE DueInv'
  BY <1>9
  DEF Apply, Goto, broker, history, DeliveriesAreDue, BudgetIsHonoured, Due,
      Handling
<1>10. ASSUME NEW w \in Worker, Raise(w) PROVE DueInv'
  <2>1. job[w] \in Message /\ failures[PairOf(job[w])] >= job[w].retries
    BY <1>10 DEF Raise, JobMatchesLabel, Handling, DeliveriesAreDue, Due
  <2>2. /\ \A p \in Pair : failures'[p] \in Nat /\ failures'[p] >= failures[p]
        /\ failures'[PairOf(job[w])] >= job[w].retries + 1
    BY <1>10, <2>1, PairOfMessage DEF Raise
  <2>3. \A m \in Message : Due(m) => Due(m)'
    BY <1>10, <2>2, PairOfMessage DEF Raise, tables, Due
  <2>4. DeliveriesAreDue'
    <3>1. UNCHANGED <<recorded, deliveries, job, batch, todo>>
      BY <1>10 DEF Raise, tables, broker
    <3>2. \A x \in Worker : pc[x] \in Handling => Due(job[x]) /\ Due(job[x])'
      BY <2>3, <3>1 DEF DeliveriesAreDue, JobMatchesLabel, Due
    <3>3. \A x \in Worker : pc[x] \in {"failed", "retrying"} =>
            failures'[PairOf(job[x])] >= job[x].retries + 1
      BY <2>2, PairOfMessage DEF DeliveriesAreDue, JobMatchesLabel, Handling
    <3>4. pc' = [pc EXCEPT ![w] = "failed"] /\ pc[w] = "applying"
      BY <1>10 DEF Raise, Goto
    <3> QED
      BY <2>2, <2>3, <3>1, <3>2, <3>3, <3>4
      DEF DeliveriesAreDue, Handling, Due
  <2>5. BudgetIsHonoured'
    <3>1. UNCHANGED <<dead, spent>>
      BY <1>10 DEF Raise, tables
    <3>2. \A e \in Event, h \in Handler :
            failures'[<<e, h>>] \in Nat /\ failures[<<e, h>>] \in Nat
            /\ failures'[<<e, h>>] >= failures[<<e, h>>]
      BY <2>2 DEF Pair
    <3> QED
      BY <3>1, <3>2, BudgetAssumption DEF BudgetIsHonoured
  <2> QED
    BY <2>4, <2>5
<1>11. ASSUME NEW w \in Worker, RecordFailure(w) PROVE DueInv'
  <2>1. job[w] \in Message /\ failures[PairOf(job[w])] >= job[w].retries + 1
    BY <1>11 DEF RecordFailure, JobMatchesLabel, Handling, DeliveriesAreDue
  <2>2. DeliveriesAreDue'
    <3>1. UNCHANGED <<recorded, deliveries, job, batch, todo, failures>>
      BY <1>11 DEF RecordFailure, broker
    <3>2. /\ pc[w] = "failed"
          /\ \E l \in {"handled", "retrying"} : pc' = [pc EXCEPT ![w] = l]
      BY <1>11 DEF RecordFailure, Goto
    <3> QED
      BY <3>1, <3>2 DEF DeliveriesAreDue, Due, Handling
  <2>3. BudgetIsHonoured'
    <3> DEFINE e == job[w].event
               h == job[w].handler
    <3>1. /\ failures' = failures
          /\ \/ dead' = dead /\ spent' = spent
             \/ /\ job[w].retries + 1 >= MaxAttempts
                /\ dead' = dead \cup {e} /\ spent' = spent \cup {PairOf(job[w])}
      BY <1>11 DEF RecordFailure
    <3>2. h \in Handler /\ PairOf(job[w]) = <<e, h>> /\ job[w].retries \in Nat
          /\ failures[<<e, h>>] \in Nat
      BY <2>1, PairOfMessage
    <3>3. job[w].retries + 1 >= MaxAttempts => failures[<<e, h>>] >= MaxAttempts
      BY <2>1, <3>2, BudgetAssumption
    <3> HIDE DEF e, h
    <3> QED
      BY <3>1, <3>2, <3>3 DEF BudgetIsHonoured
  <2> QED
    BY <2>2, <2>3
<1>12. ASSUME NEW w \in Worker, Retry(w) PROVE DueInv'
  <2> DEFINE m == job[w]
             n == [event |-> m.event, handler |-> m.handler,
                   retries |-> m.retries + 1]
  <2>1. /\ m \in Message /\ m.retries + 1 < MaxAttempts
        /\ Due(m) /\ failures[PairOf(m)] >= m.retries + 1
    BY <1>12 DEF Retry, JobMatchesLabel, Handling, DeliveriesAreDue
  <2>2. n \in Message /\ PairOf(n) = PairOf(m) /\ n.retries = m.retries + 1
    BY <2>1, PairOfMessage, BudgetAssumption DEF Message, PairOf
  <2>3. Due(n)
    BY <2>1, <2>2 DEF Due
  <2>4. \A k \in Message : k # n => deliveries'[k] = deliveries[k]
    BY <1>12, <2>2, QueueAddsOne DEF Retry
  <2> HIDE DEF n, m
  <2> QED
    BY <1>12, <2>3, <2>4
    DEF Retry, Goto, tables, history, DeliveriesAreDue, BudgetIsHonoured, Due,
        Handling
<1>13. ASSUME NEW w \in Worker, RetryRefused(w) PROVE DueInv'
  BY <1>13
  DEF RetryRefused, Goto, tables, broker, DeliveriesAreDue, BudgetIsHonoured,
      Due, Handling
<1>14. ASSUME NEW w \in Worker, Ack(w) PROVE DueInv'
  BY <1>14
  DEF Ack, Goto, tables, broker, history, DeliveriesAreDue, BudgetIsHonoured,
      Due, Handling
<1>15. ASSUME NEW w \in Worker, Crash(w) PROVE DueInv'
  <2>1. \A m \in Message : deliveries'[m] > 0 => Due(m)
    <3>1. CASE job[w] = None
      BY <1>15, <3>1 DEF Crash, DeliveriesAreDue
    <3>2. CASE job[w] # None
      <4>1. job[w] \in Message /\ Due(job[w]) /\ Queue(job[w])
        BY <1>15, <3>2 DEF Crash, JobMatchesLabel, DeliveriesAreDue
      <4> QED
        BY <4>1, QueueAddsOne DEF DeliveriesAreDue
    <3> QED
      BY <3>1, <3>2
  <2> QED
    BY <1>15, <2>1
    DEF Crash, Goto, tables, DeliveriesAreDue, BudgetIsHonoured, Due, Handling
<1>16. ASSUME NEW a \in Admin, NEW e \in Event, Requeue(a, e) PROVE DueInv'
  BY <1>16
  DEF Requeue, broker, workers, DeliveriesAreDue, BudgetIsHonoured, Due
<1>17. ASSUME \/ Sweep
              \/ \E a \in Admin, S \in SUBSET Event : SelectDead(a, S)
              \/ UNCHANGED vars
       PROVE  DueInv'
  <2>1. UNCHANGED <<tables, deliveries, workers, history>>
    BY <1>17 DEF Sweep, SelectDead, vars, broker
  <2> QED
    BY <2>1
    DEF tables, workers, history, DeliveriesAreDue, BudgetIsHonoured, Due
<1> QED
  BY <1>1, <1>2, <1>3, <1>4, <1>5, <1>6, <1>7, <1>8, <1>9, <1>10, <1>11,
     <1>12, <1>13, <1>14, <1>15, <1>16, <1>17
  DEF Next, DrainStep, DeliveryStep

LEMMA DueAlways == Spec => []DueInv
<1>1. Init => DueInv
  BY DEF Init, DueInv, DeliveriesAreDue, BudgetIsHonoured, Handling
<1> QED
  BY <1>1, TypedAlways, DueStep, PTL DEF Spec

\* A row is dead-lettered only for a delivery whose handler has raised
\* MaxAttempts times.
THEOREM DeadLetterIsALastResort == Spec => []BudgetIsHonoured
<1>1. DueInv => BudgetIsHonoured
  BY DEF DueInv
<1> QED
  BY <1>1, DueAlways, PTL

-----------------------------------------------------------------------------
(***************************************************************************)
(* No delivery disappears.  Accounted(p) is the fate NothingElseIsLost     *)
(* allows a published pair.  A step either leaves p's whereabouts alone or *)
(* moves p from one of them to the next; the lemma says so of every step,  *)
(* and the two steps that change what is published are treated apart.      *)
(***************************************************************************)
Accounted(p) ==
  \/ p \in ledger \/ Queued(p) \/ InHand(p)
  \/ p \in spent /\ p[1] \in dead
  \/ p \in dropped

\* Queueing a message never hides another one.
LEMMA QueueKeepsQueued ==
  ASSUME Typed, NEW n \in Message, Queue(n), NEW p
  PROVE  /\ Queued(p) => Queued(p)'
         /\ p = PairOf(n) => Queued(p)'
BY QueueAddsOne DEF Queued, Typed, TypeOK, PairOf

LEMMA AccountedStep ==
  ASSUME Typed, [Next]_vars, NEW p \in Pair, Accounted(p)
  PROVE  Accounted(p)' \/ p[1] \notin published'
<1> USE DEF Typed, TypeOK
<1>1. ASSUME NEW w \in Worker,
             StartDrain(w) \/ CommitDrain(w) \/ FinishDrain(w)
      PROVE  Accounted(p)'
  <2>1. /\ UNCHANGED <<ledger, deliveries, job, spent, dead, dropped>>
        /\ pc[w] \notin Handling
        /\ \E l \in Labels \ Handling : pc' = [pc EXCEPT ![w] = l]
        /\ \A x \in Worker : todo[x] \subseteq todo'[x]
    BY <1>1
    DEF StartDrain, CommitDrain, FinishDrain, Goto, tables, broker, history,
        Labels, Handling, JobMatchesLabel
  <2> QED
    BY <2>1 DEF Accounted, Queued, InHand
<1>2. ASSUME NEW w \in Worker, Dispatch(w) PROVE Accounted(p)'
  <2>1. PICK q \in todo[w] :
          /\ Queue([event |-> q[1], handler |-> q[2], retries |-> 0])
          /\ todo' = [todo EXCEPT ![w] = @ \ {q}]
    BY <1>2 DEF Dispatch
  <2>2. /\ UNCHANGED <<ledger, job, pc, spent, dead, dropped>>
    BY <1>2 DEF Dispatch, tables, history
  <2>3. (Queued(p) => Queued(p)') /\ Queued(q)'
    BY <2>1, MessageForPair, QueueKeepsQueued, BudgetAssumption
  <2>4. InHand(p) /\ p # q => InHand(p)'
    BY <2>1, <2>2 DEF InHand
  <2> QED
    BY <2>2, <2>3, <2>4 DEF Accounted
<1>3. ASSUME NEW w \in Worker, BrokerRefuses(w) PROVE Accounted(p)'
  <2>1. /\ UNCHANGED <<ledger, deliveries, job, spent, dead>>
        /\ dropped' = dropped \cup todo[w]
        /\ todo' = [todo EXCEPT ![w] = {}]
        /\ pc[w] = "dispatching" /\ pc' = [pc EXCEPT ![w] = "drained"]
    BY <1>3 DEF BrokerRefuses, Goto, tables, broker
  <2> QED
    BY <2>1 DEF Accounted, Queued, InHand, Handling
<1>4. ASSUME NEW w \in Worker, NEW m \in Message, StartDelivery(w, m)
      PROVE  Accounted(p)'
  <2>1. /\ UNCHANGED <<ledger, todo, spent, dead, dropped>>
        /\ deliveries' = [deliveries EXCEPT ![m] = @ - 1]
        /\ pc[w] = "idle" /\ pc' = [pc EXCEPT ![w] = "received"]
        /\ job' = [job EXCEPT ![w] = m]
    BY <1>4 DEF StartDelivery, Goto, tables, history
  <2>2. InHand(p) => InHand(p)'
    BY <2>1 DEF InHand, Handling
  <2>3. InHand(PairOf(m))'
    BY <2>1 DEF InHand, Handling, PairOf
  <2>4. Queued(p) /\ p # PairOf(m) => Queued(p)'
    BY <2>1 DEF Queued, PairOf
  <2> QED
    BY <2>1, <2>2, <2>3, <2>4 DEF Accounted
<1>5. ASSUME NEW w \in Worker, Claim(w) \/ Apply(w) \/ Raise(w)
      PROVE  Accounted(p)'
  <2>1. /\ UNCHANGED <<deliveries, job, todo, spent, dead, dropped>>
        /\ ledger \subseteq ledger'
        /\ pc[w] \in {"received", "applying"}
        /\ \/ pc' = [pc EXCEPT ![w] = "handled"] /\ PairOf(job[w]) \in ledger'
           \/ pc' = [pc EXCEPT ![w] = "applying"]
           \/ pc' = [pc EXCEPT ![w] = "failed"]
    BY <1>5 DEF Claim, Apply, Raise, Goto, tables, broker, history
  <2> QED
    BY <2>1 DEF Accounted, Queued, InHand, Handling
<1>6. ASSUME NEW w \in Worker, RecordFailure(w) PROVE Accounted(p)'
  <2>1. /\ UNCHANGED <<ledger, deliveries, job, todo, dropped>>
        /\ spent \subseteq spent' /\ dead \subseteq dead'
        /\ pc[w] = "failed" /\ job[w] \in Message
        /\ \/ /\ pc' = [pc EXCEPT ![w] = "handled"]
              /\ PairOf(job[w]) \in spent' /\ job[w].event \in dead'
           \/ pc' = [pc EXCEPT ![w] = "retrying"]
    BY <1>6 DEF RecordFailure, Goto, broker, JobMatchesLabel, Handling
  <2>2. PairOf(job[w])[1] = job[w].event
    BY DEF PairOf
  <2> QED
    BY <2>1, <2>2 DEF Accounted, Queued, InHand, Handling
<1>7. ASSUME NEW w \in Worker, Retry(w) PROVE Accounted(p)'
  <2> DEFINE m == job[w]
             n == [event |-> m.event, handler |-> m.handler,
                   retries |-> m.retries + 1]
  <2>1. /\ UNCHANGED <<ledger, job, todo, spent, dead, dropped>>
        /\ pc[w] = "retrying" /\ pc' = [pc EXCEPT ![w] = "handled"]
        /\ m \in Message /\ m.retries + 1 < MaxAttempts /\ Queue(n)
    BY <1>7 DEF Retry, Goto, tables, history, JobMatchesLabel, Handling
  <2>2. n \in Message /\ PairOf(n) = PairOf(m)
    BY <2>1, PairOfMessage, BudgetAssumption DEF Message, PairOf
  <2>3. (Queued(p) => Queued(p)') /\ Queued(PairOf(m))'
    BY <2>1, <2>2, QueueKeepsQueued
  <2>4. InHand(p) => InHand(p)' \/ p = PairOf(m)
    BY <2>1 DEF InHand, Handling
  <2> QED
    BY <2>1, <2>3, <2>4 DEF Accounted
<1>8. ASSUME NEW w \in Worker, RetryRefused(w) PROVE Accounted(p)'
  <2>1. /\ UNCHANGED <<ledger, deliveries, job, todo, spent, dead>>
        /\ dropped' = dropped \cup {PairOf(job[w])}
        /\ pc[w] = "retrying" /\ pc' = [pc EXCEPT ![w] = "handled"]
    BY <1>8 DEF RetryRefused, Goto, tables, broker
  <2> QED
    BY <2>1 DEF Accounted, Queued, InHand, Handling
<1>9. ASSUME NEW w \in Worker, Ack(w) PROVE Accounted(p)'
  <2>1. /\ UNCHANGED <<ledger, deliveries, todo, spent, dead, dropped>>
        /\ pc[w] \in {"drained", "handled"}
        /\ pc' = [pc EXCEPT ![w] = "idle"]
        /\ job' = [job EXCEPT ![w] = None]
    BY <1>9 DEF Ack, Goto, tables, broker, history
  <2> QED
    BY <2>1 DEF Accounted, Queued, InHand, Handling
<1>10. ASSUME NEW w \in Worker, Crash(w) PROVE Accounted(p)'
  <2>1. /\ UNCHANGED <<ledger, spent, dead>>
        /\ dropped' = dropped \cup todo[w]
        /\ pc' = [pc EXCEPT ![w] = "idle"]
        /\ job' = [job EXCEPT ![w] = None]
        /\ todo' = [todo EXCEPT ![w] = {}]
    BY <1>10 DEF Crash, Goto, tables
  <2>2. InHand(p) => \/ InHand(p)' \/ p \in todo[w]
                     \/ pc[w] \in Handling /\ p = PairOf(job[w])
    BY <2>1 DEF InHand
  <2>3. CASE job[w] = None
    <3>1. deliveries' = deliveries /\ pc[w] \notin Handling
      BY <1>10, <2>3, NoneAssumption DEF Crash, JobMatchesLabel
    <3> QED
      BY <2>1, <2>2, <3>1 DEF Accounted, Queued
  <2>4. CASE job[w] # None
    <3>1. job[w] \in Message /\ Queue(job[w])
      BY <1>10, <2>4 DEF Crash
    <3>2. Queued(p) \/ p = PairOf(job[w]) => Queued(p)'
      BY <3>1, QueueKeepsQueued
    <3> QED
      BY <2>1, <2>2, <3>2 DEF Accounted
  <2> QED
    BY <2>3, <2>4
<1>11. ASSUME NEW a \in Admin, NEW e \in Event, Requeue(a, e)
       PROVE  Accounted(p)' \/ p[1] \notin published'
  <2>1. CASE p[1] = e
    BY <1>11, <2>1 DEF Requeue
  <2>2. CASE p[1] # e
    BY <1>11, <2>2
    DEF Requeue, broker, workers, Accounted, Queued, InHand
  <2> QED
    BY <2>1, <2>2
<1>12. ASSUME \/ \E e \in Event : Produce(e)
              \/ Sweep
              \/ \E a \in Admin, S \in SUBSET Event : SelectDead(a, S)
              \/ UNCHANGED vars
       PROVE  Accounted(p)'
  <2>1. UNCHANGED <<ledger, deliveries, pc, job, todo, spent, dead, dropped>>
    BY <1>12
    DEF Produce, Sweep, SelectDead, vars, tables, broker, workers, history
  <2> QED
    BY <2>1 DEF Accounted, Queued, InHand
<1> QED
  BY <1>1, <1>2, <1>3, <1>4, <1>5, <1>6, <1>7, <1>8, <1>9, <1>10, <1>11,
     <1>12
  DEF Next, DrainStep, DeliveryStep

LEMMA NothingLostStep ==
  Typed /\ NothingElseIsLost /\ [Next]_vars => NothingElseIsLost'
<1> SUFFICES ASSUME Typed, NothingElseIsLost, [Next]_vars,
                    NEW p \in SubscribedPairs(published')
             PROVE  Accounted(p)'
  BY DEF NothingElseIsLost, Accounted, SubscribedPairs
<1>1. p \in Pair /\ p[1] \in published' /\ p[2] \in Subscribers[p[1]]
  BY DEF SubscribedPairs
<1>2. CASE p[1] \in published
  <2>1. Accounted(p)
    BY <1>1, <1>2 DEF NothingElseIsLost, Accounted, SubscribedPairs
  <2> QED
    BY <1>1, <2>1, AccountedStep
<1>3. CASE p[1] \notin published
  <2>1. PICK w \in Worker : CommitDrain(w)
    BY <1>1, <1>3
    DEF Next, DrainStep, DeliveryStep, Produce, Sweep, StartDrain, Dispatch,
        BrokerRefuses, FinishDrain, StartDelivery, Claim, Apply, Raise,
        RecordFailure, Retry, RetryRefused, Ack, Crash, SelectDead, Requeue,
        vars, tables
  <2>2. p \in todo'[w]
    BY <1>1, <1>3, <2>1 DEF CommitDrain, SubscribedPairs, Typed, TypeOK
  <2> QED
    BY <2>2 DEF Accounted, InHand
<1> QED
  BY <1>2, <1>3

\* A published delivery is applied, on its way, given up with its row flagged,
\* or one of the callbacks that a crash or an outage kept from running.
THEOREM NoDeliveryDisappears == Spec => []NothingElseIsLost
<1>1. Init => NothingElseIsLost
  BY DEF Init, NothingElseIsLost, SubscribedPairs
<1> QED
  BY <1>1, TypedAlways, NothingLostStep, PTL DEF Spec

-----------------------------------------------------------------------------
(***************************************************************************)
(* The bus implements the abstract delivery promise: applying is taking    *)
(* effect, dead-lettering is flagging, re-queueing is replaying, and every *)
(* other step of the drain, the broker and the workers stutters.           *)
(***************************************************************************)
LEMMA StepKeepsPromise ==
  Typed /\ OnceInv /\ DueInv /\ [Next]_vars => [Promise!Next]_(Promise!vars)
<1> SUFFICES ASSUME Typed, OnceInv, DueInv, [Next]_vars
             PROVE  [Promise!Next]_(Promise!vars)
  OBVIOUS
<1> USE DEF Typed, TypeOK, Promise!Next, Promise!vars
<1>1. ASSUME NEW e \in Event, Produce(e) PROVE Promise!Record(e)
  BY <1>1 DEF Produce, Promise!Record
<1>2. ASSUME NEW w \in Worker, Apply(w)
      PROVE  Promise!TakeEffect(job[w].event, job[w].handler)
  <2> DEFINE p == PairOf(job[w])
  <2>1. job[w] \in Message /\ p \in SubscribedPairs(recorded)
    BY <1>2 DEF Apply, JobMatchesLabel, Handling, DueInv, DeliveriesAreDue, Due
  <2>2. p = <<job[w].event, job[w].handler>> /\ p \in Pair
    BY <2>1, PairOfMessage
  <2>3. effects[p] = 0
    BY <1>2, <2>2
    DEF Apply, OnceInv, EffectOncePerClaim, ClaimsAreExclusive
  <2> QED
    BY <1>2, <2>1, <2>2, <2>3
    DEF Apply, Promise!TakeEffect, SubscribedPairs
<1>3. ASSUME NEW w \in Worker, RecordFailure(w)
      PROVE  Promise!Flag(job[w].event) \/ UNCHANGED Promise!vars
  <2>1. /\ job[w] \in Message
        /\ PairOf(job[w]) \in SubscribedPairs(recorded)
    BY <1>3
    DEF RecordFailure, JobMatchesLabel, Handling, DueInv, DeliveriesAreDue, Due
  <2>2. job[w].event \in recorded /\ Subscribers[job[w].event] # {}
    BY <2>1 DEF SubscribedPairs, PairOf
  <2> QED
    BY <1>3, <2>2 DEF RecordFailure, Promise!Flag
<1>4. ASSUME NEW a \in Admin, NEW e \in Event, Requeue(a, e)
      PROVE  Promise!Replay(e) \/ UNCHANGED Promise!vars
  BY <1>4 DEF Requeue, Promise!Replay
<1>5. ASSUME NEW w \in Worker,
             \/ StartDrain(w) \/ DrainStep(w) \/ BrokerRefuses(w)
             \/ \E m \in Message : StartDelivery(w, m)
             \/ Claim(w) \/ Raise(w) \/ Retry(w) \/ RetryRefused(w)
             \/ Ack(w) \/ Crash(w)
      PROVE  UNCHANGED Promise!vars
  BY <1>5
  DEF StartDrain, DrainStep, CommitDrain, Dispatch, FinishDrain,
      BrokerRefuses, StartDelivery, Claim, Raise, Retry, RetryRefused, Ack,
      Crash, tables
<1>6. ASSUME \/ Sweep
             \/ \E a \in Admin, S \in SUBSET Event : SelectDead(a, S)
             \/ UNCHANGED vars
      PROVE  UNCHANGED Promise!vars
  BY <1>6 DEF Sweep, SelectDead, vars, tables
<1>7. ASSUME NEW w \in Worker, job[w] \in Message
      PROVE  job[w].event \in Event /\ job[w].handler \in Handler
  BY <1>7, PairOfMessage
<1>8. ASSUME NEW w \in Worker, Apply(w) \/ RecordFailure(w)
      PROVE  job[w] \in Message
  BY <1>8 DEF Apply, RecordFailure, JobMatchesLabel, Handling
<1> QED
  BY <1>1, <1>2, <1>3, <1>4, <1>5, <1>6, <1>7, <1>8 DEF Next, DeliveryStep

\* The outbox, the drain, the ledger, the retries and the re-queue together
\* implement EventDelivery.
THEOREM BusImplementsDelivery == Spec => KeepsPromise
<1>1. Init => Promise!Init
  BY DEF Init, Promise!Init, Pair
<1> QED
  BY <1>1, TypedAlways, OnceAlways, DueAlways, StepKeepsPromise, PTL
  DEF Spec, KeepsPromise, Promise!Spec

-----------------------------------------------------------------------------
(***************************************************************************)
(* What would make the two refuted claims true.  A delivery is never       *)
(* dispatched zero times if no worker dies and the broker refuses nothing; *)
(* a re-queue touches dead rows only if no row is in two operators' hands. *)
(***************************************************************************)
NothingFails == crashes = 0 /\ outages = 0

NothingIsDropped == dropped = {}

DisjointSelections ==
  \A a, b \in Admin : a # b => selected[a] \cap selected[b] = {}

SelectedAreDead == \A a \in Admin : selected[a] \subseteq dead

LEMMA NothingDroppedStep ==
  ASSUME Typed, dropped = {}, NothingFails', [Next]_vars
  PROVE  dropped' = {}
<1>1. \A w \in Worker :
        ~BrokerRefuses(w) /\ ~RetryRefused(w) /\ ~Crash(w)
  BY DEF Typed, TypeOK, NothingFails, BrokerRefuses, RetryRefused, Crash
<1>2. CASE \E a \in Admin, e \in Event : Requeue(a, e)
  BY <1>2 DEF Requeue
<1>3. CASE ~\E a \in Admin, e \in Event : Requeue(a, e)
  <2>1. dropped' = dropped
    BY <1>1, <1>3
    DEF Next, Produce, Sweep, StartDrain, DrainStep, CommitDrain, Dispatch,
        FinishDrain, StartDelivery, DeliveryStep, Claim, Apply, Raise,
        RecordFailure, Retry, Ack, SelectDead, history, vars
  <2> QED  BY <2>1
<1> QED  BY <1>2, <1>3

LEMMA SelectionsStep ==
  ASSUME Typed, SelectedAreDead, DisjointSelections, [Next]_vars
  PROVE  /\ SelectedAreDead'
         /\ \A e \in Event : e \in published /\ e \notin published' => e \in dead
<1> USE DEF SelectedAreDead
<1>1. CASE \E a \in Admin, S \in SUBSET Event : SelectDead(a, S)
  <2>1. PICK a \in Admin, S \in SUBSET Event : SelectDead(a, S)
    BY <1>1
  <2>2. /\ S \subseteq dead /\ dead' = dead /\ published' = published
        /\ selected' = [selected EXCEPT ![a] = S]
    BY <2>1 DEF SelectDead, tables
  <2> QED  BY <2>2 DEF Typed, TypeOK
<1>2. CASE \E a \in Admin, e \in Event : Requeue(a, e)
  <2>1. PICK a \in Admin, e \in Event : Requeue(a, e)
    BY <1>2
  <2>2. /\ e \in selected[a]
        /\ selected' = [selected EXCEPT ![a] = @ \ {e}]
        /\ published' = published \ {e} /\ dead' = dead \ {e}
    BY <2>1 DEF Requeue
  <2>3. \A b \in Admin \ {a} : e \notin selected[b]
    BY <2>2 DEF DisjointSelections
  <2> QED  BY <2>2, <2>3 DEF Typed, TypeOK
<1>3. CASE /\ ~\E a \in Admin, S \in SUBSET Event : SelectDead(a, S)
           /\ ~\E a \in Admin, e \in Event : Requeue(a, e)
  <2>1. /\ selected' = selected
        /\ dead \subseteq dead' /\ published \subseteq published'
    BY <1>3
    DEF Next, Produce, Sweep, StartDrain, DrainStep, CommitDrain, Dispatch,
        FinishDrain, BrokerRefuses, StartDelivery, DeliveryStep, Claim, Apply,
        Raise, RecordFailure, Retry, RetryRefused, Ack, Crash, tables, vars
  <2> QED  BY <2>1
<1> QED  BY <1>1, <1>2, <1>3

\* While no worker is killed and the broker takes every message, the drain
\* never dispatches zero times a row it has marked published, as its
\* docstring says: those two failures are the only exceptions to it.
THEOREM NothingIsDispatchedZeroTimes ==
  Spec /\ []NothingFails => []NeverDispatchedZeroTimes
<1>1. Init => NothingIsDropped
  BY DEF Init, NothingIsDropped
<1>2. Typed /\ NothingIsDropped /\ NothingFails' /\ [Next]_vars
        => NothingIsDropped'
  BY NothingDroppedStep DEF NothingIsDropped
<1>3. NothingElseIsLost /\ NothingIsDropped => NeverDispatchedZeroTimes
  BY DEF NothingElseIsLost, NothingIsDropped, NeverDispatchedZeroTimes
<1> QED
  BY <1>1, <1>2, <1>3, TypedAlways, NoDeliveryDisappears, PTL DEF Spec

\* When no row is in two operators' selections, a re-queue clears the
\* published flag of dead-lettered rows only, as its docstring says: a row
\* selected once is still dead when the operator's request comes to it.
THEOREM DisjointRequeuesAreSafe ==
  Spec /\ []DisjointSelections => OnlyDeadRowsAreRequeued
<1>1. Init => SelectedAreDead
  BY DEF Init, SelectedAreDead
<1>2. Typed /\ SelectedAreDead /\ DisjointSelections /\ [Next]_vars
        => SelectedAreDead'
  BY SelectionsStep
<1>3. Typed /\ SelectedAreDead /\ DisjointSelections /\ [Next]_vars
        => [\A e \in Event :
              e \in published /\ e \notin published' => e \in dead]_vars
  BY SelectionsStep
<1> QED
  BY <1>1, <1>2, <1>3, TypedAlways, PTL DEF Spec, OnlyDeadRowsAreRequeued
=============================================================================
