----------------------------- MODULE MCEventBus -----------------------------
(***************************************************************************)
(* Small instances of EventBus for TLC.                                    *)
(***************************************************************************)
EXTENDS EventBus, TLC

CONSTANTS h1, h2

\* The first event has two subscribers, a later one has one.
MCSubscribers == [e \in Event |-> IF e = 1 THEN Handler ELSE {h1}]

\* One subscriber of the first event can never apply it.
MCPoison == {<<1, h2>>}

\* The only subscriber of the first event can never apply it.
PoisonFirst == {<<1, h1>>}

WorkerSymmetry == Permutations(Worker) \cup Permutations(Admin)
=============================================================================
