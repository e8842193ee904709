----------------------------- MODULE MCScoring -----------------------------
(***************************************************************************)
(* Small instances of Scoring for TLC.                                     *)
(***************************************************************************)
EXTENDS Scoring, TLC

CONSTANTS v1, v2, amount1, b1, b2, k1, k2

\* The weights of the seed policy, others that fall on half cents, a set that
\* makes up 1 with weights below nothing, and one that does not.
Shipped == [deadline_pressure |-> 25, overdue_work |-> 20, criticality |-> 15,
            business_value |-> 15, blockage |-> 15, staleness |-> 10]
Urgency == [deadline_pressure |-> 33, overdue_work |-> 3, criticality |-> 31,
            business_value |-> 1, blockage |-> 25, staleness |-> 7]
Signed  == [deadline_pressure |-> 45, overdue_work |-> -30, criticality |-> 50,
            business_value |-> -45, blockage |-> 55, staleness |-> 25]
Short   == [Shipped EXCEPT !.staleness = 5]

Saved == {[weights |-> Shipped, scaled |-> TRUE], [weights |-> Urgency, scaled |-> FALSE],
          [weights |-> Signed, scaled |-> TRUE], [weights |-> Short, scaled |-> TRUE]}

Installed == (v1 :> [weights |-> Shipped, scaled |-> TRUE])
             @@ (v2 :> [weights |-> Urgency, scaled |-> FALSE])

\* A contract of half the logarithm of the reference value.
Logarithm == amount1 :> 5001

Keys == Permutations(Task) \cup Permutations(Blocker)
=============================================================================
