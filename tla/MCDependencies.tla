--------------------------- MODULE MCDependencies ---------------------------
(***************************************************************************)
(* Small instances of Dependencies for TLC.                                *)
(***************************************************************************)
EXTENDS Dependencies, TLC

Replacing(W) == [removed |-> None, wanted |-> W]

Moving(b) == [removed |-> b, wanted |-> None]

\* A removal, a restoration, or a set of at most one prerequisite.
OneAtATime ==
  {Moving(b) : b \in BOOLEAN} \cup {Replacing({})}
    \cup {Replacing({p}) : p \in Task}

\* The same, and a set of two.
UpToTwo == OneAtATime \cup {Replacing({1, 2})}

RequestSymmetry == Permutations(Session)
=============================================================================
