-------------------------- MODULE MCCommandCenter --------------------------
(***************************************************************************)
(* Small instances of CommandCenter for TLC.                               *)
(***************************************************************************)
EXTENDS CommandCenter, TLC

CONSTANTS near, far, mine, theirs

\* A task in each project, which share their owner.
Homes == (mine :> near) @@ (theirs :> far)
Alphabet == (near :> 1) @@ (far :> 2)

Symmetric == Permutations(Worker) \cup Permutations(Session)
=============================================================================
