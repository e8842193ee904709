----------------------------- MODULE MCRanking -----------------------------
(***************************************************************************)
(* Small instances of Ranking for TLC.                                     *)
(***************************************************************************)
EXTENDS Ranking, TLC

PoolSymmetry == Permutations(Worker)
=============================================================================
