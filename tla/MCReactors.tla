----------------------------- MODULE MCReactors -----------------------------
(***************************************************************************)
(* The bus with the deployed reactors on it: a producer on the work board, *)
(* one on the roster and the clock record one event each, and no handler   *)
(* fails for any reason but the event it is given.                         *)
(***************************************************************************)
EXTENDS EventBus, Reactors, TLC

Topics == <<"task.created", "clock.ticked", "member.created">>

MCSubscribers == [e \in Event |-> HandlersFor(Topics[e])]

MCPoison ==
  {p \in Event \X Handler :
     p[2] \in HandlersFor(Topics[p[1]]) /\ Unroutable(Topics[p[1]], p[2])}

\* The claim of the subscription's comment that every topic but the clock's
\* names a project, as an operator sees it: without a failure of the
\* infrastructure no event is dead-lettered.
OnlyFailuresDeadLetter == dead = {}

PoolSymmetry == Permutations(Worker)
=============================================================================
