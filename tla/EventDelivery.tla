---------------------------- MODULE EventDelivery ----------------------------
(***************************************************************************)
(* What the bus promises its producers and its handlers, with the tables,  *)
(* the broker and the workers abstracted away: an event is recorded once;  *)
(* each subscribed handler takes effect at most once for it, and never for *)
(* an event nobody recorded; and an event the bus could not deliver is     *)
(* flagged for the operator, who may clear the flag to have it replayed.   *)
(* EventBus implements this specification.                                 *)
(***************************************************************************)
EXTENDS Naturals

CONSTANTS Event, Handler, Subscribers

VARIABLES
  recorded,   \* events that happened
  effects,    \* effects[<<e, h>>]: how often h took effect for e
  flagged     \* events the operator is shown as undeliverable

vars == <<recorded, effects, flagged>>

Init ==
  /\ recorded = {}
  /\ effects = [p \in Event \X Handler |-> 0]
  /\ flagged = {}

Record(e) ==
  /\ e \notin recorded
  /\ recorded' = recorded \cup {e}
  /\ UNCHANGED <<effects, flagged>>

TakeEffect(e, h) ==
  /\ e \in recorded
  /\ h \in Subscribers[e]
  /\ effects[<<e, h>>] = 0
  /\ effects' = [effects EXCEPT ![<<e, h>>] = 1]
  /\ UNCHANGED <<recorded, flagged>>

Flag(e) ==
  /\ e \in recorded \ flagged
  /\ Subscribers[e] # {}
  /\ flagged' = flagged \cup {e}
  /\ UNCHANGED <<recorded, effects>>

Replay(e) ==
  /\ e \in flagged
  /\ flagged' = flagged \ {e}
  /\ UNCHANGED <<recorded, effects>>

Next ==
  \E e \in Event :
    \/ Record(e)
    \/ \E h \in Handler : TakeEffect(e, h)
    \/ Flag(e)
    \/ Replay(e)

Spec == Init /\ [][Next]_vars
=============================================================================
