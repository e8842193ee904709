------------------------------ MODULE Reactors ------------------------------
(***************************************************************************)
(* The reactors this deployment registers on the bus, by topic: the        *)
(* catalogue of apps/events/domain/envelope.py, the three subscriptions    *)
(* and the routing that a delivered event goes through before it can be    *)
(* applied.  A topic stands for every event a producer records under it.   *)
(***************************************************************************)
EXTENDS Integers

ProjectTopics ==
  {"project.created", "project.updated", "project.state_changed",
   "project.priority.recalculated"}

WorkTopics ==
  {"task.created", "task.updated", "task.state_changed",
   "task.archive_changed", "blocker.raised", "blocker.resolved", "note.added"}

MemberTopics ==
  {"member.created", "member.updated", "member.activation_changed"}

AllTopics == ProjectTopics \cup WorkTopics \cup MemberTopics \cup {"clock.ticked"}

\* ENGINE_TOPICS: everything that can change a rank but the rank itself.
EngineTopics ==
  (ProjectTopics \ {"project.priority.recalculated"})
    \cup WorkTopics \cup {"clock.ticked"}

SnapshotTopics == AllTopics \ {"clock.ticked"}

SseAllowlist == AllTopics \ {"clock.ticked"}

Reactor == {"priority-recalculator", "snapshot-builder", "sse-fanout"}

SubscriptionOf(h) ==
  CASE h = "priority-recalculator" -> EngineTopics
    [] h = "snapshot-builder"      -> SnapshotTopics
    [] h = "sse-fanout"            -> SseAllowlist

HandlersFor(topic) == {h \in Reactor : topic \in SubscriptionOf(h)}

\* project_code_of finds a code: the entity is a project or the payload, as its
\* producer fills it, carries one.
NamesProject(topic) == topic \in ProjectTopics \cup WorkTopics

\* The handler raises EventNamesNoProjectError each time it is tried.  The
\* recalculator asks a tick for its instant and not for a project; the fan-out
\* republishes the envelope unread.
Unroutable(topic, h) ==
  /\ ~NamesProject(topic)
  /\ \/ h = "snapshot-builder"
     \/ h = "priority-recalculator" /\ topic # "clock.ticked"
=============================================================================
