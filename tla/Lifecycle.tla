----------------------------- MODULE Lifecycle -----------------------------
(***************************************************************************)
(* The lifecycles (apps/workflow): the graphs operators author, and the    *)
(* projects and tasks that stand on their states while they do.            *)
(*                                                                         *)
(* Every request is one READ COMMITTED transaction.  Authoring locks the   *)
(* row of the workflow, so two authors of one graph take turns and all     *)
(* but one of their operations are a single step here: the retirement of a *)
(* state also counts the records standing on it, which no workflow lock    *)
(* protects.  A request about a record locks the record, not the graph,    *)
(* and reads the graph some time before it commits.                        *)
(***************************************************************************)
EXTENDS Naturals

CONSTANTS
  Workflow, Code,   \* graphs, and the codes their states go by
  Project, Task,    \* records, by business code
  EngagementType,
  Session,          \* requests served at once
  Kind,             \* of a workflow: applies_to, "project" or "task"
  Default,          \* of a kind: the workflow with is_default, or None
  Demand,           \* what an edge may ask for: sets of "reason", "field", "guard"
  Offer,            \* what a request for a transition comes with
  SeedStates, SeedEntry, SeedEdges,  \* the graphs installed from the fixtures
  EditLimit,        \* bound: authoring commits in a behaviour
  None

Record == Project \cup Task
State  == Workflow \X Code
Edge   == {e \in State \X State : e[1][1] = e[2][1]}
Kinds  == {"project", "task"}

\* What a workflow can be bound to: a kind, and a type of engagement or any.
Bindable == Kinds \X (EngagementType \cup {None})

Creations   == [op : {"create"}, record : Record]
Moves       == [op : {"move"}, record : Record, to : Code,
                offer : Offer]
Assignments == [op : {"assign"}, record : Record, to : Workflow \cup {None}]
Job         == Creations \cup Moves \cup Assignments

ASSUME NoneIsNothing ==
  /\ None \notin State /\ None \notin Workflow /\ None \notin Code
  /\ None \notin Job /\ None \notin EngagementType
ASSUME KindsAssumption ==
  /\ Kind \in [Workflow -> Kinds] /\ Default \in [Kinds -> Workflow \cup {None}]
  /\ Project \cap Task = {}
ASSUME DemandAssumption ==
  /\ Demand \subseteq SUBSET {"reason", "field", "guard"} /\ {} \in Demand
  /\ Offer \subseteq SUBSET {"reason", "field"}
ASSUME SeedAssumption ==
  /\ SeedStates \subseteq State /\ SeedEntry \subseteq SeedStates
  /\ \A m, n \in SeedEntry : m[1] = n[1] => m = n
  /\ \A n \in SeedStates : \E m \in SeedEntry : m[1] = n[1]
  /\ SeedEdges \subseteq {e \in Edge : e[1] \in SeedStates /\ e[2] \in SeedStates}
ASSUME EditLimitIsNatural == EditLimit \in Nat

VARIABLES
  flow,      \* of a workflow: absent, active or retired
  bound,     \* WorkflowBinding: kind and engagement type (None: any) to workflow
  node,      \* of a state: absent, active or retired
  entry,     \* states with is_initial
  edge,      \* of an edge: absent, active or retired
  demand,    \* requires_reason, requires_fields and guard of an edge
  at,        \* of a record: workflow_state, None before the row exists
  assigned,  \* of a record: its own workflow, None when it inherits one
  archived,  \* records with is_archived
  trail,     \* of a record: to_value of the last activity about its state
  pc, job,   \* what each session is doing, and the request it serves
  seen,      \* the state it has found the record on
  via,       \* the workflow it has resolved
  goal,      \* the state it has chosen, to move to or to retire
  edits,
  arrival,   \* history: how a record came to where it stands
  dead,      \* history: sessions that chose a state already retired
  redrawn    \* history: edges activated while one of their ends was retired

graphs  == <<flow, bound, node, entry, edge, demand, redrawn>>
records == <<at, assigned, archived, trail, arrival>>
reads   == <<seen, via, goal, dead>>
vars    == <<graphs, records, pc, job, reads, edits>>

-----------------------------------------------------------------------------
KindOf(r) == IF r \in Project THEN "project" ELSE "task"

Status == {"absent", "active", "retired"}

InForce(w) == w # None /\ flow[w] = "active"

\* Workflow.objects.resolve without an assignment: the binding of the
\* engagement type, the binding of the kind, the default of the kind.
Resolved(k, e) ==
  IF InForce(bound[<<k, e>>]) THEN bound[<<k, e>>]
  ELSE IF InForce(bound[<<k, None>>]) THEN bound[<<k, None>>]
  ELSE IF InForce(Default[k]) THEN Default[k] ELSE None

\* Mutant: only the records still on a board are counted.
OccupiedOnBoards == {at[r] : r \in Record \ archived}

\* records_on_states: removed tasks and archived projects count too.
OccupiedStates == {at[r] : r \in Record}

\* Mutant: nothing is locked.
NeverLocked(r) == FALSE

\* The rows of records that are locked FOR UPDATE.
Locked(r) ==
  \E s \in Session : pc[s] \in {"locked", "resolved", "placed"}
                     /\ job[s].record = r /\ job[s].op # "create"

\* No retirement holds the row of the workflow.
GraphFree(w) == \A s \in Session : pc[s] = "counted" => goal[s][1] # w

\* Task.objects.active() hides removed tasks; archived projects still move.
Reachable(r) == r \in Project \/ r \notin archived

Init ==
  /\ flow = [w \in Workflow |->
       IF \E n \in SeedStates : n[1] = w THEN "active" ELSE "absent"]
  /\ bound = [b \in Bindable |-> None]
  /\ node = [n \in State |-> IF n \in SeedStates THEN "active" ELSE "absent"]
  /\ entry = SeedEntry
  /\ edge = [e \in Edge |-> IF e \in SeedEdges THEN "active" ELSE "absent"]
  /\ demand = [e \in Edge |-> {}]
  /\ at = [r \in Record |-> None]
  /\ assigned = [r \in Record |-> None]
  /\ archived = {}
  /\ trail = [r \in Record |-> None]
  /\ pc = [s \in Session |-> "idle"]
  /\ job = [s \in Session |-> None]
  /\ seen = [s \in Session |-> None]
  /\ via = [s \in Session |-> None]
  /\ goal = [s \in Session |-> None]
  /\ edits = 0
  /\ arrival = [r \in Record |-> "clean"]
  /\ dead = {} /\ redrawn = {}

-----------------------------------------------------------------------------
(* Authoring. *)

Author ==
  /\ edits < EditLimit
  /\ edits' = edits + 1
  /\ UNCHANGED <<records, pc, job, reads>>

\* The transaction of s is over, committed or not.
Over(s) ==
  /\ pc' = [pc EXCEPT ![s] = "idle"]
  /\ job' = [job EXCEPT ![s] = None]
  /\ seen' = [seen EXCEPT ![s] = None]
  /\ via' = [via EXCEPT ![s] = None]
  /\ goal' = [goal EXCEPT ![s] = None]
  /\ dead' = dead \ {s}

\* create_workflow: an engagement type with a binding, even one whose workflow
\* is retired, refuses the request.
CreateWorkflow(w, E) ==
  /\ Author
  /\ flow[w] = "absent"
  /\ \A e \in E : bound[<<Kind[w], e>>] = None
  /\ flow' = [flow EXCEPT ![w] = "active"]
  /\ bound' = [b \in Bindable |->
                 IF b[1] = Kind[w] /\ b[2] \in E THEN w ELSE bound[b]]
  /\ UNCHANGED <<node, entry, edge, demand, redrawn>>

\* update_workflow: is_active.
UpdateWorkflow(w) ==
  /\ Author
  /\ GraphFree(w) /\ flow[w] # "absent"
  /\ flow' = [flow EXCEPT ![w] = IF @ = "active" THEN "retired" ELSE "active"]
  /\ UNCHANGED <<bound, node, entry, edge, demand, redrawn>>

\* Mutant: the retired states of the graph do not count.
FirstInService(n) == \A m \in State : m[1] = n[1] => node[m] # "active"

\* Nothing of the graph yet, not even a retired state.
FirstOfGraph(n) == \A m \in State : m[1] = n[1] => node[m] = "absent"

\* add_state: the first state of a graph is where its records start.
AddState(n) ==
  /\ Author
  /\ GraphFree(n[1]) /\ flow[n[1]] # "absent" /\ node[n] = "absent"
  /\ node' = [node EXCEPT ![n] = "active"]
  /\ entry' = IF FirstOfGraph(n) THEN entry \cup {n} ELSE entry
  /\ UNCHANGED <<flow, bound, edge, demand, redrawn>>

\* update_state: is_active, which only ever restores.
ReviveState(n) ==
  /\ Author
  /\ GraphFree(n[1]) /\ node[n] = "retired"
  /\ node' = [node EXCEPT ![n] = "active"]
  /\ UNCHANGED <<flow, bound, entry, edge, demand, redrawn>>

EndRetired(e) == node[e[1]] = "retired" \/ node[e[2]] = "retired"

\* add_transition: the ends must be states of the graph, retired ones included.
AddTransition(e, d) ==
  /\ Author
  /\ GraphFree(e[1][1]) /\ edge[e] = "absent"
  /\ node[e[1]] # "absent" /\ node[e[2]] # "absent"
  /\ edge' = [edge EXCEPT ![e] = "active"]
  /\ demand' = [demand EXCEPT ![e] = d]
  /\ redrawn' = IF EndRetired(e) THEN redrawn \cup {e} ELSE redrawn
  /\ UNCHANGED <<flow, bound, node, entry>>

\* update_transition: other demands, the edge restored, or both.
UpdateTransition(e, d, restore) ==
  /\ Author
  /\ GraphFree(e[1][1]) /\ edge[e] # "absent"
  /\ d # demand[e] \/ (restore /\ edge[e] = "retired")
  /\ demand' = [demand EXCEPT ![e] = d]
  /\ edge' = [edge EXCEPT ![e] = IF restore THEN "active" ELSE @]
  /\ redrawn' = IF restore /\ edge[e] = "retired" /\ EndRetired(e)
                  THEN redrawn \cup {e} ELSE redrawn
  /\ UNCHANGED <<flow, bound, node, entry>>

RetireTransition(e) ==
  /\ Author
  /\ GraphFree(e[1][1]) /\ edge[e] = "active"
  /\ edge' = [edge EXCEPT ![e] = "retired"]
  /\ redrawn' = redrawn \ {e}
  /\ UNCHANGED <<flow, bound, node, entry, demand>>

\* retire_state locks the workflow, finds nobody on the state, ...
CountOccupants(s, n) ==
  /\ pc[s] = "idle" /\ edits < EditLimit
  /\ GraphFree(n[1]) /\ node[n] = "active"
  /\ n \notin OccupiedStates
  /\ pc' = [pc EXCEPT ![s] = "counted"]
  /\ goal' = [goal EXCEPT ![s] = n]
  /\ UNCHANGED <<graphs, records, job, seen, via, dead, edits>>

\* Mutant: only the edges that leave the state are withdrawn.
Leaving(n) == {e \in Edge : e[1] = n}

\* _withdraw_edges_touching.
Touching(n) == {e \in Edge : e[1] = n \/ e[2] = n}

\* ... withdraws its edges with it, and commits.
RetireState(s) ==
  LET n == goal[s] IN
  /\ pc[s] = "counted" /\ edits < EditLimit
  /\ node' = [node EXCEPT ![n] = "retired"]
  /\ edge' = [e \in Edge |->
       IF e \in Touching(n) /\ edge[e] = "active" THEN "retired" ELSE edge[e]]
  /\ redrawn' = redrawn \ Touching(n)
  /\ edits' = edits + 1
  /\ Over(s)
  /\ UNCHANGED <<flow, bound, entry, demand, records>>

-----------------------------------------------------------------------------
(* Records. *)

\* create_project or create_task, a transition, or the assignment of a
\* workflow.  The row is read as it is now, and locked once it is free.
Ask(s, j) ==
  /\ pc[s] = "idle"
  /\ (at[j.record] = None) <=> (j.op = "create")
  /\ pc' = [pc EXCEPT ![s] = IF j.op = "create" THEN "locked" ELSE "waiting"]
  /\ job' = [job EXCEPT ![s] = j]
  /\ seen' = [seen EXCEPT ![s] = at[j.record]]
  /\ UNCHANGED <<graphs, records, via, goal, dead, edits>>

\* An error of the API, or a connection that ends: nothing is written.
Refuse(s) == Over(s) /\ UNCHANGED <<graphs, records, edits>>

\* A request that waited reads the row again and joins it to the state it read
\* first: when the two no longer match, there is no such record.
Lock(s) ==
  LET r == job[s].record IN
  /\ pc[s] = "waiting"
  /\ ~Locked(r)
  /\ IF at[r] = seen[s] /\ Reachable(r)
       THEN /\ pc' = [pc EXCEPT ![s] = "locked"]
            /\ UNCHANGED <<graphs, records, job, reads, edits>>
       ELSE Refuse(s)

Choose(s, n) ==
  /\ pc' = [pc EXCEPT ![s] = "placed"]
  /\ goal' = [goal EXCEPT ![s] = n]
  /\ dead' = IF node[n] # "active" THEN dead \cup {s} ELSE dead \ {s}
  /\ UNCHANGED <<graphs, records, job, seen, via, edits>>

\* The edge a transition asks for, inside the graph the record is in.
Asked(s) == <<seen[s], <<seen[s][1], job[s].to>>>>

\* validate_transition.  No caller supplies what a guard wants to know, so an
\* edge with a guard refuses everybody.
ValidateTransition(s) ==
  /\ pc[s] = "locked" /\ job[s].op = "move"
  /\ IF edge[Asked(s)] = "active" /\ demand[Asked(s)] \subseteq job[s].offer
       THEN Choose(s, Asked(s)[2])
       ELSE Refuse(s)

\* The workflow a record asked for is about to be in, or None: refused.
Target(s, e) ==
  LET r == job[s].record
      w == IF job[s].op = "assign" /\ job[s].to # None
             THEN job[s].to ELSE Resolved(KindOf(r), e)
  IN IF \/ w = None
        \/ flow[w] = "absent"
        \/ Kind[w] # KindOf(r)
        \/ flow[w] = "retired" /\ job[s].op = "assign" /\ w # seen[s][1]
        \/ job[s].op = "assign" /\ job[s].to = assigned[r]
       THEN None ELSE w

\* Creation and assignment resolve the workflow first, for an engagement type
\* the project has at the time, ...
ResolveWorkflow(s) ==
  /\ pc[s] = "locked" /\ job[s].op # "move"
  /\ \E e \in EngagementType :
       IF Target(s, e) = None
         THEN Refuse(s)
         ELSE /\ pc' = [pc EXCEPT ![s] = "resolved"]
              /\ via' = [via EXCEPT ![s] = Target(s, e)]
              /\ UNCHANGED <<graphs, records, job, seen, goal, dead, edits>>

\* Mutant: a reassigned record starts its new lifecycle from the beginning.
LandingAtEntry(s) ==
  {n \in State : n[1] = via[s] /\ node[n] = "active" /\ n \in entry}

\* Mutant: a retired state may be landed on.
LandingAnywhere(s) ==
  {n \in State : /\ n[1] = via[s] /\ node[n] # "absent"
                 /\ IF job[s].op = "create" THEN n \in entry
                                            ELSE n[2] = seen[s][2]}

\* entry_state for a creation, validate_reassignment's landing otherwise.
Landing(s) ==
  {n \in State : /\ n[1] = via[s] /\ node[n] = "active"
                 /\ IF job[s].op = "create" THEN n \in entry
                                            ELSE n[2] = seen[s][2]}

\* ... and then look for the state to land on.
FindLanding(s) ==
  /\ pc[s] = "resolved"
  /\ \/ \E n \in Landing(s) : Choose(s, n)
     \/ Landing(s) = {} /\ Refuse(s)

\* How a record comes to the state s commits it to.
Excuse(s) ==
  CASE s \in dead /\ job[s].op = "move" -> "redrawn"
    [] s \notin dead
         /\ \/ node[goal[s]] # "active"
            \/ \E x \in Session : pc[x] = "counted" /\ goal[x] = goal[s] -> "raced"
    [] OTHER -> "clean"

\* A creation whose code was taken meanwhile fails on the unique index.  The
\* foreign key to a workflow waits for whoever is authoring it.
Commit(s) ==
  LET r == job[s].record IN
  /\ pc[s] = "placed"
  /\ job[s].op = "assign" /\ job[s].to # None => GraphFree(job[s].to)
  /\ IF job[s].op = "create" /\ at[r] # None
       THEN UNCHANGED records
       ELSE /\ at' = [at EXCEPT ![r] = goal[s]]
            /\ assigned' = [assigned EXCEPT ![r] =
                 IF job[s].op = "assign" THEN job[s].to ELSE @]
            /\ trail' = [trail EXCEPT ![r] =
                 IF job[s].op = "assign" THEN @ ELSE goal[s][2]]
            /\ arrival' = [arrival EXCEPT ![r] = Excuse(s)]
            /\ UNCHANGED archived
  /\ Over(s)
  /\ UNCHANGED <<graphs, edits>>

\* A transaction that does not get to its commit.
Abort(s) == pc[s] # "idle" /\ Refuse(s)

\* update_project and update_task: is_archived.
Archive(r) ==
  /\ at[r] # None /\ ~Locked(r)
  /\ archived' = IF r \in archived THEN archived \ {r} ELSE archived \cup {r}
  /\ UNCHANGED <<graphs, at, assigned, trail, arrival, pc, job, reads, edits>>

Authoring ==
  \/ \E w \in Workflow, E \in SUBSET EngagementType : CreateWorkflow(w, E)
  \/ \E w \in Workflow : UpdateWorkflow(w)
  \/ \E n \in State : AddState(n) \/ ReviveState(n)
  \/ \E e \in Edge, d \in Demand : AddTransition(e, d)
  \/ \E e \in Edge, d \in Demand, b \in BOOLEAN : UpdateTransition(e, d, b)
  \/ \E e \in Edge : RetireTransition(e)

Requests ==
  \E s \in Session :
    \/ \E n \in State : CountOccupants(s, n)
    \/ RetireState(s)
    \/ \E j \in Job : Ask(s, j)
    \/ Lock(s) \/ ValidateTransition(s) \/ ResolveWorkflow(s)
    \/ FindLanding(s) \/ Commit(s) \/ Abort(s)

Next == Authoring \/ Requests \/ \E r \in Record : Archive(r)

Spec == Init /\ [][Next]_vars

-----------------------------------------------------------------------------
\* The type of every variable; a graph has at most one state to start from.
TypeOK ==
  /\ flow \in [Workflow -> Status]
  /\ bound \in [Bindable -> Workflow \cup {None}]
  /\ node \in [State -> Status] /\ entry \subseteq State
  /\ \A m, n \in entry : m[1] = n[1] => m = n
  /\ edge \in [Edge -> Status] /\ demand \in [Edge -> SUBSET {"reason", "field", "guard"}]
  /\ at \in [Record -> State \cup {None}]
  /\ assigned \in [Record -> Workflow \cup {None}]
  /\ archived \subseteq Record /\ trail \in [Record -> Code \cup {None}]
  /\ pc \in [Session -> {"idle", "waiting", "locked", "resolved", "placed", "counted"}]
  /\ job \in [Session -> Job \cup {None}]
  /\ seen \in [Session -> State \cup {None}]
  /\ via \in [Session -> Workflow \cup {None}]
  /\ goal \in [Session -> State \cup {None}]
  /\ edits \in 0..EditLimit
  /\ arrival \in [Record -> {"clean", "raced", "redrawn"}]
  /\ dead \subseteq Session /\ redrawn \subseteq Edge

\* A record that names a workflow stands on one of its states, whichever of
\* transition and assignment commits last (Project.workflow, Task.workflow).
AssignedWorkflowHoldsTheState ==
  \A r \in Record : assigned[r] # None => at[r] # None /\ at[r][1] = assigned[r]

\* The activity trail of a record ends at the state it stands on: no move is
\* overwritten, and a reassignment keeps the code of the state.
TrailEndsAtTheState ==
  \A r \in Record :
    IF at[r] = None THEN trail[r] = None ELSE trail[r] = at[r][2]

\* The retirement of a state never leaves a record behind on it, removed tasks
\* included, that was there when its occupants were counted: a record stands on
\* a retired state only if it arrived while that was going on, or over an edge
\* that already led to a retired state.
StrandedRecordsHaveAnExcuse ==
  \A r \in Record :
    at[r] # None /\ node[at[r]] = "retired" => arrival[r] # "clean"

\* An edge is active at a retired state only if an author activated it after
\* the retirement, which withdraws those it finds (retire_state).
WithdrawnWithTheirState ==
  \A e \in Edge : edge[e] = "active" /\ EndRetired(e) => e \in redrawn

\* What the retirement of a state is refused for: "a record parked on a node
\* the graph no longer contains" (workflow/models.py).  It does not hold.
NoRecordOnARetiredState ==
  \A r \in Record : at[r] # None => node[at[r]] # "retired"
=============================================================================
