-------------------------- MODULE LifecycleProofs --------------------------
(***************************************************************************)
(* Theorems about Lifecycle for any graphs, records, sessions and bounds.  *)
(***************************************************************************)
EXTENDS Lifecycle, TLAPS

\* The record s serves is locked by it.
Holding(s) == pc[s] \in {"locked", "resolved", "placed"} /\ job[s].op # "create"

\* What a request knows at each of its steps.
SessionOK(s) ==
  /\ pc[s] \in {"waiting", "locked", "resolved", "placed"} =>
       job[s] \in Job /\ (job[s].op # "create" => seen[s] \in State)
  /\ pc[s] = "waiting" => job[s].op # "create"
  /\ pc[s] = "resolved" =>
       /\ via[s] \in Workflow /\ job[s].op # "move"
       /\ job[s].op = "assign" /\ job[s].to # None => via[s] = job[s].to
  /\ pc[s] \in {"placed", "counted"} => goal[s] \in State
  /\ pc[s] = "placed" =>
       /\ job[s].op = "move" => goal[s][1] = seen[s][1]
       /\ job[s].op = "assign" =>
            goal[s][2] = seen[s][2] /\ (job[s].to # None => goal[s][1] = job[s].to)
       /\ job[s].op # "move" => s \notin dead

\* A locked record is where its holder has seen it, and has one holder.
LockedRows == \A s \in Session : Holding(s) => at[job[s].record] = seen[s]
OneHolder ==
  \A s, x \in Session :
    Holding(s) /\ Holding(x) /\ job[s].record = job[x].record => s = x

\* Whoever stands on a state being retired came after its occupants were
\* counted.
CountedStates ==
  \A s \in Session, r \in Record :
    pc[s] = "counted" /\ at[r] # None /\ at[r] = goal[s] => arrival[r] # "clean"

EntriesExist == \A n \in entry : node[n] # "absent"

IInv ==
  /\ TypeOK
  /\ \A s \in Session : SessionOK(s)
  /\ LockedRows /\ OneHolder /\ CountedStates /\ EntriesExist
  /\ AssignedWorkflowHoldsTheState
  /\ TrailEndsAtTheState
  /\ StrandedRecordsHaveAnExcuse
  /\ WithdrawnWithTheirState

-----------------------------------------------------------------------------
LEMMA JobFields ==
  ASSUME NEW j \in Job
  PROVE  /\ j.op \in {"create", "move", "assign"} /\ j.record \in Record
         /\ j.op = "move" => j.to \in Code
         /\ j.op = "assign" => j.to \in Workflow \cup {None}
BY DEF Job, Creations, Moves, Assignments

LEMMA StateParts ==
  /\ \A n \in State : n = <<n[1], n[2]>> /\ n[1] \in Workflow /\ n[2] \in Code
  /\ \A w \in Workflow, c \in Code :
       <<w, c>> \in State /\ <<w, c>>[1] = w /\ <<w, c>>[2] = c
BY DEF State

LEMMA EdgeParts ==
  /\ \A e \in Edge : e = <<e[1], e[2]>> /\ e[1] \in State /\ e[2] \in State
  /\ \A m, n \in State : m[1] = n[1] => <<m, n>> \in Edge
BY DEF Edge

\* The edge of a transition stays inside the graph of the record.
LEMMA AskedEdge ==
  ASSUME NEW s \in Session, seen[s] \in State, job[s] \in Job, job[s].op = "move"
  PROVE  /\ Asked(s) \in Edge /\ Asked(s)[2] \in State
         /\ Asked(s)[2][1] = seen[s][1]
BY JobFields, StateParts, EdgeParts DEF Asked

\* What a request resolves is a workflow, and the one it names if it names one.
LEMMA TargetIsAWorkflow ==
  ASSUME TypeOK, NEW s \in Session, job[s] \in Job, NEW e \in EngagementType,
         Target(s, e) # None
  PROVE  /\ Target(s, e) \in Workflow
         /\ job[s].op = "assign" /\ job[s].to # None => Target(s, e) = job[s].to
<1>1. KindOf(job[s].record) \in Kinds
  BY DEF KindOf, Kinds
<1>2. \A k \in Kinds : Resolved(k, e) \in Workflow \cup {None}
  BY KindsAssumption DEF Resolved, TypeOK, Bindable
<1>3. job[s].op = "assign" => job[s].to \in Workflow \cup {None}
  BY JobFields
<1> QED  BY <1>1, <1>2, <1>3 DEF Target

LEMMA InitIInv == Init => IInv
<1> SUFFICES ASSUME Init PROVE IInv
  OBVIOUS
<1> USE DEF Init
<1>1. TypeOK
  BY SeedAssumption, EditLimitIsNatural DEF TypeOK, Status, Edge
<1>2. \A s \in Session : SessionOK(s)
  BY DEF SessionOK
<1>3. LockedRows /\ OneHolder /\ CountedStates
  BY DEF LockedRows, OneHolder, CountedStates, Holding
<1>4. EntriesExist
  BY SeedAssumption DEF EntriesExist
<1>5. AssignedWorkflowHoldsTheState /\ TrailEndsAtTheState
        /\ StrandedRecordsHaveAnExcuse
  BY DEF AssignedWorkflowHoldsTheState, TrailEndsAtTheState,
         StrandedRecordsHaveAnExcuse
<1>6. WithdrawnWithTheirState
  BY SeedAssumption, EdgeParts
     DEF WithdrawnWithTheirState, EndRetired
<1> QED  BY <1>1, <1>2, <1>3, <1>4, <1>5, <1>6 DEF IInv

-----------------------------------------------------------------------------
(***************************************************************************)
(* Authoring: no record and no session changes.                            *)
(***************************************************************************)

LEMMA AuthoringGraphs ==
  ASSUME IInv, Authoring
  PROVE  TypeOK' /\ EntriesExist' /\ WithdrawnWithTheirState'
           /\ \A n \in State : node'[n] = "retired" => node[n] = "retired"
<1> DEFINE Kept == TypeOK' /\ EntriesExist' /\ WithdrawnWithTheirState'
                     /\ \A n \in State : node'[n] = "retired" => node[n] = "retired"
<1>1. TypeOK /\ EntriesExist /\ WithdrawnWithTheirState
  BY DEF IInv
<1>2. Author => edits' \in 0..EditLimit
  BY <1>1, EditLimitIsNatural DEF Author, TypeOK
<1> USE DEF TypeOK, EntriesExist, WithdrawnWithTheirState, EndRetired, Author,
            records, reads, Status
<1>3. ASSUME NEW w \in Workflow, NEW E \in SUBSET EngagementType,
             CreateWorkflow(w, E)
      PROVE  Kept
  BY <1>1, <1>2, <1>3 DEF CreateWorkflow, Bindable
<1>4. ASSUME NEW w \in Workflow, UpdateWorkflow(w)
      PROVE  Kept
  BY <1>1, <1>2, <1>4 DEF UpdateWorkflow
<1>5. ASSUME NEW n \in State, AddState(n)
      PROVE  Kept
  <2>1. node' = [node EXCEPT ![n] = "active"]
    BY <1>5 DEF AddState
  <2>2. entry' \subseteq State /\ \A m \in entry' : node'[m] # "absent"
    BY <1>1, <1>5 DEF AddState
  <2>3. \A m, l \in entry' : m[1] = l[1] => m = l
    BY <1>1, <1>5 DEF AddState, FirstOfGraph
  <2> QED  BY <1>1, <1>2, <1>5, <2>1, <2>2, <2>3, EdgeParts DEF AddState
<1>6. ASSUME NEW n \in State, ReviveState(n)
      PROVE  Kept
  BY <1>1, <1>2, <1>6, EdgeParts DEF ReviveState
<1>7. ASSUME NEW e \in Edge, NEW d \in Demand, AddTransition(e, d)
      PROVE  Kept
  BY <1>1, <1>2, <1>7, DemandAssumption DEF AddTransition
<1>8. ASSUME NEW e \in Edge, NEW d \in Demand, NEW b \in BOOLEAN,
             UpdateTransition(e, d, b)
      PROVE  Kept
  BY <1>1, <1>2, <1>8, DemandAssumption DEF UpdateTransition
<1>9. ASSUME NEW e \in Edge, RetireTransition(e)
      PROVE  Kept
  BY <1>1, <1>2, <1>9 DEF RetireTransition
<1> QED  BY <1>3, <1>4, <1>5, <1>6, <1>7, <1>8, <1>9 DEF Authoring

LEMMA AuthoringKeepsTheRest == Authoring => UNCHANGED <<records, pc, job, reads>>
BY DEF Authoring, Author, CreateWorkflow, UpdateWorkflow, AddState, ReviveState,
       AddTransition, UpdateTransition, RetireTransition

LEMMA AuthoringIInv == IInv /\ Authoring => IInv'
<1> SUFFICES ASSUME IInv, Authoring PROVE IInv'
  OBVIOUS
<1>1. UNCHANGED <<records, pc, job, reads>>
  BY AuthoringKeepsTheRest
<1>2. TypeOK' /\ EntriesExist' /\ WithdrawnWithTheirState'
        /\ \A n \in State : node'[n] = "retired" => node[n] = "retired"
  BY AuthoringGraphs
<1>3. \A s \in Session : SessionOK(s)'
  BY <1>1 DEF IInv, SessionOK, reads
<1>4. LockedRows' /\ OneHolder' /\ CountedStates'
  BY <1>1 DEF IInv, LockedRows, OneHolder, CountedStates, Holding, reads, records
<1>5. AssignedWorkflowHoldsTheState' /\ TrailEndsAtTheState'
  BY <1>1 DEF IInv, AssignedWorkflowHoldsTheState, TrailEndsAtTheState, records
<1>6. StrandedRecordsHaveAnExcuse'
  BY <1>1, <1>2 DEF IInv, TypeOK, StrandedRecordsHaveAnExcuse, records
<1> QED  BY <1>2, <1>3, <1>4, <1>5, <1>6 DEF IInv

-----------------------------------------------------------------------------
(***************************************************************************)
(* Retiring a state.                                                       *)
(***************************************************************************)

LEMMA CountIInv ==
  ASSUME IInv, NEW s \in Session, NEW n \in State, CountOccupants(s, n)
  PROVE  IInv'
<1>1. TypeOK'
  BY DEF IInv, TypeOK, CountOccupants, graphs, records
<1>2. \A x \in Session : SessionOK(x)'
  BY DEF IInv, TypeOK, SessionOK, CountOccupants, graphs, records
<1>3. LockedRows' /\ OneHolder'
  BY DEF IInv, TypeOK, LockedRows, OneHolder, Holding, CountOccupants, records
<1>4. CountedStates'
  BY DEF IInv, TypeOK, CountedStates, CountOccupants, OccupiedStates, records
<1>5. EntriesExist' /\ AssignedWorkflowHoldsTheState' /\ TrailEndsAtTheState'
        /\ StrandedRecordsHaveAnExcuse' /\ WithdrawnWithTheirState'
  BY DEF IInv, EntriesExist, AssignedWorkflowHoldsTheState, TrailEndsAtTheState,
         StrandedRecordsHaveAnExcuse, WithdrawnWithTheirState, EndRetired,
         CountOccupants, graphs, records
<1> QED  BY <1>1, <1>2, <1>3, <1>4, <1>5 DEF IInv

\* What every transaction leaves behind when it ends.
LEMMA OverSessions ==
  ASSUME IInv, NEW s \in Session, Over(s)
  PROVE  /\ \A x \in Session : SessionOK(x)'
         /\ OneHolder'
         /\ \A x \in Session : Holding(x)' =>
              Holding(x) /\ x # s /\ job'[x] = job[x] /\ seen'[x] = seen[x]
         /\ \A x \in Session : pc'[x] = "counted" =>
              pc[x] = "counted" /\ goal'[x] = goal[x]
<1>1. \A x \in Session : x # s =>
        /\ pc'[x] = pc[x] /\ job'[x] = job[x] /\ seen'[x] = seen[x]
        /\ via'[x] = via[x] /\ goal'[x] = goal[x]
        /\ (x \in dead' <=> x \in dead)
  BY DEF IInv, TypeOK, Over
<1>2. pc'[s] = "idle"
  BY DEF IInv, TypeOK, Over
<1>3. \A x \in Session : SessionOK(x)'
  BY <1>1, <1>2 DEF IInv, SessionOK
<1> QED  BY <1>1, <1>2, <1>3 DEF IInv, OneHolder, Holding

LEMMA OverTypeOK ==
  ASSUME IInv, NEW s \in Session, Over(s)
  PROVE  /\ pc' \in [Session ->
              {"idle", "waiting", "locked", "resolved", "placed", "counted"}]
         /\ job' \in [Session -> Job \cup {None}]
         /\ seen' \in [Session -> State \cup {None}]
         /\ via' \in [Session -> Workflow \cup {None}]
         /\ goal' \in [Session -> State \cup {None}]
         /\ dead' \subseteq Session
BY DEF IInv, TypeOK, Over

LEMMA RetireIInv ==
  ASSUME IInv, NEW s \in Session, RetireState(s)
  PROVE  IInv'
<1> DEFINE n == goal[s]
<1>1. n \in State /\ Over(s) /\ UNCHANGED records
  BY DEF IInv, SessionOK, RetireState
<1>2. node' = [node EXCEPT ![n] = "retired"]
  BY DEF RetireState
<1>3. edge' \in [Edge -> Status] /\ redrawn' \subseteq Edge /\ edits' \in 0..EditLimit
  BY EditLimitIsNatural DEF IInv, TypeOK, RetireState, Status
<1>4. TypeOK'
  BY <1>1, <1>2, <1>3, OverTypeOK DEF IInv, TypeOK, RetireState, records, Status
<1>5. LockedRows' /\ CountedStates'
  BY <1>1, OverSessions DEF IInv, LockedRows, CountedStates, records
<1>6. EntriesExist'
  BY <1>2 DEF IInv, TypeOK, EntriesExist, RetireState
<1>7. AssignedWorkflowHoldsTheState' /\ TrailEndsAtTheState'
  BY <1>1 DEF IInv, AssignedWorkflowHoldsTheState, TrailEndsAtTheState, records
<1>8. StrandedRecordsHaveAnExcuse'
  BY <1>1, <1>2 DEF IInv, TypeOK, StrandedRecordsHaveAnExcuse, CountedStates,
                    RetireState, records
<1>9. WithdrawnWithTheirState'
  BY <1>1, <1>2, EdgeParts
     DEF IInv, TypeOK, WithdrawnWithTheirState, EndRetired, Touching, RetireState
<1> QED  BY <1>1, <1>4, <1>5, <1>6, <1>7, <1>8, <1>9, OverSessions DEF IInv

-----------------------------------------------------------------------------
(***************************************************************************)
(* Requests about records.                                                 *)
(***************************************************************************)

\* A step that writes nothing but what one request knows.
LEMMA QuietStep ==
  ASSUME IInv, UNCHANGED <<graphs, records, edits>>,
         pc' \in [Session ->
           {"idle", "waiting", "locked", "resolved", "placed", "counted"}],
         job' \in [Session -> Job \cup {None}],
         seen' \in [Session -> State \cup {None}],
         via' \in [Session -> Workflow \cup {None}],
         goal' \in [Session -> State \cup {None}],
         dead' \subseteq Session,
         \A x \in Session : SessionOK(x)',
         LockedRows', OneHolder',
         \A x \in Session : pc'[x] = "counted" =>
            pc[x] = "counted" /\ goal'[x] = goal[x]
  PROVE  IInv'
<1>1. TypeOK'
  BY DEF IInv, TypeOK, graphs, records
<1>2. CountedStates'
  BY DEF IInv, CountedStates, records
<1>3. EntriesExist' /\ AssignedWorkflowHoldsTheState' /\ TrailEndsAtTheState'
        /\ StrandedRecordsHaveAnExcuse' /\ WithdrawnWithTheirState'
  BY DEF IInv, EntriesExist, AssignedWorkflowHoldsTheState, TrailEndsAtTheState,
         StrandedRecordsHaveAnExcuse, WithdrawnWithTheirState, EndRetired,
         graphs, records
<1> QED  BY <1>1, <1>2, <1>3 DEF IInv

LEMMA RefuseIInv ==
  ASSUME IInv, NEW s \in Session, Refuse(s)
  PROVE  IInv'
<1>1. Over(s) /\ UNCHANGED <<graphs, records, edits>>
  BY DEF Refuse
<1>2. LockedRows'
  BY <1>1, OverSessions DEF IInv, LockedRows, records
<1> QED  BY <1>1, <1>2, OverSessions, OverTypeOK, QuietStep

LEMMA AskIInv ==
  ASSUME IInv, NEW s \in Session, NEW j \in Job, Ask(s, j)
  PROVE  IInv'
<1>1. j.record \in Record
  BY JobFields
<1>2. /\ UNCHANGED <<graphs, records, edits, via, goal, dead>>
      /\ pc' = [pc EXCEPT ![s] = IF j.op = "create" THEN "locked" ELSE "waiting"]
      /\ job' = [job EXCEPT ![s] = j]
      /\ seen' = [seen EXCEPT ![s] = at[j.record]]
      /\ at[j.record] # None <=> j.op # "create"
  BY DEF Ask
<1>3. at[j.record] \in State \cup {None}
  BY <1>1 DEF IInv, TypeOK
<1>4. \A x \in Session : SessionOK(x)'
  BY <1>2, <1>3 DEF IInv, TypeOK, SessionOK
<1>5. \A x \in Session : Holding(x)' =>
        Holding(x) /\ x # s /\ job'[x] = job[x] /\ seen'[x] = seen[x]
  BY <1>2 DEF IInv, TypeOK, Holding
<1>6. LockedRows' /\ OneHolder'
  BY <1>2, <1>5 DEF IInv, LockedRows, OneHolder, records
<1>7. /\ pc' \in [Session ->
           {"idle", "waiting", "locked", "resolved", "placed", "counted"}]
      /\ job' \in [Session -> Job \cup {None}]
      /\ seen' \in [Session -> State \cup {None}]
  BY <1>2, <1>3 DEF IInv, TypeOK
<1>8. /\ via' \in [Session -> Workflow \cup {None}]
      /\ goal' \in [Session -> State \cup {None}]
      /\ dead' \subseteq Session
      /\ \A x \in Session : pc'[x] = "counted" =>
            pc[x] = "counted" /\ goal'[x] = goal[x]
  BY <1>2 DEF IInv, TypeOK
<1> QED  BY <1>2, <1>4, <1>6, <1>7, <1>8, QuietStep

LEMMA LockIInv ==
  ASSUME IInv, NEW s \in Session, Lock(s)
  PROVE  IInv'
<1> DEFINE r == job[s].record
<1>1. CASE Refuse(s)
  BY <1>1, RefuseIInv
<1>2. CASE ~Refuse(s)
  <2>1. /\ pc[s] = "waiting" /\ ~Locked(r) /\ at[r] = seen[s]
        /\ pc' = [pc EXCEPT ![s] = "locked"]
        /\ UNCHANGED <<graphs, records, edits, job, seen, via, goal, dead>>
    BY <1>2 DEF Lock, reads
  <2>2. \A x \in Session : SessionOK(x)'
    BY <2>1 DEF IInv, TypeOK, SessionOK
  <2>3. LockedRows'
    BY <2>1 DEF IInv, TypeOK, LockedRows, Holding, records
  <2>4. OneHolder'
    BY <2>1 DEF IInv, TypeOK, OneHolder, Holding, Locked
  <2>5. /\ pc' \in [Session ->
             {"idle", "waiting", "locked", "resolved", "placed", "counted"}]
        /\ \A x \in Session : pc'[x] = "counted" =>
              pc[x] = "counted" /\ goal'[x] = goal[x]
    BY <2>1 DEF IInv, TypeOK
  <2>6. /\ job' \in [Session -> Job \cup {None}]
        /\ seen' \in [Session -> State \cup {None}]
        /\ via' \in [Session -> Workflow \cup {None}]
        /\ goal' \in [Session -> State \cup {None}]
        /\ dead' \subseteq Session
    BY <2>1 DEF IInv, TypeOK
  <2> QED  BY <2>1, <2>2, <2>3, <2>4, <2>5, <2>6, QuietStep
<1> QED  BY <1>1, <1>2

LEMMA ChooseIInv ==
  ASSUME IInv, NEW s \in Session, NEW n \in State, Choose(s, n),
         pc[s] \in {"locked", "resolved"},
         job[s].op = "move" => n[1] = seen[s][1],
         job[s].op = "assign" =>
           n[2] = seen[s][2] /\ (job[s].to # None => n[1] = job[s].to),
         job[s].op # "move" => node[n] = "active"
  PROVE  IInv'
<1>1. /\ pc' = [pc EXCEPT ![s] = "placed"]
      /\ goal' = [goal EXCEPT ![s] = n]
      /\ dead' = IF node[n] # "active" THEN dead \cup {s} ELSE dead \ {s}
      /\ UNCHANGED <<graphs, records, job, seen, via, edits>>
  BY DEF Choose
<1>2. \A x \in Session : SessionOK(x)'
  <2>1. \A x \in Session : x # s => SessionOK(x)'
    BY <1>1 DEF IInv, TypeOK, SessionOK
  <2>2. SessionOK(s)'
    BY <1>1 DEF IInv, TypeOK, SessionOK
  <2> QED  BY <2>1, <2>2
<1>3. \A x \in Session : Holding(x)' <=> Holding(x)
  BY <1>1 DEF IInv, TypeOK, Holding
<1>4. LockedRows' /\ OneHolder'
  BY <1>1, <1>3 DEF IInv, LockedRows, OneHolder, records
<1>5. /\ pc' \in [Session ->
           {"idle", "waiting", "locked", "resolved", "placed", "counted"}]
      /\ goal' \in [Session -> State \cup {None}]
      /\ dead' \subseteq Session
      /\ \A x \in Session : pc'[x] = "counted" =>
            pc[x] = "counted" /\ goal'[x] = goal[x]
  BY <1>1 DEF IInv, TypeOK
<1>6. /\ job' \in [Session -> Job \cup {None}]
      /\ seen' \in [Session -> State \cup {None}]
      /\ via' \in [Session -> Workflow \cup {None}]
  BY <1>1 DEF IInv, TypeOK
<1> QED  BY <1>1, <1>2, <1>4, <1>5, <1>6, QuietStep

LEMMA ValidateIInv ==
  ASSUME IInv, NEW s \in Session, ValidateTransition(s)
  PROVE  IInv'
<1>1. /\ pc[s] = "locked" /\ job[s].op = "move"
      /\ job[s] \in Job /\ seen[s] \in State
  BY DEF IInv, SessionOK, ValidateTransition
<1>2. Choose(s, Asked(s)[2]) \/ Refuse(s)
  BY DEF ValidateTransition
<1> QED  BY <1>1, <1>2, AskedEdge, ChooseIInv, RefuseIInv

LEMMA ResolveIInv ==
  ASSUME IInv, NEW s \in Session, ResolveWorkflow(s)
  PROVE  IInv'
<1>1. CASE Refuse(s)
  BY <1>1, RefuseIInv
<1>2. CASE ~Refuse(s)
  <2>1. PICK e \in EngagementType :
          /\ Target(s, e) # None
          /\ pc' = [pc EXCEPT ![s] = "resolved"]
          /\ via' = [via EXCEPT ![s] = Target(s, e)]
          /\ UNCHANGED <<graphs, records, job, seen, goal, dead, edits>>
    BY <1>2 DEF ResolveWorkflow
  <2>2. pc[s] = "locked" /\ job[s].op # "move" /\ job[s] \in Job
    BY DEF IInv, SessionOK, ResolveWorkflow
  <2>3. /\ Target(s, e) \in Workflow
        /\ job[s].op = "assign" /\ job[s].to # None => Target(s, e) = job[s].to
    BY <2>1, <2>2, TargetIsAWorkflow DEF IInv
  <2>4. \A x \in Session : SessionOK(x)'
    BY <2>1, <2>2, <2>3 DEF IInv, TypeOK, SessionOK
  <2>5. \A x \in Session : Holding(x)' <=> Holding(x)
    BY <2>1, <2>2 DEF IInv, TypeOK, Holding
  <2>6. LockedRows' /\ OneHolder'
    BY <2>1, <2>5 DEF IInv, LockedRows, OneHolder, records
  <2>7. /\ pc' \in [Session ->
             {"idle", "waiting", "locked", "resolved", "placed", "counted"}]
        /\ via' \in [Session -> Workflow \cup {None}]
        /\ \A x \in Session : pc'[x] = "counted" =>
              pc[x] = "counted" /\ goal'[x] = goal[x]
    BY <2>1, <2>3 DEF IInv, TypeOK
  <2>8. /\ job' \in [Session -> Job \cup {None}]
        /\ seen' \in [Session -> State \cup {None}]
        /\ goal' \in [Session -> State \cup {None}]
        /\ dead' \subseteq Session
    BY <2>1 DEF IInv, TypeOK
  <2> QED  BY <2>1, <2>4, <2>6, <2>7, <2>8, QuietStep
<1> QED  BY <1>1, <1>2

LEMMA LandingIInv ==
  ASSUME IInv, NEW s \in Session, FindLanding(s)
  PROVE  IInv'
<1>1. CASE Refuse(s)
  BY <1>1, RefuseIInv
<1>2. CASE ~Refuse(s)
  <2>1. PICK n \in Landing(s) : Choose(s, n)
    BY <1>2 DEF FindLanding
  <2>2. /\ pc[s] = "resolved" /\ job[s] \in Job
        /\ job[s].op # "move"
        /\ job[s].op = "assign" /\ job[s].to # None => via[s] = job[s].to
    BY DEF IInv, SessionOK, FindLanding
  <2>3. /\ n \in State /\ n[1] = via[s] /\ node[n] = "active"
        /\ job[s].op = "assign" => n[2] = seen[s][2]
    BY DEF Landing
  <2> QED  BY <2>1, <2>2, <2>3, ChooseIInv
<1> QED  BY <1>1, <1>2

LEMMA ArchiveIInv ==
  ASSUME IInv, NEW r \in Record, Archive(r)
  PROVE  IInv'
<1>1. /\ UNCHANGED <<graphs, at, assigned, trail, arrival, pc, job, reads, edits>>
      /\ archived' = IF r \in archived THEN archived \ {r} ELSE archived \cup {r}
  BY DEF Archive
<1>2. TypeOK'
  BY <1>1 DEF IInv, TypeOK, graphs, reads
<1>3. (\A s \in Session : SessionOK(s)') /\ LockedRows' /\ OneHolder'
        /\ CountedStates'
  BY <1>1 DEF IInv, SessionOK, LockedRows, OneHolder, CountedStates, Holding, reads
<1>4. EntriesExist' /\ AssignedWorkflowHoldsTheState' /\ TrailEndsAtTheState'
        /\ StrandedRecordsHaveAnExcuse' /\ WithdrawnWithTheirState'
  BY <1>1 DEF IInv, EntriesExist, AssignedWorkflowHoldsTheState,
              TrailEndsAtTheState, StrandedRecordsHaveAnExcuse,
              WithdrawnWithTheirState, EndRetired, graphs
<1> QED  BY <1>2, <1>3, <1>4 DEF IInv

-----------------------------------------------------------------------------
(***************************************************************************)
(* Commits.                                                                *)
(***************************************************************************)

LEMMA CommitIInv ==
  ASSUME IInv, NEW s \in Session, Commit(s)
  PROVE  IInv'
<1> DEFINE r == job[s].record
<1>1. /\ pc[s] = "placed" /\ job[s] \in Job /\ r \in Record /\ goal[s] \in State
      /\ Over(s) /\ UNCHANGED <<graphs, edits>>
  BY JobFields DEF IInv, SessionOK, Commit
<1>2. CASE job[s].op = "create" /\ at[r] # None
  BY <1>1, <1>2, RefuseIInv DEF Commit, Refuse
<1>3. CASE ~(job[s].op = "create" /\ at[r] # None)
  <2>1. /\ at' = [at EXCEPT ![r] = goal[s]]
        /\ assigned' = [assigned EXCEPT ![r] =
             IF job[s].op = "assign" THEN job[s].to ELSE @]
        /\ trail' = [trail EXCEPT ![r] =
             IF job[s].op = "assign" THEN @ ELSE goal[s][2]]
        /\ arrival' = [arrival EXCEPT ![r] = Excuse(s)]
        /\ archived' = archived
    BY <1>3 DEF Commit
  <2>2. Excuse(s) \in {"clean", "raced", "redrawn"}
    BY DEF Excuse
  <2>3. job[s].op \in {"create", "move", "assign"}
        /\ (job[s].op = "assign" => job[s].to \in Workflow \cup {None})
    BY <1>1, JobFields
  <2>4. goal[s][1] \in Workflow /\ goal[s][2] \in Code
    BY <1>1, StateParts
  <2>5. job[s].op # "create" => at[r] = seen[s] /\ seen[s] \in State
    BY <1>1 DEF IInv, LockedRows, Holding, SessionOK
  <2>6. TypeOK'
    BY <1>1, <2>1, <2>2, <2>3, <2>4, OverTypeOK DEF IInv, TypeOK, graphs
  <2>7. LockedRows'
    <3> SUFFICES ASSUME NEW x \in Session, Holding(x)'
                 PROVE  at'[job'[x].record] = seen'[x]
      BY DEF LockedRows
    <3>1. Holding(x) /\ x # s /\ job'[x] = job[x] /\ seen'[x] = seen[x]
      BY <1>1, OverSessions
    <3>2. at[job[x].record] = seen[x] /\ seen[x] \in State /\ job[x] \in Job
      BY <3>1 DEF IInv, LockedRows, Holding, SessionOK
    <3>3. job[x].record # r
      <4>1. CASE job[s].op = "create"
        BY <1>3, <3>2, <4>1, NoneIsNothing
      <4>2. CASE job[s].op # "create"
        BY <1>1, <3>1, <4>2 DEF IInv, OneHolder, Holding
      <4> QED  BY <4>1, <4>2
    <3> QED  BY <2>1, <3>1, <3>2, <3>3, JobFields DEF IInv, TypeOK
  <2>8. /\ \A q \in Record : q # r => /\ at'[q] = at[q] /\ arrival'[q] = arrival[q]
                                      /\ assigned'[q] = assigned[q]
                                      /\ trail'[q] = trail[q]
        /\ at'[r] = goal[s] /\ arrival'[r] = Excuse(s)
        /\ node' = node
    BY <1>1, <2>1 DEF IInv, TypeOK, graphs
  <2>9. Excuse(s) = "clean" =>
          /\ node[goal[s]] = "active"
          /\ \A x \in Session : pc[x] = "counted" => goal[x] # goal[s]
    BY <1>1 DEF IInv, SessionOK, Excuse
  <2>10. CountedStates'
    BY <1>1, <2>8, <2>9, OverSessions DEF IInv, CountedStates
  <2>11. StrandedRecordsHaveAnExcuse'
    BY <2>8, <2>9 DEF IInv, StrandedRecordsHaveAnExcuse
  <2>12. AssignedWorkflowHoldsTheState'
    <3>1. assigned'[r] # None => goal[s][1] = assigned'[r]
      <4>1. CASE job[s].op = "create"
        BY <1>1, <1>3, <2>1, <4>1 DEF IInv, TypeOK, AssignedWorkflowHoldsTheState
      <4>2. CASE job[s].op = "move"
        BY <1>1, <2>1, <2>5, <4>2
           DEF IInv, TypeOK, AssignedWorkflowHoldsTheState, SessionOK
      <4>3. CASE job[s].op = "assign"
        BY <1>1, <2>1, <4>3 DEF IInv, TypeOK, SessionOK
      <4> QED  BY <2>3, <4>1, <4>2, <4>3
    <3> QED  BY <1>1, <2>8, <3>1, NoneIsNothing DEF IInv, AssignedWorkflowHoldsTheState
  <2>13. TrailEndsAtTheState'
    <3>1. trail'[r] = goal[s][2]
      <4>1. CASE job[s].op = "assign"
        BY <1>1, <2>1, <2>5, <4>1, NoneIsNothing
           DEF IInv, TypeOK, TrailEndsAtTheState, SessionOK
      <4>2. CASE job[s].op # "assign"
        BY <1>1, <2>1, <4>2 DEF IInv, TypeOK
      <4> QED  BY <4>1, <4>2
    <3> QED  BY <1>1, <2>8, <3>1, NoneIsNothing DEF IInv, TrailEndsAtTheState
  <2>14. EntriesExist' /\ WithdrawnWithTheirState'
    BY <1>1 DEF IInv, EntriesExist, WithdrawnWithTheirState, EndRetired, graphs
  <2> QED  BY <1>1, <2>6, <2>7, <2>10, <2>11, <2>12, <2>13, <2>14, OverSessions
              DEF IInv
<1> QED  BY <1>2, <1>3

LEMMA StepIInv == IInv /\ [Next]_vars => IInv'
<1> SUFFICES ASSUME IInv, [Next]_vars PROVE IInv'
  OBVIOUS
<1>1. CASE Authoring
  BY <1>1, AuthoringIInv
<1>2. CASE \E r \in Record : Archive(r)
  BY <1>2, ArchiveIInv
<1>3. CASE Requests
  <2>1. PICK s \in Session :
          \/ \E n \in State : CountOccupants(s, n)
          \/ RetireState(s)
          \/ \E j \in Job : Ask(s, j)
          \/ Lock(s) \/ ValidateTransition(s) \/ ResolveWorkflow(s)
          \/ FindLanding(s) \/ Commit(s) \/ Abort(s)
    BY <1>3 DEF Requests
  <2>2. Abort(s) => Refuse(s)
    BY DEF Abort
  <2> QED  BY <2>1, <2>2, CountIInv, RetireIInv, AskIInv, LockIInv, ValidateIInv,
              ResolveIInv, LandingIInv, CommitIInv, RefuseIInv
<1>4. CASE UNCHANGED vars
  <2>1. UNCHANGED <<graphs, records, edits, pc, job, seen, via, goal, dead>>
    BY <1>4 DEF vars, reads
  <2>2. (\A s \in Session : SessionOK(s)') /\ LockedRows' /\ OneHolder'
    BY <2>1 DEF IInv, SessionOK, LockedRows, OneHolder, Holding, records
  <2> QED  BY <2>1, <2>2, QuietStep DEF IInv, TypeOK
<1> QED  BY <1>1, <1>2, <1>3, <1>4 DEF Next

LEMMA InductiveInvariant == Spec => []IInv
BY InitIInv, StepIInv, PTL DEF Spec

\* The types, and one state to start from in every graph, however many authors
\* add, retire and restore states of it.
THEOREM LifecycleTypeCorrect == Spec => []TypeOK
<1>1. IInv => TypeOK
  BY DEF IInv
<1> QED  BY <1>1, InductiveInvariant, PTL

\* A record with a workflow of its own stands in it: the lock of the record and
\* the second look after waiting for it keep a transition from undoing an
\* assignment.
THEOREM AssignmentsHold == Spec => []AssignedWorkflowHoldsTheState
<1>1. IInv => AssignedWorkflowHoldsTheState
  BY DEF IInv
<1> QED  BY <1>1, InductiveInvariant, PTL

\* No committed move is overwritten: what the activity trail says last is where
\* the record stands.
THEOREM TrailsAreTrue == Spec => []TrailEndsAtTheState
<1>1. IInv => TrailEndsAtTheState
  BY DEF IInv
<1> QED  BY <1>1, InductiveInvariant, PTL

\* A retirement strands no record that stood on the state when its occupants
\* were counted, and none arrives later by an edge in service and a move that
\* began later: it takes an arrival that raced the retirement, having chosen the
\* state before and committed during or after it, or an edge that an author has
\* put back in service at the retired state.
THEOREM RetirementSparesOccupants == Spec => []StrandedRecordsHaveAnExcuse
<1>1. IInv => StrandedRecordsHaveAnExcuse
  BY DEF IInv
<1> QED  BY <1>1, InductiveInvariant, PTL

\* Nothing but an author's later decision reopens an edge of a retired state.
THEOREM RetirementWithdrawsEdges == Spec => []WithdrawnWithTheirState
<1>1. IInv => WithdrawnWithTheirState
  BY DEF IInv
<1> QED  BY <1>1, InductiveInvariant, PTL

-----------------------------------------------------------------------------
(***************************************************************************)
(* What would keep records off the states that are retired.  Two things    *)
(* the code does not do: an author is not kept from putting an edge in     *)
(* service at a retired state, and a request about a record does not lock  *)
(* the graph it moves in, as its authors do.                               *)
(***************************************************************************)
EdgesAreInService == \A e \in Edge : edge[e] = "active" => ~EndRetired(e)

RetirementsWait ==
  \A s, x \in Session : pc[s] = "placed" /\ pc[x] = "counted" => goal[s] # goal[x]

\* Nobody stands on a state that is retired, is about to, or stands on one that
\* is about to be.
NobodyIsStranded ==
  /\ NoRecordOnARetiredState
  /\ \A s \in Session : pc[s] = "placed" => node[goal[s]] # "retired"
  /\ \A s \in Session, r \in Record : pc[s] = "counted" => at[r] # goal[s]

\* A step after which fewer requests have chosen a state.
LEMMA FewerGoals ==
  ASSUME NobodyIsStranded, at' = at, node' = node,
         \A x \in Session : pc'[x] \in {"placed", "counted"} =>
           pc'[x] = pc[x] /\ goal'[x] = goal[x]
  PROVE  NobodyIsStranded'
BY DEF NobodyIsStranded, NoRecordOnARetiredState

LEMMA GoalsOfOthers ==
  ASSUME IInv, NEW s \in Session, Over(s)
  PROVE  \A x \in Session : pc'[x] \in {"placed", "counted"} =>
           x # s /\ pc'[x] = pc[x] /\ goal'[x] = goal[x]
BY DEF IInv, TypeOK, Over

LEMMA ChooseInService ==
  ASSUME IInv, NobodyIsStranded, NEW s \in Session, NEW n \in State, Choose(s, n),
         node[n] # "retired"
  PROVE  NobodyIsStranded'
BY DEF Choose, IInv, TypeOK, NobodyIsStranded, NoRecordOnARetiredState, graphs, records

LEMMA StrandedStep ==
  ASSUME IInv, NobodyIsStranded, EdgesAreInService, RetirementsWait, [Next]_vars
  PROVE  NobodyIsStranded'
<1>1. CASE Authoring
  <2>1. UNCHANGED <<at, pc, goal>>
    BY <1>1, AuthoringKeepsTheRest DEF records, reads
  <2>2. \A n \in State : node'[n] = "retired" => node[n] = "retired"
    BY <1>1, AuthoringGraphs
  <2> QED
    BY <2>1, <2>2 DEF NobodyIsStranded, NoRecordOnARetiredState, IInv, TypeOK, SessionOK
<1>2. ASSUME NEW r \in Record, Archive(r)  PROVE NobodyIsStranded'
  BY <1>2, FewerGoals DEF Archive, graphs, reads
<1>3. ASSUME NEW s \in Session, NEW n \in State, CountOccupants(s, n)
      PROVE  NobodyIsStranded'
  <2>1. \A r \in Record : at[r] # n
    BY <1>3 DEF CountOccupants, OccupiedStates
  <2> QED
    BY <1>3, <2>1 DEF CountOccupants, graphs, records, IInv, TypeOK, NobodyIsStranded,
                      NoRecordOnARetiredState
<1>4. ASSUME NEW s \in Session, RetireState(s)  PROVE NobodyIsStranded'
  <2>1. /\ pc[s] = "counted" /\ goal[s] \in State
        /\ node' = [node EXCEPT ![goal[s]] = "retired"] /\ at' = at /\ Over(s)
    BY <1>4 DEF RetireState, records, IInv, SessionOK
  <2>2. \A r \in Record : at[r] # None => at[r] \in State /\ at[r] # goal[s]
    BY <2>1 DEF NobodyIsStranded, IInv, TypeOK
  <2>3. \A x \in Session : pc[x] = "placed" => goal[x] \in State /\ goal[x] # goal[s]
    BY <2>1 DEF RetirementsWait, IInv, SessionOK
  <2>4. \A n \in State : n # goal[s] => node'[n] = node[n]
    BY <2>1 DEF IInv, TypeOK
  <2> QED
    BY <2>1, <2>2, <2>3, <2>4, GoalsOfOthers DEF NobodyIsStranded, NoRecordOnARetiredState
<1>5. ASSUME NEW s \in Session, Refuse(s)  PROVE NobodyIsStranded'
  BY <1>5, FewerGoals, GoalsOfOthers DEF Refuse, graphs, records
<1>6. ASSUME NEW s \in Session, \E j \in Job : Ask(s, j)  PROVE NobodyIsStranded'
  BY <1>6, FewerGoals DEF Ask, graphs, records, IInv, TypeOK
<1>7. ASSUME NEW s \in Session, Lock(s), ~Refuse(s)  PROVE NobodyIsStranded'
  BY <1>7, FewerGoals DEF Lock, graphs, records, reads, IInv, TypeOK
<1>8. ASSUME NEW s \in Session, ResolveWorkflow(s), ~Refuse(s)
      PROVE  NobodyIsStranded'
  BY <1>8, FewerGoals DEF ResolveWorkflow, graphs, records, IInv, TypeOK
<1>9. ASSUME NEW s \in Session, ValidateTransition(s), ~Refuse(s)
      PROVE  NobodyIsStranded'
  <2>1. job[s] \in Job /\ job[s].op = "move" /\ seen[s] \in State
    BY <1>9 DEF ValidateTransition, IInv, SessionOK
  <2>2. edge[Asked(s)] = "active" /\ Choose(s, Asked(s)[2])
    BY <1>9 DEF ValidateTransition
  <2>3. node[Asked(s)[2]] # "retired" /\ Asked(s)[2] \in State
    BY <2>1, <2>2, AskedEdge DEF EdgesAreInService, EndRetired
  <2> QED  BY <2>2, <2>3, ChooseInService
<1>10. ASSUME NEW s \in Session, FindLanding(s), ~Refuse(s)
       PROVE  NobodyIsStranded'
  <2>1. PICK n \in Landing(s) : Choose(s, n)
    BY <1>10 DEF FindLanding
  <2>2. n \in State /\ node[n] # "retired"
    BY DEF Landing
  <2> QED  BY <2>1, <2>2, ChooseInService
<1>11. ASSUME NEW s \in Session, Commit(s), ~Refuse(s)  PROVE NobodyIsStranded'
  <2> DEFINE r == job[s].record
  <2>1. /\ pc[s] = "placed" /\ r \in Record /\ goal[s] \in State
        /\ Over(s) /\ UNCHANGED <<graphs, edits>>
    BY <1>11, JobFields DEF IInv, SessionOK, Commit
  <2>2. at' = [at EXCEPT ![r] = goal[s]] /\ node' = node
    BY <1>11, <2>1 DEF Commit, Refuse, graphs
  <2>3. node[goal[s]] # "retired"
        /\ \A x \in Session : pc[x] = "counted" => goal[x] # goal[s]
    BY <2>1 DEF NobodyIsStranded, RetirementsWait
  <2>4. at'[r] = goal[s] /\ \A q \in Record : q # r => at'[q] = at[q]
    BY <2>1, <2>2 DEF IInv, TypeOK
  <2> QED
    BY <2>1, <2>2, <2>3, <2>4, GoalsOfOthers DEF NobodyIsStranded, NoRecordOnARetiredState
<1>12. CASE UNCHANGED vars
  BY <1>12, FewerGoals DEF vars, graphs, records, reads
<1>13. \A s \in Session : Abort(s) => Refuse(s)
  BY DEF Abort
<1> QED
  BY <1>1, <1>2, <1>3, <1>4, <1>5, <1>6, <1>7, <1>8, <1>9, <1>10, <1>11, <1>12, <1>13
     DEF Next, Requests

\* If no edge is in service at a retired state, and no state is retired while a
\* request about to commit has chosen it, no record is ever on a retired state:
\* what retire_state checks, and withdraws, would then be enough.
THEOREM ExclusionKeepsRecordsInService ==
  Spec /\ []EdgesAreInService /\ []RetirementsWait => []NoRecordOnARetiredState
<1>1. Init => NobodyIsStranded
  BY DEF Init, NobodyIsStranded, NoRecordOnARetiredState
<1>2. IInv /\ NobodyIsStranded /\ EdgesAreInService /\ RetirementsWait /\ [Next]_vars
        => NobodyIsStranded'
  BY StrandedStep
<1>3. NobodyIsStranded => NoRecordOnARetiredState
  BY DEF NobodyIsStranded
<1> QED
  BY <1>1, <1>2, <1>3, InductiveInvariant, PTL DEF Spec
=============================================================================
