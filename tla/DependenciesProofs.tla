------------------------- MODULE DependenciesProofs -------------------------
(***************************************************************************)
(* Theorems about Dependencies for any task codes, requests and payloads.  *)
(***************************************************************************)
EXTENDS Dependencies, TLAPS

-----------------------------------------------------------------------------
(***************************************************************************)
(* Graphs.                                                                 *)
(***************************************************************************)

\* A graph with fewer edges has no more loops.
LEMMA FewerEdges ==
  ASSUME NEW E, NEW F, Acyclic(E), F \subseteq E
  PROVE  Acyclic(F)
BY DEF Acyclic

\* The reach of a task holds the task and is closed under its edges.
LEMMA ReachIsClosed ==
  ASSUME NEW E, NEW p \in Task
  PROVE  /\ p \in Reach(E, {p})
         /\ \A e \in E : e[1] \in Reach(E, {p}) /\ e[2] \in Task
                           => e[2] \in Reach(E, {p})
BY DEF Reach

\* The check of find_dependency_cycle is sufficient: an edge it lets through
\* closes no loop.
LEMMA CheckedEdge ==
  ASSUME NEW E, Acyclic(E), NEW t \in Task, NEW p \in Task,
         ~ClosesLoop(E, t, p)
  PROVE  Acyclic(E \cup {<<t, p>>})
<1> SUFFICES ASSUME NEW S \in (SUBSET Task) \ {{}}
             PROVE  \E x \in S : \A y \in S : <<x, y>> \notin E \cup {<<t, p>>}
  BY DEF Acyclic
<1> DEFINE R == Reach(E, {p})
<1>1. p \in R /\ t \notin R /\ R \subseteq Task
  BY ReachIsClosed DEF ClosesLoop, Reach
<1>2. CASE p \notin S
  <2>1. PICK x \in S : \A y \in S : <<x, y>> \notin E
    BY DEF Acyclic
  <2> QED  BY <1>2, <2>1
<1>3. CASE p \in S
  <2>1. S \cap R \in (SUBSET Task) \ {{}}
    BY <1>1, <1>3
  <2>2. PICK x \in S \cap R : \A y \in S \cap R : <<x, y>> \notin E
    BY <2>1 DEF Acyclic
  <2>3. \A y \in S : <<x, y>> \in E => y \in R
    BY <2>2, ReachIsClosed
  <2>4. x # t
    BY <1>1, <2>2
  <2> QED  BY <2>2, <2>3, <2>4
<1> QED  BY <1>2, <1>3

\* It also refuses the task itself and whatever waits for it directly.
LEMMA NoEdgeBack ==
  ASSUME NEW E, NEW t \in Task, NEW p \in Task, ~ClosesLoop(E, t, p)
  PROVE  p # t /\ <<p, t>> \notin E
<1>1. p \in Reach(E, {p}) /\ t \notin Reach(E, {p})
  BY ReachIsClosed DEF ClosesLoop
<1>2. <<p, t>> \in E => t \in Reach(E, {p})
  BY <1>1, ReachIsClosed
<1> QED  BY <1>1, <1>2

-----------------------------------------------------------------------------
(***************************************************************************)
(* Types, and what a session's label says of its state.                    *)
(***************************************************************************)
LabelsAgree ==
  \A s \in Session :
    /\ pc[s] # "idle" => job[s] \in Request
    /\ pc[s] = "minted" => job[s].new
    /\ pc[s] # "checking" => accepted[s] = {} /\ graph[s] = {}
    /\ pc[s] = "checking" =>
         job[s].wanted # None /\ accepted[s] \subseteq tasks
    /\ pc[s] \in {"open", "checking"} /\ ~job[s].new => job[s].task \in tasks

Typed == TypeOK /\ LabelsAgree

\* The request of s ends, and nothing is committed.
Withdrawn(s) ==
  /\ Release(s)
  /\ tainted' = tainted \ {s}
  /\ UNCHANGED <<tables, raced>>

LEMMA Withdrawing ==
  ASSUME TypeOK, NEW s \in Session
  PROVE  /\ CodeTaken(s) => Withdrawn(s)
         /\ \A p \in Task : Refuse(s, p) => Withdrawn(s)
         /\ DeadlockVictim(s) => Withdrawn(s)
         /\ Abort(s) => Withdrawn(s)
BY DEF CodeTaken, Refuse, DeadlockVictim, Abort, Withdrawn, history, tables

\* The steps of a session, the ways to withdraw taken together.
LEMMA StepsOfNext ==
  ASSUME TypeOK, [Next]_vars
  PROVE  \/ \E s \in Session : \E q \in Payload : Mint(s, q)
         \/ \E s \in Session : Insert(s)
         \/ \E s \in Session : \E t \in Task, q \in Payload : Open(s, t, q)
         \/ \E s \in Session : ReadGraph(s)
         \/ \E s \in Session : \E p \in Task : Accept(s, p)
         \/ \E s \in Session : Commit(s)
         \/ \E s \in Session : Withdrawn(s)
         \/ UNCHANGED vars
BY Withdrawing DEF Next

\* What Release leaves of the sessions.
LEMMA Released ==
  ASSUME TypeOK, NEW s \in Session, Release(s)
  PROVE  /\ pc' \in [Session -> {"idle", "minted", "open", "checking"}]
         /\ job' \in [Session -> {None} \cup Request]
         /\ graph' \in [Session -> SUBSET (Task \X Task)]
         /\ accepted' \in [Session -> SUBSET Task]
         /\ pc'[s] = "idle" /\ graph'[s] = {} /\ accepted'[s] = {}
         /\ \A x \in Session \ {s} :
              /\ pc'[x] = pc[x] /\ job'[x] = job[x]
              /\ graph'[x] = graph[x] /\ accepted'[x] = accepted[x]
BY DEF Release, Goto, TypeOK

LEMMA TypedInit == Init => Typed
BY DEF Init, Typed, TypeOK, LabelsAgree

LEMMA TypedStep == Typed /\ [Next]_vars => Typed'
<1> SUFFICES ASSUME Typed, [Next]_vars  PROVE Typed'
  OBVIOUS
<1> USE DEF Typed
<1> USE PayloadAssumption, CodesAreNumbers
<1>1. ASSUME NEW s \in Session, NEW q \in Payload, Mint(s, q)  PROVE Typed'
  <2> USE <1>1 DEF Mint, Goto, tables, history
  <2>1. job'[s] \in Request
    BY DEF TypeOK, Request
  <2>2. TypeOK'
    BY <2>1 DEF TypeOK
  <2>3. LabelsAgree'
    BY <2>1 DEF TypeOK, LabelsAgree
  <2> QED  BY <2>2, <2>3
<1>2. ASSUME NEW s \in Session, Insert(s)  PROVE Typed'
  <2> USE <1>2 DEF Insert, Goto, tables, history
  <2>1. TypeOK'
    BY DEF TypeOK
  <2>2. LabelsAgree'
    BY DEF TypeOK, LabelsAgree
  <2> QED  BY <2>1, <2>2
<1>3. ASSUME NEW s \in Session, NEW t \in Task, NEW q \in Payload, Open(s, t, q)
      PROVE  Typed'
  <2> USE <1>3 DEF Open, Goto, tables, history
  <2>1. job'[s] \in Request /\ job'[s].task = t
    BY DEF TypeOK, Request
  <2>2. TypeOK'
    BY <2>1 DEF TypeOK
  <2>3. LabelsAgree'
    BY <2>1 DEF TypeOK, LabelsAgree
  <2> QED  BY <2>2, <2>3
<1>4. ASSUME NEW s \in Session, ReadGraph(s)  PROVE Typed'
  <2> USE <1>4 DEF ReadGraph, Goto, tables, history
  <2>1. TypeOK'
    BY DEF TypeOK, Adjacency, Own
  <2>2. LabelsAgree'
    BY DEF TypeOK, LabelsAgree
  <2> QED  BY <2>1, <2>2
<1>5. ASSUME NEW s \in Session, NEW p \in Task, Accept(s, p)  PROVE Typed'
  <2> USE <1>5 DEF Accept, tables, history
  <2>1. job[s] \in Request
    BY DEF LabelsAgree
  <2>2. p \in tasks
    BY <2>1, NoEdgeBack DEF Eligible, Request
  <2>3. TypeOK'
    BY DEF TypeOK
  <2>4. LabelsAgree'
    BY <2>2 DEF TypeOK, LabelsAgree
  <2> QED  BY <2>3, <2>4
<1>6. ASSUME NEW s \in Session, Commit(s)  PROVE Typed'
  <2> DEFINE t == job[s].task
  <2>1. job[s] \in Request /\ t \in Task /\ accepted[s] \subseteq tasks
    BY <1>6 DEF Commit, Ready, LabelsAgree, Request
  <2>2. tasks' = tasks \cup {t} /\ archived' \subseteq archived \cup {t}
    BY <1>6 DEF Commit
  <2>3. edges' \subseteq edges \cup ({t} \X accepted[s])
    BY <1>6 DEF Commit, Own
  <2>4. tainted' \subseteq Session /\ raced' \in BOOLEAN
    BY <1>6 DEF Commit, TypeOK
  <2>5. Release(s)
    BY <1>6 DEF Commit
  <2>6. TypeOK'
    <3>1. tasks' \subseteq Task /\ archived' \subseteq tasks'
      BY <2>1, <2>2 DEF TypeOK
    <3>2. edges' \subseteq tasks' \X tasks'
      BY <2>1, <2>2, <2>3 DEF TypeOK
    <3> QED  BY <2>4, <2>5, <3>1, <3>2, Released DEF TypeOK
  <2>7. LabelsAgree'
    BY <2>2, <2>5, Released DEF TypeOK, LabelsAgree
  <2> QED  BY <2>6, <2>7
<1>7. ASSUME NEW s \in Session, Withdrawn(s)  PROVE Typed'
  <2>1. Release(s)
    BY <1>7 DEF Withdrawn
  <2>2. TypeOK'
    BY <1>7, <2>1, Released DEF Withdrawn, tables, TypeOK
  <2>3. LabelsAgree'
    BY <1>7, <2>1, Released DEF Withdrawn, tables, LabelsAgree
  <2> QED  BY <2>2, <2>3
<1>8. CASE UNCHANGED vars
  BY <1>8 DEF vars, tables, history, TypeOK, LabelsAgree
<1> QED
  BY <1>1, <1>2, <1>3, <1>4, <1>5, <1>6, <1>7, <1>8, StepsOfNext DEF Typed

\* The tables, the requests and what they have read are well formed, whatever
\* requests run together: no edge ever names a task that is not in the table.
THEOREM DependenciesTypeCorrect == Spec => []TypeOK
<1>1. Spec => []Typed
  BY TypedInit, TypedStep, PTL DEF Spec
<1>2. Typed => TypeOK
  BY DEF Typed
<1> QED  BY <1>1, <1>2, PTL

-----------------------------------------------------------------------------
(***************************************************************************)
(* Rows.  No two requests hold one row, and a row being created is in no   *)
(* table yet.                                                              *)
(***************************************************************************)
RowsAreExclusive ==
  \A s \in Holding :
    /\ job[s].new => job[s].task \notin tasks
    /\ \A x \in Holding \ {s} : job[x].task # job[s].task

LEMMA RowsStep ==
  ASSUME Typed, RowsAreExclusive, [Next]_vars
  PROVE  RowsAreExclusive'
<1> USE DEF Typed
<1>1. ASSUME NEW s \in Session, NEW q \in Payload, Mint(s, q)
      PROVE  RowsAreExclusive'
  BY <1>1 DEF Mint, Goto, tables, history, TypeOK, RowsAreExclusive, Holding
<1>2. ASSUME NEW s \in Session, Insert(s)  PROVE RowsAreExclusive'
  <2>1. job[s].new /\ job[s].task \notin tasks
    BY <1>2 DEF Insert, LabelsAgree
  <2>2. \A x \in Holding \ {s} : job[x].task # job[s].task
    BY <1>2, <2>1 DEF Insert, CodeFree, Holding, LabelsAgree
  <2>3. Holding' = Holding \cup {s} /\ job' = job /\ tasks' = tasks
    BY <1>2 DEF Insert, Goto, tables, history, TypeOK, Holding
  <2> QED  BY <2>1, <2>2, <2>3 DEF RowsAreExclusive
<1>3. ASSUME NEW s \in Session, NEW t \in Task, NEW q \in Payload, Open(s, t, q)
      PROVE  RowsAreExclusive'
  <2>1. Holding' = Holding \cup {s} /\ s \notin Holding /\ tasks' = tasks
    BY <1>3 DEF Open, Goto, tables, history, TypeOK, Holding
  <2>2. ~job'[s].new /\ job'[s].task = t
    BY <1>3 DEF Open, TypeOK
  <2>3. \A x \in Holding : job'[x] = job[x] /\ job[x].task # t
    BY <1>3, <2>1 DEF Open, TypeOK, Holding
  <2> QED  BY <2>1, <2>2, <2>3 DEF RowsAreExclusive
<1>4. ASSUME NEW s \in Session, ReadGraph(s)  PROVE RowsAreExclusive'
  BY <1>4 DEF ReadGraph, Goto, tables, history, TypeOK, RowsAreExclusive, Holding
<1>5. ASSUME NEW s \in Session, NEW p \in Task, Accept(s, p)
      PROVE  RowsAreExclusive'
  BY <1>5 DEF Accept, tables, history, RowsAreExclusive, Holding
<1>6. ASSUME NEW s \in Session, Commit(s)  PROVE RowsAreExclusive'
  <2>1. s \in Holding /\ Release(s) /\ tasks' = tasks \cup {job[s].task}
    BY <1>6 DEF Commit, Ready, Holding
  <2>2. Holding' = Holding \ {s} /\ \A x \in Holding' : job'[x] = job[x]
    BY <2>1, Released DEF Holding
  <2> QED  BY <2>1, <2>2 DEF RowsAreExclusive
<1>7. ASSUME NEW s \in Session, Withdrawn(s)  PROVE RowsAreExclusive'
  <2>1. Release(s) /\ tasks' = tasks
    BY <1>7 DEF Withdrawn, tables
  <2>2. Holding' = Holding \ {s} /\ \A x \in Holding' : job'[x] = job[x]
    BY <2>1, Released DEF Holding
  <2> QED  BY <2>1, <2>2 DEF RowsAreExclusive
<1>8. CASE UNCHANGED vars
  BY <1>8 DEF vars, tables, RowsAreExclusive, Holding
<1> QED
  BY <1>1, <1>2, <1>3, <1>4, <1>5, <1>6, <1>7, <1>8, StepsOfNext

\* Concurrent creations never put two tasks under one code: the unique index
\* makes one of them fail.
THEOREM CodesStayUnique == Spec => []CodesAreUnique
<1>1. Init => RowsAreExclusive
  BY DEF Init, RowsAreExclusive, Holding
<1>2. Typed /\ RowsAreExclusive /\ [Next]_vars => RowsAreExclusive'
  BY RowsStep
<1>3. RowsAreExclusive => CodesAreUnique
  BY DEF RowsAreExclusive, CodesAreUnique
<1> QED
  BY <1>1, <1>2, <1>3, TypedInit, TypedStep, PTL DEF Spec

-----------------------------------------------------------------------------
(***************************************************************************)
(* Mutual dependencies.  While a request checks prerequisites, no edge is  *)
(* committed that points at its task: the foreign key of such an edge      *)
(* waits for the row lock.  So every edge that points at it is one the     *)
(* request has read, and none of those starts at an accepted prerequisite. *)
(***************************************************************************)
EdgesAtTaskAreRead ==
  \A s \in Session : pc[s] = "checking" =>
    /\ \A e \in edges : e[2] = job[s].task => e \in graph[s]
    /\ \A p \in accepted[s] :
         p # job[s].task /\ <<p, job[s].task>> \notin graph[s]

MutualInv == NoMutualDependency /\ EdgesAtTaskAreRead

\* The edges a commit leaves.
LEMMA CommittedEdges ==
  ASSUME Typed, NEW s \in Session, Commit(s)
  PROVE  /\ job[s] \in Request
         /\ edges' \subseteq edges \cup Inserted(s)
         /\ Inserted(s) \subseteq {job[s].task} \X accepted[s]
         /\ Inserted(s) # {} => pc[s] = "checking"
         /\ pc[s] = "checking" =>
              edges' = (edges \ Own(edges, job[s].task))
                         \cup ({job[s].task} \X accepted[s])
BY DEF Commit, Ready, Typed, LabelsAgree, Inserted, Own

\* A commit adds no edge at the task of another request.
LEMMA ForeignKeyWaits ==
  ASSUME Typed, RowsAreExclusive, NEW s \in Session, Commit(s),
         NEW x \in Holding \ {s}, NEW e \in edges', e[2] = job[x].task
  PROVE  e \in edges
<1> SUFFICES ASSUME e \in Inserted(s)  PROVE FALSE
  BY CommittedEdges
<1>1. e[2] \in accepted[s] /\ accepted[s] \subseteq tasks
  BY CommittedEdges DEF Typed, LabelsAgree
<1>2. CASE job[x].new
  BY <1>1, <1>2 DEF RowsAreExclusive
<1>3. CASE ~job[x].new
  BY <1>3 DEF Commit, WaitsFor
<1> QED  BY <1>2, <1>3

LEMMA MutualStep ==
  ASSUME Typed, RowsAreExclusive, MutualInv, [Next]_vars
  PROVE  MutualInv'
<1> USE DEF Typed, MutualInv
<1>1. ASSUME NEW s \in Session, NEW q \in Payload, Mint(s, q)
      PROVE  MutualInv'
  BY <1>1 DEF Mint, Goto, tables, history, TypeOK, NoMutualDependency,
              EdgesAtTaskAreRead
<1>2. ASSUME NEW s \in Session, Insert(s)  PROVE MutualInv'
  BY <1>2 DEF Insert, Goto, tables, history, TypeOK, NoMutualDependency,
              EdgesAtTaskAreRead
<1>3. ASSUME NEW s \in Session, NEW t \in Task, NEW q \in Payload, Open(s, t, q)
      PROVE  MutualInv'
  BY <1>3 DEF Open, Goto, tables, history, TypeOK, NoMutualDependency,
              EdgesAtTaskAreRead
<1>4. ASSUME NEW s \in Session, ReadGraph(s)  PROVE MutualInv'
  <2>1. /\ edges' = edges /\ job' = job /\ accepted' = accepted
        /\ graph'[s] = edges \ Own(edges, job[s].task)
        /\ \A x \in Session \ {s} : pc'[x] = pc[x] /\ graph'[x] = graph[x]
    BY <1>4 DEF ReadGraph, Goto, tables, history, TypeOK, Adjacency
  <2>2. accepted[s] = {}
    BY <1>4 DEF ReadGraph, LabelsAgree
  <2>3. \A e \in edges : e[2] = job[s].task => e \in graph'[s]
    <3> SUFFICES ASSUME NEW e \in edges, e[2] = job[s].task, e[1] = job[s].task
                 PROVE  FALSE
      BY <2>1 DEF Own
    <3>1. e = <<e[1], e[2]>>
      BY DEF TypeOK
    <3> QED  BY <3>1 DEF NoMutualDependency
  <2> QED
    BY <2>1, <2>2, <2>3 DEF NoMutualDependency, EdgesAtTaskAreRead
<1>5. ASSUME NEW s \in Session, NEW p \in Task, Accept(s, p)  PROVE MutualInv'
  <2>1. job[s].task \in Task
    BY <1>5 DEF Accept, LabelsAgree, Request
  <2>2. p # job[s].task /\ <<p, job[s].task>> \notin graph[s]
    BY <1>5, <2>1, NoEdgeBack DEF Accept, Extended
  <2>3. /\ UNCHANGED <<edges, pc, job, graph>>
        /\ accepted'[s] = accepted[s] \cup {p}
        /\ \A x \in Session \ {s} : accepted'[x] = accepted[x]
    BY <1>5 DEF Accept, tables, history, TypeOK
  <2> QED  BY <2>2, <2>3 DEF NoMutualDependency, EdgesAtTaskAreRead
<1>6. ASSUME NEW s \in Session, Commit(s)  PROVE MutualInv'
  <2> DEFINE t == job[s].task
  <2>1. NoMutualDependency'
    <3> SUFFICES ASSUME NEW e \in edges', <<e[2], e[1]>> \in edges'
                 PROVE  FALSE
      BY DEF NoMutualDependency
    <3>1. \A p \in accepted[s] : <<p, t>> \notin edges'
      <4> SUFFICES ASSUME NEW p \in accepted[s], <<p, t>> \in edges'
                   PROVE  FALSE
        OBVIOUS
      <4>1. pc[s] = "checking" /\ p # t /\ <<p, t>> \notin graph[s]
        BY <1>6 DEF Commit, Ready, LabelsAgree, EdgesAtTaskAreRead
      <4>2. <<p, t>> \in edges
        BY <1>6, <4>1, CommittedEdges
      <4> QED  BY <4>1, <4>2 DEF EdgesAtTaskAreRead
    <3>2. e \in edges \/ (e[1] = t /\ e[2] \in accepted[s])
      BY <1>6, CommittedEdges
    <3>3. <<e[2], e[1]>> \in edges \/ (e[2] = t /\ e[1] \in accepted[s])
      BY <1>6, CommittedEdges
    <3>4. e = <<e[1], e[2]>>
      BY <3>2, <1>6, CommittedEdges DEF TypeOK
    <3> QED  BY <3>1, <3>2, <3>3, <3>4 DEF NoMutualDependency
  <2>2. EdgesAtTaskAreRead'
    <3> SUFFICES ASSUME NEW x \in Session, pc'[x] = "checking"
                 PROVE  /\ \A e \in edges' : e[2] = job'[x].task => e \in graph'[x]
                        /\ \A p \in accepted'[x] :
                             p # job'[x].task
                               /\ <<p, job'[x].task>> \notin graph'[x]
      BY DEF EdgesAtTaskAreRead
    <3>1. /\ x # s /\ pc[x] = "checking" /\ job'[x] = job[x]
          /\ graph'[x] = graph[x] /\ accepted'[x] = accepted[x]
      BY <1>6, Released DEF Commit
    <3>2. x \in Holding \ {s}
      BY <3>1 DEF Holding
    <3> QED  BY <1>6, <3>1, <3>2, ForeignKeyWaits DEF EdgesAtTaskAreRead
  <2> QED  BY <2>1, <2>2
<1>7. ASSUME NEW s \in Session, Withdrawn(s)  PROVE MutualInv'
  BY <1>7, Released DEF Withdrawn, tables, NoMutualDependency,
                        EdgesAtTaskAreRead
<1>8. CASE UNCHANGED vars
  BY <1>8 DEF vars, tables, NoMutualDependency, EdgesAtTaskAreRead
<1> QED
  BY <1>1, <1>2, <1>3, <1>4, <1>5, <1>6, <1>7, <1>8, StepsOfNext

\* Two tasks never wait for each other, although neither request sees the
\* other's edge: the locks order them, or one is rolled back.
THEOREM NoTwoTasksWaitForEachOther == Spec => []NoMutualDependency
<1>1. Init => RowsAreExclusive /\ MutualInv
  BY DEF Init, RowsAreExclusive, Holding, MutualInv, NoMutualDependency,
         EdgesAtTaskAreRead
<1>2. Typed /\ RowsAreExclusive /\ MutualInv /\ [Next]_vars
        => RowsAreExclusive' /\ MutualInv'
  BY RowsStep, MutualStep
<1>3. MutualInv => NoMutualDependency
  BY DEF MutualInv
<1> QED
  BY <1>1, <1>2, <1>3, TypedInit, TypedStep, PTL DEF Spec

-----------------------------------------------------------------------------
(***************************************************************************)
(* Loops.  A request that nobody has overtaken still knows every edge but  *)
(* its task's own, so the graph it has found free of loops is the one that *)
(* its commit leaves.                                                      *)
(***************************************************************************)
CheckedGraphs ==
  Acyclic(edges) /\
  \A s \in Session : pc[s] = "checking" =>
    /\ Acyclic(Extended(s))
    /\ s \in tainted \/ edges \ Own(edges, job[s].task) \subseteq graph[s]

LoopInv == raced \/ CheckedGraphs

LEMMA LoopStep ==
  ASSUME Typed, LoopInv, [Next]_vars
  PROVE  LoopInv'
<1> USE DEF Typed, LoopInv
<1>1. ASSUME NEW s \in Session, NEW q \in Payload, Mint(s, q)  PROVE LoopInv'
  <2>1. /\ UNCHANGED <<edges, graph, accepted, tainted, raced>>
        /\ pc'[s] # "checking"
        /\ \A x \in Session \ {s} : pc'[x] = pc[x] /\ job'[x] = job[x]
    BY <1>1 DEF Mint, Goto, tables, history, TypeOK
  <2> QED  BY <2>1 DEF CheckedGraphs, Extended, Own
<1>2. ASSUME NEW s \in Session, Insert(s)  PROVE LoopInv'
  <2>1. /\ UNCHANGED <<edges, graph, accepted, tainted, raced, job>>
        /\ pc'[s] # "checking"
        /\ \A x \in Session \ {s} : pc'[x] = pc[x]
    BY <1>2 DEF Insert, Goto, tables, history, TypeOK
  <2> QED  BY <2>1 DEF CheckedGraphs, Extended, Own
<1>3. ASSUME NEW s \in Session, NEW t \in Task, NEW q \in Payload, Open(s, t, q)
      PROVE  LoopInv'
  <2>1. /\ UNCHANGED <<edges, graph, accepted, tainted, raced>>
        /\ pc'[s] # "checking"
        /\ \A x \in Session \ {s} : pc'[x] = pc[x] /\ job'[x] = job[x]
    BY <1>3 DEF Open, Goto, tables, history, TypeOK
  <2> QED  BY <2>1 DEF CheckedGraphs, Extended, Own
<1>4. ASSUME NEW s \in Session, ReadGraph(s)  PROVE LoopInv'
  <2>1. /\ UNCHANGED <<edges, job, accepted, tainted, raced>>
        /\ graph'[s] = edges \ Own(edges, job[s].task)
        /\ \A x \in Session \ {s} : pc'[x] = pc[x] /\ graph'[x] = graph[x]
    BY <1>4 DEF ReadGraph, Goto, tables, history, TypeOK, Adjacency
  <2>2. accepted[s] = {}
    BY <1>4 DEF ReadGraph, LabelsAgree
  <2>3. Extended(s)' \subseteq edges
    BY <2>1, <2>2 DEF Extended
  <2>4. CheckedGraphs => Acyclic(Extended(s)')
    BY <2>3, FewerEdges DEF CheckedGraphs
  <2> QED  BY <2>1, <2>4 DEF CheckedGraphs, Extended, Own
<1>5. ASSUME NEW s \in Session, NEW p \in Task, Accept(s, p)  PROVE LoopInv'
  <2> DEFINE t == job[s].task
  <2>1. t \in Task /\ pc[s] = "checking" /\ ~ClosesLoop(Extended(s), t, p)
    BY <1>5 DEF Accept, LabelsAgree, Request
  <2>2. /\ UNCHANGED <<edges, job, graph, tainted, raced, pc>>
        /\ accepted'[s] = accepted[s] \cup {p}
        /\ \A x \in Session \ {s} : accepted'[x] = accepted[x]
    BY <1>5 DEF Accept, tables, history, TypeOK
  <2>3. Extended(s)' = Extended(s) \cup {<<t, p>>}
    BY <2>2 DEF Extended
  <2>4. CheckedGraphs => Acyclic(Extended(s)')
    BY <2>1, <2>3, CheckedEdge DEF CheckedGraphs
  <2> QED  BY <2>2, <2>4 DEF CheckedGraphs, Extended, Own
<1>6. ASSUME NEW s \in Session, Commit(s)  PROVE LoopInv'
  <2> DEFINE t == job[s].task
  <2> SUFFICES ASSUME ~raced'  PROVE CheckedGraphs'
    OBVIOUS
  <2>1. CheckedGraphs /\ (s \notin tainted \/ Inserted(s) = {})
    BY <1>6 DEF Commit
  <2>2. Acyclic(edges')
    <3>1. CASE Inserted(s) = {}
      BY <1>6, <2>1, <3>1, CommittedEdges, FewerEdges DEF CheckedGraphs
    <3>2. CASE Inserted(s) # {}
      <4>1. pc[s] = "checking" /\ s \notin tainted
        BY <1>6, <2>1, <3>2, CommittedEdges
      <4>2. edges' \subseteq Extended(s)
        <5>1. edges' = (edges \ Own(edges, t)) \cup ({t} \X accepted[s])
          BY <1>6, <4>1, CommittedEdges
        <5>2. edges \ Own(edges, t) \subseteq graph[s]
          BY <2>1, <4>1 DEF CheckedGraphs
        <5> QED  BY <5>1, <5>2 DEF Extended
      <4> QED  BY <2>1, <4>1, <4>2, FewerEdges DEF CheckedGraphs
    <3> QED  BY <3>1, <3>2
  <2>3. ASSUME NEW x \in Session, pc'[x] = "checking"
        PROVE  /\ Acyclic(Extended(x)')
               /\ x \in tainted' \/ edges' \ Own(edges', job'[x].task) \subseteq graph'[x]
    <3>1. /\ x # s /\ pc[x] = "checking" /\ job'[x] = job[x]
          /\ graph'[x] = graph[x] /\ accepted'[x] = accepted[x]
      BY <1>6, <2>3, Released DEF Commit
    <3>2. Extended(x)' = Extended(x)
      BY <3>1 DEF Extended
    <3>3. CASE Inserted(s) = {}
      <4>1. x \in tainted => x \in tainted'
        BY <1>6, <3>1, <3>3 DEF Commit
      <4>2. edges' \subseteq edges
        BY <1>6, <3>3, CommittedEdges
      <4> QED  BY <2>1, <3>1, <3>2, <4>1, <4>2 DEF CheckedGraphs, Own
    <3>4. CASE Inserted(s) # {}
      <4>1. x \in tainted'
        BY <1>6, <3>1, <3>4 DEF Commit
      <4> QED  BY <2>1, <3>1, <3>2, <4>1 DEF CheckedGraphs
    <3> QED  BY <3>3, <3>4
  <2> QED  BY <2>2, <2>3 DEF CheckedGraphs
<1>7. ASSUME NEW s \in Session, Withdrawn(s)  PROVE LoopInv'
  <2>1. Release(s) /\ UNCHANGED <<edges, raced>> /\ tainted' = tainted \ {s}
    BY <1>7 DEF Withdrawn, tables
  <2>2. \A x \in Session : pc'[x] = "checking" =>
          /\ x # s /\ pc[x] = "checking" /\ job'[x] = job[x]
          /\ graph'[x] = graph[x] /\ accepted'[x] = accepted[x]
    BY <2>1, Released
  <2> QED  BY <2>1, <2>2 DEF CheckedGraphs, Extended, Own
<1>8. CASE UNCHANGED vars
  BY <1>8 DEF vars, tables, history, CheckedGraphs, Extended, Own
<1> QED
  BY <1>1, <1>2, <1>3, <1>4, <1>5, <1>6, <1>7, <1>8, StepsOfNext

\* A loop in the graph has one cause only: an edge committed by a request
\* after another request has added one that it had not read.
THEOREM OnlyRacesCloseLoops == Spec => []LoopsNeedARace
<1>1. Init => LoopInv
  <2>1. Acyclic({})
    BY DEF Acyclic
  <2>2. Init => edges = {} /\ \A s \in Session : pc[s] = "idle"
    BY DEF Init
  <2> QED  BY <2>1, <2>2 DEF LoopInv, CheckedGraphs
<1>2. Typed /\ LoopInv /\ [Next]_vars => LoopInv'
  BY LoopStep
<1>3. LoopInv => LoopsNeedARace
  BY DEF LoopInv, CheckedGraphs, LoopsNeedARace
<1> QED
  BY <1>1, <1>2, <1>3, TypedInit, TypedStep, PTL DEF Spec

-----------------------------------------------------------------------------
(***************************************************************************)
(* What would make the graph acyclic.  Nothing in the code keeps two       *)
(* requests of one project from checking prerequisites together; a lock    *)
(* of the project from the read of the graph to the commit would.          *)
(***************************************************************************)
OneCheckAtATime ==
  \A s, x \in Session : pc[s] = "checking" /\ pc[x] = "checking" => s = x

NobodyIsOvertaken == tainted = {} /\ raced = FALSE

LEMMA ExclusionStep ==
  ASSUME Typed, OneCheckAtATime, NobodyIsOvertaken, [Next]_vars
  PROVE  NobodyIsOvertaken'
<1> USE DEF NobodyIsOvertaken
<1>1. ASSUME NEW s \in Session, Commit(s)  PROVE NobodyIsOvertaken'
  <2>1. raced' = FALSE
    BY <1>1 DEF Commit
  <2>2. CASE Inserted(s) = {}
    BY <1>1, <2>1, <2>2 DEF Commit
  <2>3. CASE Inserted(s) # {}
    <3>1. pc[s] = "checking"
      BY <1>1, <2>3, CommittedEdges
    <3>2. {x \in Session : pc[x] = "checking"} \ {s} = {}
      BY <3>1 DEF OneCheckAtATime
    <3> QED  BY <1>1, <2>1, <2>3, <3>2 DEF Commit
  <2> QED  BY <2>2, <2>3
<1>2. ASSUME NEW s \in Session, Withdrawn(s)  PROVE NobodyIsOvertaken'
  BY <1>2 DEF Withdrawn
<1>3. ASSUME UNCHANGED history  PROVE NobodyIsOvertaken'
  BY <1>3 DEF history
<1> QED
  BY <1>1, <1>2, <1>3, StepsOfNext
     DEF Typed, Mint, Insert, Open, ReadGraph, Accept, vars

\* When requests check their prerequisites one at a time, the dependency graph
\* is acyclic, as DATA_MODEL.md says: the check of find_dependency_cycle is
\* sufficient, and its exclusion is all that is missing.
THEOREM OneCheckKeepsAcyclic == Spec /\ []OneCheckAtATime => []GraphIsAcyclic
<1>1. Init => NobodyIsOvertaken
  BY DEF Init, NobodyIsOvertaken
<1>2. Typed /\ OneCheckAtATime /\ NobodyIsOvertaken /\ [Next]_vars
        => NobodyIsOvertaken'
  BY ExclusionStep
<1>3. NobodyIsOvertaken /\ LoopsNeedARace => GraphIsAcyclic
  BY DEF NobodyIsOvertaken, LoopsNeedARace, GraphIsAcyclic
<1>4. Spec => []LoopsNeedARace
  BY OnlyRacesCloseLoops
<1> QED
  BY <1>1, <1>2, <1>3, <1>4, TypedInit, TypedStep, PTL DEF Spec
=============================================================================
