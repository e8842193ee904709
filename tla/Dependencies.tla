---------------------------- MODULE Dependencies ----------------------------
(***************************************************************************)
(* The dependency graph of one project's tasks (apps/work) under           *)
(* concurrent requests: create_task and update_task with its removal,      *)
(* restoration and replacement of prerequisites.                           *)
(*                                                                         *)
(* A request runs in a READ COMMITTED transaction.  An update holds its    *)
(* task's row FOR UPDATE; nobody locks the graph, which is read once,      *)
(* before the prerequisites are checked against it one by one.  The        *)
(* foreign key of an inserted edge is checked when the transaction         *)
(* commits, and takes a share lock on the row of the prerequisite then.    *)
(***************************************************************************)
EXTENDS Naturals

CONSTANTS
  Task,       \* the numbers a task code of the project can end in
  Session,    \* requests served at once
  Payload,    \* what people ask for: is_archived and dependencies
  None        \* a field the payload leaves out, no request in hand

\* A create_task, if new, or an update_task of this task.
Request ==
  [task : Task, new : BOOLEAN, removed : {None} \cup BOOLEAN,
   wanted : {None} \cup SUBSET Task]

ASSUME CodesAreNumbers == Task \subseteq Nat
ASSUME PayloadAssumption ==
  Payload \subseteq [removed : {None} \cup BOOLEAN,
                     wanted : {None} \cup SUBSET Task]
ASSUME NoneIsNoRequest ==
  None \notin BOOLEAN /\ None \notin Request /\ \A W \in SUBSET Task : W # None

VARIABLES
  tasks,      \* rows of work_task
  archived,   \* rows with is_archived
  edges,      \* resolved rows of work_taskdependency: <<task, depends_on>>
  pc,         \* what each session is doing
  job,        \* the request it serves
  graph,      \* the adjacency it has read
  accepted,   \* prerequisites it has found legal
  tainted,    \* history: sessions whose graph has since gained an edge
  raced       \* history: such a session has committed an edge

tables  == <<tasks, archived, edges>>
history == <<tainted, raced>>
vars    == <<tables, pc, job, graph, accepted, history>>

-----------------------------------------------------------------------------
\* Every code the prerequisites of D lead to, D included.
Reach(E, D) ==
  {n \in Task : \A C \in SUBSET Task :
     D \subseteq C /\ (\A e \in E : e[1] \in C => e[2] \in C) => n \in C}

\* In every set of tasks one waits for none of the others, nor for itself.
Acyclic(E) ==
  \A S \in (SUBSET Task) \ {{}} : \E x \in S : \A y \in S : <<x, y>> \notin E

\* find_dependency_cycle finds a loop.
ClosesLoop(E, t, p) == t \in Reach(E, {p})

\* next_code_for: one more than the highest suffix, removed tasks included.
NextCode == 1 + (CHOOSE n \in tasks \cup {0} : \A m \in tasks : m <= n)

Own(E, t) == {e \in E : e[1] = t}

\* Mutant: the adjacency is scoped to the tasks nobody removed.
AdjacencyOfActive == {e \in edges : e[1] \notin archived /\ e[2] \notin archived}

\* TaskDependency.objects.for_project().resolved().adjacency(), unscoped.
Adjacency == edges

\* Mutant: a prerequisite is looked up among uncommitted tasks too.
EligibleUncommitted(s, p) == p \notin archived

\* Task.objects.active().for_code(p), in the transaction of s.
Eligible(s, p) ==
  \/ p \in tasks \ archived
  \/ job[s].new /\ p = job[s].task

\* The sessions that hold a row of work_task: locked, or inserted.
Holding == {s \in Session : pc[s] \in {"open", "checking"}}

\* Mutant: no unique index on the code.
CodeFreeUnchecked(s) == TRUE

\* No other transaction has the same code inserted and not committed.
CodeFree(s) ==
  \A x \in Holding \ {s} : ~(job[x].new /\ job[x].task = job[s].task)

\* The edges the commit of s inserts.
Inserted(s) == ({job[s].task} \X accepted[s]) \ edges

\* Mutant: rows are locked FOR NO KEY UPDATE.
WaitsForNobody(s) == {}

\* Sessions whose FOR UPDATE lock the foreign keys of s wait for.
WaitsFor(s) ==
  {x \in Holding \ {s} : ~job[x].new /\ \E e \in Inserted(s) : e[2] = job[x].task}

Goto(s, label) == pc' = [pc EXCEPT ![s] = label]

Release(s) ==
  /\ Goto(s, "idle")
  /\ job' = [job EXCEPT ![s] = None]
  /\ graph' = [graph EXCEPT ![s] = {}]
  /\ accepted' = [accepted EXCEPT ![s] = {}]

-----------------------------------------------------------------------------
\* create_task mints a code from the committed ones.
Mint(s, q) ==
  /\ pc[s] = "idle"
  /\ q.removed = None /\ q.wanted # None
  /\ NextCode \in Task
  /\ job' = [job EXCEPT ![s] =
       [task |-> NextCode, new |-> TRUE, removed |-> None,
        wanted |-> q.wanted]]
  /\ Goto(s, "minted")
  /\ UNCHANGED <<tables, graph, accepted, history>>

\* It inserts the row, once the unique index has the last word on the code.
Insert(s) ==
  /\ pc[s] = "minted"
  /\ CodeFree(s)
  /\ job[s].task \notin tasks
  /\ Goto(s, "open")
  /\ UNCHANGED <<tables, job, graph, accepted, history>>

\* Another creation took the code: IntegrityError.
CodeTaken(s) ==
  /\ pc[s] = "minted"
  /\ job[s].task \in tasks
  /\ Release(s)
  /\ tainted' = tainted \ {s}
  /\ UNCHANGED <<tables, raced>>

\* update_task locks the row, removed or not.
Open(s, t, q) ==
  /\ pc[s] = "idle"
  /\ t \in tasks
  /\ \A x \in Holding : job[x].task # t
  /\ job' = [job EXCEPT ![s] =
       [task |-> t, new |-> FALSE, removed |-> q.removed,
        wanted |-> q.wanted]]
  /\ Goto(s, "open")
  /\ UNCHANGED <<tables, graph, accepted, history>>

\* _resolve_dependencies reads the graph without the task's own edges, which
\* its row lock keeps as they are.
ReadGraph(s) ==
  /\ pc[s] = "open"
  /\ job[s].wanted # None
  /\ graph' = [graph EXCEPT ![s] = Adjacency \ Own(Adjacency, job[s].task)]
  /\ Goto(s, "checking")
  /\ UNCHANGED <<tables, job, accepted, history>>

\* The graph s checks a prerequisite against, the accepted ones included.
Extended(s) == graph[s] \cup ({job[s].task} \X accepted[s])

\* One prerequisite is an unremoved task and closes no loop.
Accept(s, p) ==
  /\ pc[s] = "checking"
  /\ p \in job[s].wanted \ accepted[s]
  /\ Eligible(s, p)
  /\ ~ClosesLoop(Extended(s), job[s].task, p)
  /\ accepted' = [accepted EXCEPT ![s] = @ \cup {p}]
  /\ UNCHANGED <<tables, pc, job, graph, history>>

\* TaskNotFound or DependencyCycle.
Refuse(s, p) ==
  /\ pc[s] = "checking"
  /\ p \in job[s].wanted \ accepted[s]
  /\ ~Eligible(s, p) \/ ClosesLoop(Extended(s), job[s].task, p)
  /\ Release(s)
  /\ tainted' = tainted \ {s}
  /\ UNCHANGED <<tables, raced>>

\* Every field of the payload has been dealt with.
Ready(s) ==
  \/ pc[s] = "open" /\ job[s].wanted = None
  \/ pc[s] = "checking" /\ accepted[s] = job[s].wanted

\* Surplus edges are deleted, missing ones inserted, and it all commits.
Commit(s) ==
  LET t == job[s].task IN
  /\ Ready(s)
  /\ WaitsFor(s) = {}
  /\ tasks' = tasks \cup {t}
  /\ archived' = CASE job[s].removed = TRUE  -> archived \cup {t}
                   [] job[s].removed = FALSE -> archived \ {t}
                   [] OTHER                  -> archived
  /\ edges' = IF job[s].wanted = None THEN edges
              ELSE (edges \ Own(edges, t)) \cup ({t} \X accepted[s])
  /\ tainted' = (IF Inserted(s) = {} THEN tainted
                 ELSE {x \in Session : pc[x] = "checking"}) \ {s}
  /\ raced' = (raced \/ (s \in tainted /\ Inserted(s) # {}))
  /\ Release(s)

\* The sessions each ready session waits for, and those these wait for, ...
Blocking(s) ==
  {x \in Session : \A C \in SUBSET Session :
     /\ WaitsFor(s) \subseteq C
     /\ \A y \in C : Ready(y) => WaitsFor(y) \subseteq C
     => x \in C}

\* PostgreSQL rolls back one of the sessions that wait for each other.
DeadlockVictim(s) ==
  /\ Ready(s)
  /\ s \in Blocking(s)
  /\ Release(s)
  /\ tainted' = tainted \ {s}
  /\ UNCHANGED <<tables, raced>>

\* The request fails for another reason, or its process is killed.
Abort(s) ==
  /\ pc[s] # "idle"
  /\ Release(s)
  /\ tainted' = tainted \ {s}
  /\ UNCHANGED <<tables, raced>>

-----------------------------------------------------------------------------
Init ==
  /\ tasks = {} /\ archived = {} /\ edges = {}
  /\ pc = [s \in Session |-> "idle"]
  /\ job = [s \in Session |-> None]
  /\ graph = [s \in Session |-> {}]
  /\ accepted = [s \in Session |-> {}]
  /\ tainted = {} /\ raced = FALSE

Next ==
  \E s \in Session :
    \/ \E q \in Payload : Mint(s, q)
    \/ Insert(s) \/ CodeTaken(s)
    \/ \E t \in Task, q \in Payload : Open(s, t, q)
    \/ ReadGraph(s)
    \/ \E p \in Task : Accept(s, p) \/ Refuse(s, p)
    \/ Commit(s)
    \/ DeadlockVictim(s) \/ Abort(s)

Spec == Init /\ [][Next]_vars

-----------------------------------------------------------------------------
TypeOK ==
  /\ tasks \subseteq Task
  /\ archived \subseteq tasks
  /\ edges \subseteq tasks \X tasks
  /\ pc \in [Session -> {"idle", "minted", "open", "checking"}]
  /\ job \in [Session -> {None} \cup Request]
  /\ graph \in [Session -> SUBSET (Task \X Task)]
  /\ accepted \in [Session -> SUBSET Task]
  /\ tainted \subseteq Session
  /\ raced \in BOOLEAN

\* The numbering is safe under concurrent creations, which may mint one code
\* twice: a row is inserted once, and never over the code of another task,
\* removed or not, whose history it would join.
CodesAreUnique ==
  \A s \in Holding : job[s].new =>
    /\ job[s].task \notin tasks
    /\ \A x \in Holding \ {s} : job[x].task # job[s].task

\* The graph has no loop, although requests check it without locking it, and
\* although tasks on it are removed and restored: the only way to one is an
\* edge committed on a graph that has gained another since it was read.
LoopsNeedARace == Acyclic(edges) \/ raced

\* Two tasks never wait for each other, not even in such a race: the foreign
\* key of one edge waits for the row lock of the other's request.
NoMutualDependency ==
  \A e \in edges : <<e[2], e[1]>> \notin edges

\* The claim of DATA_MODEL.md that the dependency graph is acyclic.
GraphIsAcyclic == Acyclic(edges)
=============================================================================
