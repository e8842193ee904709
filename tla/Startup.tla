------------------------------ MODULE Startup ------------------------------
(****************************************************************************)
(* The seed, at every start of the api container (docker-entrypoint.sh:      *)
(* migrate, `seed` outside production, serve) and by hand on a system that   *)
(* is being served.  It loads the fixtures over whatever operators have made *)
(* of the rows since, realigns the code sequences and scores the portfolio,  *)
(* with a commit of its own for each step; the container may be killed       *)
(* between any two of these.                                                 *)
(*                                                                           *)
(* During a start nobody is served, so the seed is concurrent with the       *)
(* worker only; a seed run by hand is concurrent with the operators too.     *)
(****************************************************************************)
EXTENDS Naturals, FiniteSets, Sequences

CONSTANTS
  Project,       \* codes
  Fact,          \* what a project's row and its tasks say, as far as it matters
  Archived,      \* the facts of an archived project
  SeedFact,      \* of a project: what the fixtures say, None if not in them
  Version, SeedVersion,  \* policies, and the one the fixtures activate
  Title,         \* of a task, suffix or no suffix
  Sheet, NewRow, \* the Tasks of the dataset, and a row a developer may add
  SeedBlockers,  \* how many blockers the dataset's prose makes
  TaskLimit, LinkLimit, CodeLimit, \* bounds: rows of tasks, edges and blockers
  EditLimit,     \* bound: changes by operators in a behaviour
  Worker,        \* slots of the worker
  Seeder,        \* the process that runs the seed
  None

Session == Worker \cup {Seeder}

TaskId == 1..TaskLimit
LinkId == 1..LinkLimit
Number == 1..CodeLimit
Prose  == 0      \* an edge that names no task: depends_on is null

Row == [project : Project, title : Title, needs : Title \cup {None}]

Loop(links) == \E S \in SUBSET {l[1] : l \in links} :
                 S # {} /\ \A t \in S : \E l \in links : l[1] = t /\ l[2] \in S

-----------------------------------------------------------------------------
(* The fixtures (scripts/xlsx_to_fixtures.py), of a dataset. *)

\* _dependency_index: of two tasks of a project with one title, the later.
Titled(sheet, p, title) ==
  {i \in DOMAIN sheet : sheet[i].project = p /\ sheet[i].title = title}

Target(sheet, i) ==
  LET found == Titled(sheet, sheet[i].project, sheet[i].needs)
  IN  IF found = {} THEN Prose ELSE CHOOSE j \in found : \A k \in found : k <= j

\* build_work leaves out the tasks that name themselves ...
Needing(sheet) ==
  {i \in DOMAIN sheet : sheet[i].needs # None /\ Target(sheet, i) # i}

\* ... and numbers the edges in the order of the sheet.
Waiting(sheet) ==
  LET found == Needing(sheet)
  IN  [n \in 1..Cardinality(found) |->
         CHOOSE i \in found : Cardinality({j \in found : j <= i}) = n]

Link(sheet, n) == <<Waiting(sheet)[n], Target(sheet, Waiting(sheet)[n])>>

ASSUME SeedAssumption ==
  /\ SeedFact \in [Project -> Fact \cup {None}] /\ Archived \subseteq Fact
  /\ \A p \in Project : SeedFact[p] \notin Archived
  /\ SeedVersion \in Version /\ SeedBlockers \in 0..CodeLimit
  /\ None \notin Project \cup Fact \cup Version \cup Title \cup (TaskId \X (TaskId \cup {Prose}))
  /\ None \notin [fact : Fact, version : Version]
  /\ Seeder \notin Worker
ASSUME SheetAssumption ==
  /\ Sheet \in Seq(Row) /\ NewRow \subseteq Row
  /\ ~Loop({Link(Sheet, n) : n \in DOMAIN Waiting(Sheet)})
ASSUME LimitsAreNatural ==
  /\ TaskLimit \in Nat /\ LinkLimit \in Nat /\ CodeLimit \in Nat /\ EditLimit \in Nat
  /\ Len(Sheet) < TaskLimit /\ Len(Waiting(Sheet)) < LinkLimit

VARIABLES
  serving,  \* the api's port is open
  phase,    \* of the seed: idle, loaded, measured or aligned
  sheet,    \* the dataset the fixtures are made from
  fact,     \* of a project, None before it exists
  policy,   \* the active version, or None
  task,     \* primary keys in use
  link,     \* of a primary key: the edge, None when there is no such row
  blocker,  \* of a number: absent, open or resolved
  seq,      \* the last number drawn from work_blocker_code_seq
  score,    \* of a project: the facts and the version its score is made from
  high,     \* the highest number the seed has read
  todo,     \* projects the seed has still to score
  on, held, \* of a session that scores: the project, and what it has read of it
  pending,  \* of a project: events waiting for the worker
  edits,
  drawn,    \* numbers drawn for blockers that are not committed yet
  quiet,     \* history: has a seed run to its end, and only seeds changed rows
  retuned,   \* history: a policy was activated since the last load
  unscored,  \* history: projects a seed by hand, or a dead-lettered event, left
  overtaken, \* history: an older score has replaced the one of the rows
  unaligned, \* history: numbers a seed by hand put in, or did not see
  revived    \* history: edges that a later load, or a changed dataset, has put in

tables   == <<fact, policy, task, link, blocker, seq, score>>
progress == <<phase, high, todo>>
scoring  == <<on, held>>
requests == <<edits, drawn>>
history  == <<quiet, retuned, unscored, overtaken, unaligned, revived>>
vars     == <<serving, progress, sheet, tables, scoring, pending, requests, history>>

Init ==
  /\ serving = FALSE /\ phase = "idle" /\ sheet = Sheet
  /\ fact = [p \in Project |-> None]
  /\ policy = None
  /\ task = {} /\ link = [k \in LinkId |-> None]
  /\ blocker = [n \in Number |-> "absent"] /\ seq = 0
  /\ score = [p \in Project |-> None]
  /\ high = 0 /\ todo = {}
  /\ on = [s \in Session |-> None] /\ held = [s \in Session |-> None]
  /\ pending = [p \in Project |-> 0]
  /\ edits = 0 /\ drawn = {}
  /\ quiet = "no" /\ retuned = FALSE
  /\ unscored = {} /\ overtaken = {} /\ unaligned = {} /\ revived = {}

-----------------------------------------------------------------------------
(* The seed. *)

LinksOf(table) == {table[k] : k \in {k \in LinkId : table[k] # None}}

Edges(table) == {l \in LinksOf(table) : l[2] # Prose}

\* A row of the fixtures and a row further on say the same edge: the partial
\* unique index of TaskDependency.
EdgeTaken ==
  \E n \in DOMAIN Waiting(sheet), k \in LinkId :
    k > n /\ link[k] = Link(sheet, n) /\ link[k][2] # Prose

\* The partial unique index of PriorityPolicy: another version is active.
PolicyTaken == policy \notin {None, SeedVersion}

\* loaddata is one transaction, and it names every primary key: what is there
\* is overwritten, whatever a fixture leaves out goes back to its default, and
\* the rows the fixtures do not name stay.
LoadFixtures ==
  /\ phase = "idle" /\ ~EdgeTaken /\ ~PolicyTaken
  /\ phase' = "loaded"
  /\ fact' = [p \in Project |-> IF SeedFact[p] # None THEN SeedFact[p] ELSE fact[p]]
  /\ policy' = SeedVersion
  /\ task' = task \cup DOMAIN sheet
  /\ link' = [k \in LinkId |->
                IF k \in DOMAIN Waiting(sheet) THEN Link(sheet, k) ELSE link[k]]
  /\ blocker' = [n \in Number |-> IF n <= SeedBlockers THEN "open" ELSE blocker[n]]
  /\ quiet' = IF quiet = "yes" THEN "yes" ELSE "seeding"
  /\ retuned' = FALSE
  /\ unaligned' = IF serving THEN unaligned \cup {n \in Number : n <= SeedBlockers}
                  ELSE unaligned
  /\ revived' = IF sheet = Sheet /\ \A k \in LinkId : link[k] = None THEN {}
                ELSE revived \cup {k \in LinkId : link'[k] # link[k]}
  /\ UNCHANGED <<serving, sheet, seq, score, high, todo, scoring, pending, requests,
                 unscored, overtaken>>

\* An IntegrityError: the seed fails, the entrypoint stops, nothing is served.
LoadRefused ==
  /\ phase = "idle" /\ (EdgeTaken \/ PolicyTaken)
  /\ UNCHANGED vars

Stored == {n \in Number : blocker[n] # "absent"}

\* Mutant: the resolved ones have left the board.
HighestOpen == IF \E n \in Number : blocker[n] = "open"
               THEN CHOOSE n \in Number :
                      /\ blocker[n] = "open"
                      /\ \A m \in Number : blocker[m] = "open" => m <= n
               ELSE 0

\* _highest_code_number
Highest == IF Stored = {} THEN 0
           ELSE CHOOSE n \in Stored : \A m \in Stored : m <= n

\* Mutant: the sequence is moved by drawing from it.
Drawn == IF seq < high THEN high ELSE seq + 1

\* setval(seq, highest, true), or setval(seq, 1, false) for an empty table.
Setval == high

\* Mutant: the projects that have a score keep it.
NeverScored == {p \in Project : fact[p] # None /\ score[p] = None}

\* Project.objects.active()
Active == {p \in Project : fact[p] # None /\ fact[p] \notin Archived}

\* sync_code_sequences reads the rows ...
Measure ==
  /\ phase = "loaded" /\ phase' = "measured"
  /\ high' = Highest
  /\ UNCHANGED <<serving, sheet, tables, todo, scoring, pending, requests, history>>

\* ... and then sets the sequence, with nothing to keep rows out between the two;
\* what to score is listed next.
Align ==
  /\ phase = "measured" /\ phase' = "aligned"
  /\ seq' = Setval
  /\ todo' = Active
  /\ unaligned' = {n \in unaligned : n > high}
  /\ UNCHANGED <<serving, sheet, fact, policy, task, link, blocker, score, high,
                 scoring, pending, requests, quiet, retuned, unscored, overtaken,
                 revived>>

\* The seed is over: the entrypoint opens the port, or the prompt returns.
Finish ==
  /\ phase = "aligned" /\ todo = {} /\ phase' = "idle"
  /\ serving' = TRUE
  /\ quiet' = IF quiet = "no" THEN "no" ELSE "yes"
  /\ UNCHANGED <<sheet, tables, high, todo, scoring, pending, requests, retuned,
                 unscored, overtaken, unaligned, revived>>

\* The projects whose scores this seed, or the one of the next start, will see to.
Left == IF phase \in {"loaded", "measured"} \/ (~serving /\ phase = "idle")
        THEN Active ELSE todo

\* The process of the seed is gone, and its transaction is rolled back.
Stop ==
  /\ phase' = "idle" /\ todo' = {}
  /\ on' = [on EXCEPT ![Seeder] = None] /\ held' = [held EXCEPT ![Seeder] = None]
  /\ UNCHANGED <<sheet, tables, high, pending, edits, quiet, retuned, overtaken,
                 unaligned, revived>>

\* The container dies, or is restarted.
Kill ==
  /\ serving \/ phase # "idle"
  /\ Stop
  /\ serving' = FALSE /\ drawn' = {}
  /\ UNCHANGED unscored

\* A seed run by hand is interrupted, told not to recompute, or finds no policy.
GiveUp ==
  /\ serving /\ phase # "idle"
  /\ Stop
  /\ unscored' = unscored \cup Left
  /\ UNCHANGED <<serving, drawn>>

\* A developer adds a row to the dataset and makes the fixtures again.
Regenerate ==
  /\ ~serving /\ phase = "idle" /\ edits < EditLimit /\ Len(sheet) < TaskLimit
  /\ \E row \in NewRow : sheet' = Append(sheet, row)
  /\ Len(Waiting(sheet')) < LinkLimit
  /\ edits' = edits + 1 /\ quiet' = "no"
  /\ UNCHANGED <<serving, progress, tables, scoring, pending, drawn, retuned,
                 unscored, overtaken, unaligned, revived>>

-----------------------------------------------------------------------------
(* Operators, once served. *)

Change ==
  /\ serving /\ edits < EditLimit
  /\ edits' = edits + 1
  /\ quiet' = "no"
  /\ UNCHANGED <<serving, progress, sheet, scoring, unscored, overtaken>>

\* A project created or edited, through the API: an event about it.
Edit(p) ==
  /\ Change
  /\ \E f \in Fact \ {fact[p]} : fact' = [fact EXCEPT ![p] = f]
  /\ pending' = [pending EXCEPT ![p] = @ + 1]
  /\ UNCHANGED <<policy, task, link, blocker, seq, score, drawn, retuned, unaligned,
                 revived>>

\* The admin saves one version at a time, so the old one goes first.
DeactivatePolicy ==
  /\ Change
  /\ policy # None /\ policy' = None
  /\ UNCHANGED <<fact, task, link, blocker, seq, score, pending, drawn, retuned,
                 unaligned, revived>>

ActivatePolicy(v) ==
  /\ Change
  /\ policy = None /\ policy' = v
  /\ retuned' = TRUE
  /\ UNCHANGED <<fact, task, link, blocker, seq, score, pending, drawn, unaligned,
                 revived>>

CreateTask ==
  /\ Change
  /\ \E t \in TaskId \ task : t = Cardinality(task) + 1 /\ task' = task \cup {t}
  /\ UNCHANGED <<fact, policy, link, blocker, seq, score, pending, drawn, retuned,
                 unaligned, revived>>

\* Mutant: any code is taken for a task's.
AnyTask(t) == TRUE

Known(t) == t \in task

\* Mutant: only an edge straight back is refused.
ClosesPair(t, u) == t = u \/ <<u, t>> \in Edges(link)

\* find_dependency_cycle
ClosesLoop(t, u) == Loop(Edges(link) \cup {<<t, u>>})

\* update_task: a prerequisite more, under a key nothing has used, ...
AddPrerequisite(t, u) ==
  /\ Change
  /\ Known(t) /\ Known(u) /\ ~ClosesLoop(t, u) /\ <<t, u>> \notin Edges(link)
  /\ \E k \in LinkId : /\ k > Len(Waiting(sheet)) /\ link[k] = None
                       /\ \A j \in LinkId : j > k => link[j] = None
                       /\ (k = Len(Waiting(sheet)) + 1 \/ link[k - 1] # None)
                       /\ link' = [link EXCEPT ![k] = <<t, u>>]
  /\ UNCHANGED <<fact, policy, task, blocker, seq, score, pending, drawn, retuned,
                 unaligned, revived>>

\* ... or one less.
RemovePrerequisite(k) ==
  /\ Change
  /\ link[k] # None
  /\ link' = [link EXCEPT ![k] = None]
  /\ revived' = revived \ {k}
  /\ UNCHANGED <<fact, policy, task, blocker, seq, score, pending, drawn, retuned,
                 unaligned>>

\* Blocker.save draws a number, which is not undone with its transaction, ...
DrawNumber ==
  /\ Change
  /\ seq < CodeLimit /\ seq' = seq + 1
  /\ drawn' = drawn \cup {seq + 1}
  /\ UNCHANGED <<fact, policy, task, link, blocker, score, pending, retuned,
                 unaligned, revived>>

\* ... and the row is there at the commit; or never, as when the number is taken.
RaiseBlocker(n) ==
  /\ n \in drawn /\ drawn' = drawn \ {n}
  /\ \/ /\ blocker[n] = "absent" /\ blocker' = [blocker EXCEPT ![n] = "open"]
        /\ quiet' = "no"
        /\ unaligned' = IF phase = "measured" \/ n > seq THEN unaligned \cup {n}
                        ELSE unaligned
     \/ UNCHANGED <<blocker, quiet, unaligned>>
  /\ UNCHANGED <<serving, progress, sheet, fact, policy, task, link, seq, score,
                 scoring, pending, edits, retuned, unscored, overtaken, revived>>

ResolveBlocker(n) ==
  /\ Change
  /\ blocker[n] = "open" /\ blocker' = [blocker EXCEPT ![n] = "resolved"]
  /\ UNCHANGED <<fact, policy, task, link, seq, score, pending, drawn, retuned,
                 unaligned, revived>>

\* BlockerAdmin leaves the admin's permission to delete.
DeleteBlocker(n) ==
  /\ Change
  /\ blocker[n] # "absent" /\ blocker' = [blocker EXCEPT ![n] = "absent"]
  /\ UNCHANGED <<fact, policy, task, link, seq, score, pending, drawn, retuned,
                 unaligned, revived>>

-----------------------------------------------------------------------------
(* recompute_for_project: by the worker, for an event, at any time; and by    *)
(* the seed, for each project in turn and without one.                        *)

Computed(p) == [fact |-> fact[p], version |-> policy]

\* The policy and the facts are read, in a transaction that locks neither.
Collect(s, p) ==
  /\ on[s] = None /\ policy # None
  /\ on' = [on EXCEPT ![s] = p]
  /\ held' = [held EXCEPT ![s] = Computed(p)]
  /\ UNCHANGED <<serving, progress, sheet, tables, requests, history>>

CollectForEvent(w, p) ==
  /\ pending[p] > 0
  /\ pending' = [pending EXCEPT ![p] = @ - 1]
  /\ Collect(w, p)

CollectForSeed(p) ==
  /\ phase = "aligned" /\ p \in todo
  /\ Collect(Seeder, p)
  /\ UNCHANGED pending

\* What a score d has to say of p: what the rows do, and what the active policy
\* makes of it, unless that has changed since.
UpToDate(d, p) ==
  /\ d # None /\ d.fact = fact[p]
  /\ p \in Active => d.version = policy \/ retuned \/ policy = None

\* The row is written with what was read, whatever has been written since.  A
\* score found as computed is not written, which is a write that changes nothing.
Write(s) ==
  /\ on[s] # None
  /\ score' = [score EXCEPT ![on[s]] = held[s]]
  /\ on' = [on EXCEPT ![s] = None] /\ held' = [held EXCEPT ![s] = None]
  /\ todo' = IF s = Seeder THEN todo \ {on[s]} ELSE todo
  /\ quiet' = IF s = Seeder \/ score' = score THEN quiet ELSE "no"
  /\ IF UpToDate(held[s], on[s])
     THEN /\ overtaken' = overtaken \ {on[s]}
          /\ unscored' = unscored \ {on[s]}
     ELSE /\ overtaken' = overtaken \cup
               (IF UpToDate(score[on[s]], on[s]) THEN {on[s]} ELSE {})
          /\ UNCHANGED unscored
  /\ UNCHANGED <<serving, phase, high, sheet, fact, policy, task, link, blocker, seq,
                 pending, requests, retuned, unaligned, revived>>

\* The worker's transaction is rolled back, and the event is delivered again.
Rollback(w) ==
  /\ on[w] # None
  /\ pending' = [pending EXCEPT ![on[w]] = @ + 1]
  /\ on' = [on EXCEPT ![w] = None] /\ held' = [held EXCEPT ![w] = None]
  /\ UNCHANGED <<serving, progress, sheet, tables, requests, history>>

\* ActivePolicyNotFound, on every attempt: the row is dead-lettered.
DeadLetter(p) ==
  /\ pending[p] > 0 /\ policy = None
  /\ pending' = [pending EXCEPT ![p] = @ - 1]
  /\ unscored' = unscored \cup {p}
  /\ UNCHANGED <<serving, progress, sheet, tables, scoring, requests, quiet, retuned,
                 overtaken, unaligned, revived>>

Next ==
  \/ LoadFixtures \/ LoadRefused \/ Measure \/ Align \/ Finish \/ Kill \/ GiveUp
  \/ Regenerate \/ DeactivatePolicy \/ CreateTask \/ DrawNumber
  \/ \E p \in Project :
       \/ Edit(p) \/ DeadLetter(p) \/ CollectForSeed(p)
       \/ \E w \in Worker : CollectForEvent(w, p)
  \/ \E s \in Session : Write(s)
  \/ \E w \in Worker : Rollback(w)
  \/ \E v \in Version : ActivatePolicy(v)
  \/ \E t, u \in TaskId : AddPrerequisite(t, u)
  \/ \E k \in LinkId : RemovePrerequisite(k)
  \/ \E n \in Number : RaiseBlocker(n) \/ ResolveBlocker(n) \/ DeleteBlocker(n)

Spec == Init /\ [][Next]_vars

-----------------------------------------------------------------------------
\* The type of every variable; an edge leads from a task to a task.
TypeOK ==
  /\ serving \in BOOLEAN /\ phase \in {"idle", "loaded", "measured", "aligned"}
  /\ sheet \in Seq(Row) /\ Len(sheet) <= TaskLimit
  /\ fact \in [Project -> Fact \cup {None}] /\ policy \in Version \cup {None}
  /\ task \subseteq TaskId
  /\ link \in [LinkId -> {None} \cup (TaskId \X (TaskId \cup {Prose}))]
  /\ \A l \in LinksOf(link) : l[1] \in task /\ l[2] \in task \cup {Prose}
  /\ blocker \in [Number -> {"absent", "open", "resolved"}]
  /\ seq \in 0..CodeLimit /\ high \in 0..CodeLimit
  /\ score \in [Project -> {None} \cup [fact : Fact, version : Version]]
  /\ on \in [Session -> Project \cup {None}]
  /\ held \in [Session -> {None} \cup [fact : Fact, version : Version]]
  /\ todo \subseteq Project /\ pending \in [Project -> Nat]
  /\ edits \in 0..EditLimit /\ drawn \subseteq Number
  /\ quiet \in {"no", "seeding", "yes"} /\ retuned \in BOOLEAN
  /\ unscored \subseteq Project /\ overtaken \subseteq Project
  /\ unaligned \subseteq Number /\ revived \subseteq LinkId

\* Nobody served draws a number that is taken: "the first blocker a user
\* raises" does not collide, however many starts were cut short before
\* (sync_code_sequences).  The exceptions are what a seed run by hand has put in
\* and not aligned yet, and what was raised around its reading of the rows and its
\* setval; the next alignment sees both.
NextCodeIsFree ==
  serving => \A n \in Number \ unaligned : n > seq => blocker[n] = "absent"

\* "This only guarantees the next one is free", "safe to run at any time"
\* (sync_code_sequences): once a seed has aligned the sequence of a system that is
\* served, no number ahead of it is in use.  It does not hold.
SyncedCodesAreFree ==
  serving /\ phase = "aligned" =>
    \A n \in Number : n > seq => blocker[n] = "absent"

\* "Bringing the stack up twice leaves the database identical" (README): a seed
\* that follows a seed, with nothing else written since, changes nothing, finished
\* or cut off.
ReseedingIsANoOp ==
  [][quiet = "yes" /\ quiet' = "yes" => UNCHANGED tables]_vars

\* A project with an event waiting, or in the hands of a session.
Awaited(p) == pending[p] > 0 \/ \E s \in Session : on[s] = p

\* Once the events about a project are applied its score is made from its facts,
\* the ones a seed has put back included, and under the active policy unless that
\* was changed since: whatever the seed and the worker read and wrote in between,
\* and wherever starts were cut off.  The exceptions are a session that writes
\* what it read over the newer score of another (recompute_for_project locks
\* nothing from read to write), a seed by hand that is given up, and an event
\* dead-lettered for want of a policy.
ScoresFollowTheRows ==
  \A p \in Project \ (Left \cup unscored \cup overtaken) :
    fact[p] # None /\ ~Awaited(p) => UpToDate(score[p], p)

\* A loop among the prerequisites of tasks leads over an edge that a later start
\* or a changed dataset has put in: what operators add is checked against all
\* there is, what the fixtures add against nothing.
LoopsNeedAReseed ==
  ~Loop(Edges([k \in LinkId |-> IF k \in revived THEN None ELSE link[k]]))

\* "An idempotent upsert, so this is safe on every restart"
\* (docker-entrypoint.sh): a start gets past the fixtures.  It does not hold.
SafeOnEveryRestart == ~EdgeTaken /\ ~PolicyTaken
=============================================================================
