# aztec-ops: a TLA+ verification project

aztec-ops ranks the projects of an operation and shows the ranking to the people
who run it.  Its backend (Django, Celery, PostgreSQL, Redis) is event driven: every
mutation writes an outbox row in its own transaction, workers deliver the row to
the handlers that react to it, and those recompute the score of the project and
the row of the read model that the command center shows.  This directory holds TLA+
models of that machinery, TLC configurations that check them on small instances,
and proofs, checked by TLAPS, for every value of their constants.

All source paths below are relative to `src/backend/apps/` unless they say otherwise.

## 1. Inventory

| Component | State it keeps | Operations | What makes it correct |
|---|---|---|---|
| **event bus** (`events/`) | `OutboxEvent` rows (`published_at`, `dead_lettered_at`), `ProcessedEvent` ledger, messages on the Redis broker, tasks in the workers' hands | `enqueue_event`, post-commit kick, `drain_outbox` (sweep), `handle_event` / `apply_once`, retry with budget, dead-letter, `requeue_dead_lettered`, ticks | effect once per claimed delivery; drains disjoint; nothing lost; a budget that is honoured; every delivery settles |
| **prioritization engine** (`prioritization/`) | `PriorityScore`, `PriorityPolicy`, `PriorityOverride` | `recalculate_priority` on events and ticks, `recompute_projects` on request, policy activation, override and revoke | the stored score is the score of the stored facts; the clock re-selects every expired row; a change is announced |
| **portfolio read model** (`portfolio/handlers.py`, `rebuild_snapshot.py`) | `ProjectSnapshot` | rebuild and upsert per event, queue reads | the row agrees with facts and score once everything is applied |
| **portfolio write side** (`portfolio/services/`) | `Project` | create, update, transition, assign workflow | lock, validate, write, audit and event in one transaction |
| **work board** (`work/`) | `Task`, `TaskDependency`, `Blocker`, `Note`, code sequences | create, update (with archive and dependency replacement), transition, raise and resolve blocker, add note, sync sequences | acyclic dependency graph; codes never reused; no edge to removed work |
| **workflow graphs** (`workflow/`) | `Workflow`, `WorkflowState`, `WorkflowTransition`, `WorkflowBinding` | author, retire, restore, rebind, `validate_transition`, `validate_reassignment` | a record follows an active edge, stands on a state of the graph it is assigned to, and is not left on a node that is retired |
| **accounts** (`accounts/`) | users, tokens | create, edit, retire, set a password; sign in, refresh | one row lock per edit; the trail replays to the row; somebody can administer the roster |
| **activity**, **catalog** | the append-only trail; taxonomies | `write_activity`; roles | a record per change; a picker that keeps its order |
| **SSE endpoint** (`../config/sse.py`, `events/handlers.py`) | open subscriptions | publish, forward, reset on reconnect | a client that missed frames is told so |
| **frontend** (`../../frontend/src/`) | the tab's stream store, the cards of the overview | dedupe, patch, reread | a card is right or will be told |
| **deployment** (`../docker-entrypoint.sh`, `../scripts/`) | fixtures, code sequences | migrate, seed, serve, on every start; a seed by hand | a seed after a seed changes nothing, the next code is free, scores follow the rows |
| **API shell** (`../config/`) | - | authentication, error table, routers | only an active ops lead edits |

How they interact.  Producers and the bus share the database transaction; the bus
and the handlers share the claim's transaction; everything else is asynchronous:
`task.updated` -> `priority-recalculator` -> `PriorityScore` and
`project.priority.recalculated` -> `snapshot-builder` -> `ProjectSnapshot`, and
`sse-fanout` -> Redis channel -> browsers.  The clock is just another producer.

What is hard here: two Celery slots (`docker-entrypoint.sh`: concurrency 2) run any
two tasks at once; transactions are READ COMMITTED and mostly read first and lock
only when they write; messages are delivered at least once (late
acknowledgement, `reject_on_worker_lost`), in no particular order, with retries and
replays in flight together; a process can die between a commit and its callbacks;
and most of the numbers depend on the day, while only an event makes anybody look
at the clock.  PROJECT.json lists the hazards at their lines.

## 2. The modules

| Module | Models | State and actions |
|---|---|---|
| `EventDelivery` | what the bus promises, abstractly | `recorded`, `effects`, `flagged`; Record, TakeEffect, Flag, Replay |
| `EventBus` | `events/`: the outbox, the drain, the ledger, the worker pool, the operator | tables (`recorded`, `published`, `dead`, `ledger`, `effects`), broker (`drains`, `deliveries`), one program counter per worker slot; one action per database transaction or broker call |
| `Reactors` | the topic catalogue, the three subscriptions, `project_code_of` | operators only; `MCReactors` puts them on `EventBus` |
| `Ranking` | the recalculator, the recompute route, the snapshot-builder, the clock | `facts`, `score`, `snapshot`, `pending` deliveries, one program counter per session; Collect / Compare / Write / Commit and View / Upsert separate the read from the write |
| `Dependencies` | the work board's dependency graph under concurrent requests | `tasks`, `archived`, `edges`; one program counter, request, graph as read and list of accepted prerequisites per session; `Mint` / `Insert` / `CodeTaken`, `Open`, `ReadGraph`, `Accept` / `Refuse`, `Commit`, `DeadlockVictim`, `Abort` |
| `Lifecycle` | `workflow/`: graphs under authoring, and the projects and tasks on them | `flow`, `bound`, `node`, `entry`, `edge`, `demand` (the graphs); `at`, `assigned`, `archived`, `trail` (the records); one program counter per request, whose lock, resolution of the workflow, choice of a state and commit are apart |
| `CommandCenter` | `ProjectSnapshot` against the facts it copies; risk flags, overrides, the queue and its pages | the facts an operator edits, `pending` events, `row`, one rebuild per worker with read and write apart, one decision on an override per request |
| `Scoring` | `prioritization/domain/`: signals, weights, modifiers, rounding, fingerprint, expiry | the rows of one project, the policies, the stored score; `Recompute` at any instant an event may have |
| `Roster` | `accounts/`, the roles of `catalog/`, `../config/auth.py` | `member`, tokens, the picker, `trail`, `news`; requests authenticated before their transaction opens |
| `Startup` | the seed, at a start of the api container and by hand, against operators and the worker | `phase`, the dataset, facts, policy, tasks, edges, blockers and their sequence, scores; `LoadFixtures`, `Measure`, `Align`, `Collect` / `Write`, `Finish`, `Kill`, `GiveUp` |
| `Stream` | a project's card on the overview page, from the commit to the pixel | the row a page is rendered from, unhandled events, the subscription, the tab's store and its chain of work |
| `EventBusProofs`, `RankingProofs`, `DependenciesProofs`, `LifecycleProofs`, `CommandCenterProofs`, `RosterProofs`, `StartupProofs`, `ScoringProofs` | theorems about the modules they extend; `CommandCenterProofs` extends `Stream` too, whose `Init`, `Next`, `Spec` and `TypeOK` are therefore called `TabInit`, `TabNext`, `TabSpec` and `TabTypeOK` | |
| `MCEventBus`, `MCReactors`, `MCRanking`, `MCDependencies`, `MCLifecycle`, `MCCommandCenter`, `MCScoring`, `MCRoster`, `MCStartup`, `MCStream` | small instances for TLC | |

The modules meet at the bus.  `EventBus` shows what a delivery is worth; `Ranking`,
`CommandCenter`, `Startup` and `Stream` take their deliveries as a bag or a set from
which any is applied at any time, which is what that promise leaves.  `Ranking` has
what two sessions do to one score and one snapshot, with the score opaque;
`Scoring` has the arithmetic of the score, with one session; `CommandCenter` has what
a snapshot is made of, with the score opaque; `Stream` what a browser makes of it.
`Lifecycle` has the states that `CommandCenter` knows by their category only.

### EventBus

A worker slot runs one task at a time.  `StartDrain` is `claim_batch` (`FOR UPDATE
SKIP LOCKED`, oldest first, at most `BatchSize`); `CommitDrain` is the commit that
sets `published_at`; only then does `Dispatch` run the `on_commit` callbacks one by
one, and `FinishDrain` queues the follow-up drain of a full batch.  `StartDelivery`,
`Claim`, `Apply` / `Raise`, `RecordFailure` and `Retry` are the stages of
`handle_event` with `apply_once` inside: the insert into the ledger waits for
another worker's uncommitted insert of the pair, which is what the unique
index does.  `Crash` kills a worker in any stage and gives its task back to the
broker (late acknowledgement), forgetting callbacks that had not run;
`BrokerRefuses` and `RetryRefused` are the two places in which a refused message is
not tried again.  `SelectDead` and `Requeue` are the admin action, with its read
and its unconditional saves apart.  A message carries its own retry count, as
Celery's does.  `effects` counts commits of a handler's writes; it has no column
in the database and is what the ledger is there to bound.  `failures`, `spent` and
`dropped` are history variables: no guard of the code reads them.  (`MaxFailures`
bounds `failures`, a bound and not a guard.)

### Ranking

A score is represented by the inputs it was made from, so that "the score of these
facts" is an equality and the arithmetic (weights, modifiers, rounding), which is a
function of them, need not be repeated.  Three time-dependent signals are kept in
the form the clock can tell apart: the target date (`deadline_pressure`), the day
of the last activity (`staleness`) and an open task's due date (`overdue_work`).
`Breakdown` is what the code compares to decide whether to announce (its reasons
name the days), `Value` the part of the number that depends on time.  `now` is the
event's day throughout, as in the code.  The bus is used by its promise: a delivery
in `pending` is taken by some session once, in any order, and a rolled back
transaction (`Abort`) puts it back.  That is what `EventBus` is shown and proved to
implement (`KeepsPromise`), with liveness from `EveryDeliverySettles`; the
deliveries that `NothingElseIsLost` allows to be lost are outside this module, and
so is a delivery given up after its last attempt.

`raced`, `blurred` and `silent` are history: they mark a score, or a snapshot,
whose last writer was overtaken between its read and its write, and a score that
changed with no announcement.  `SettledScoreIsCurrent` leaves out `raced`,
`SettledSnapshotIsCurrent` the other two: a row follows a score that was overtaken as
well as any other.  Section 5 says how to see that the rows inside these sets really
go wrong.

### Dependencies

A session is one request of `create_task` or `update_task` in its READ COMMITTED
transaction.  `Open` is the row lock of an update (`FOR UPDATE`), `Mint` the code a
creation derives from the committed ones and `Insert` the row it adds, which waits
for another uncommitted row with that code and fails (`CodeTaken`) if it was
committed.  `ReadGraph` is the one read of the adjacency; `Accept` and `Refuse`
check one prerequisite with `find_dependency_cycle`, written as reachability, on
the graph as extended so far; `Commit` makes removal, restoration and the diff of
the edges visible.

One guard is not in the Python code.  `TaskDependency.depends_on` is a foreign key,
which Django declares `DEFERRABLE INITIALLY DEFERRED`: PostgreSQL checks it as the
transaction commits and takes a `KEY SHARE` lock on the prerequisite's row, which
conflicts with another request's `FOR UPDATE`.  So `Commit` waits for the sessions
that hold the prerequisites (`WaitsFor`), and sessions that wait for each other are
resolved by rolling one back (`DeadlockVictim`).  That is the only thing that keeps
two edits from making two tasks wait for each other: the mutant that drops it breaks
`NoMutualDependency` at once.  It does not help against longer loops.

A creation without prerequisites reads no graph in the code; in the model it reads
one and uses none of it.  Prose prerequisites never become edges and are left out.
`tainted` and `raced` are history: which open checks rest on a graph that has since
gained an edge, and whether such a check has committed one.

### Lifecycle

A request about a record locks the record and never the graph; an author locks the graph
and never the records on it.  `Lock` is `select_for_update` with a join: when the row it
waited for has moved to another state, READ COMMITTED evaluates the join again and the
request answers "not found".  A creation or a move commits a foreign key to the state it
has chosen, and nothing makes it wait for a retirement: the author's lock is on the row
of the workflow, and the `KEY SHARE` lock of a foreign key does not conflict with an
update of a state that leaves its key alone.  So there are two ways onto a retired
state, and `arrival` remembers by which a record came: it had chosen the state before
the retirement and committed during or after the count of the occupants (`raced`), or it
walked over an edge that an author has put back in service while one of its ends is
retired (`redrawn`).  `StrandedRecordsHaveAnExcuse` says that there is no third, and
section 5 shows how to see both.  The guard `require_open_blocker` needs a count that no
caller supplies, so an edge with it refuses everybody; bindings of a retired workflow
still count as bindings; retiring the entry state makes creation answer
`WorkflowNotConfigured`, which the code says is deliberate.

### CommandCenter and Scoring

`Facts` is what `rebuild_snapshot` copies at the instant of an event, `Flags` is
`evaluate_risk`, applied by the queue to the row and by the detail page to the live
facts: `SettledQueueAgreesWithDetail` compares the two.  `drift` marks rows whose
owner's load was moved by another project, `muddled` rows written by an overtaken
worker, `crossed` projects whose last revocation found an override that had just been
replaced.  `Orders` is every order in which the database may answer, so that a page
is a slice of any of them: the matching projects with so many ahead of them (`Ahead`).

`Scoring` keeps the units of the code: a raw signal has four decimals, a contribution
two.  `Nearest` is `round(x, 4)`, half up here: a float has a tie at four decimals
only if 32 divides the denominator, and none here does.  `Quantize` is half up in
cents, as the code asks of `Decimal`, so that a half goes away from zero on both sides
of it: `load_policy` accepts weights below zero that make up 1 with the rest, and the
value is clamped at both ends.  `Fingerprint` is what the code hashes and no more, which is
the point of `SkippingIsANoOp`.  The boundaries of `ValidUntil` are the three of the
code; the day after the target date, when a project becomes overdue, is not among them.

### Roster

A request is authenticated against the live row and then opens its transaction; the
two are apart, which is why two ops leads can retire each other (`crossfire`).  The
lock of the row lasts from its reading to its saving; a role's place is read without
a lock.

### Startup

`LoadFixtures` is `loaddata`: an upsert by primary key of every fixture in one
transaction, with the two unique indexes it can violate (`EdgeTaken`, `PolicyTaken`).
Time is left out.  Primary keys of the fixtures are positions in the dataset, so a row
added to it shifts nothing before it but takes the key of a row an operator may have
created meanwhile; an edge's key is its place among the rows that need another
(`Needing`, `Waiting`).

The entrypoint seeds before the port is open; the RUNBOOK also has the seed run by hand
on a system that is served (`serving`), and then operators act between any two of its
steps.  One seed runs at a time.  `Measure` reads the highest code and `Align` sets the
sequence to it, as two statements with nothing between that keeps rows out; a blocker
draws its number (`DrawNumber`) before it is committed (`RaiseBlocker`), and the number
is not given back by a rollback.  What a seed by hand has loaded and not aligned, and
what was raised around its `Measure` and `Align`, is `unaligned`.

The worker and the seed score a project in two steps, `Collect` and `Write`, in sessions
of their own: facts and policy are read, and what was made of them is written later, over
whatever has been written meanwhile.  (Policy and facts are read as one here; the skip of
a score found as computed is a write that changes nothing.)  `overtaken` marks a project
whose up-to-date score was replaced by an older one, `unscored` one that a seed by hand
left when it was given up, told not to recompute or found no policy, or whose event was
dead-lettered for want of a policy.

### Stream

A change takes its instant before it locks the row (`Admit`, `Change`), so the order of
instants is not the order of commits.  `Publish` is `sse-fanout` in its claim: the frame
may go out and the claim roll back, and it is then sent again.  A frame reaches the tab
if the channel is subscribed at that moment.  The wire is not a state of its own: a late
frame is a later publication, one lost in flight is one published after the drop.  The
page's chain of promises does one thing at a time, so asking for the queue, being
answered and painting are one step.  `updatedAt` of a row is the wall clock of its save,
later than any instant admitted by then.  Every two admissions have instants of their
own, while `Date.parse` keeps milliseconds: a tie that only the browser sees, between
instants of one millisecond, is not in the model.  `excused` names the five ways in
which the card may stay behind; they are in the comment of `CardFollowsTheProject`,
which therefore catches neither the frame as old as the card's stamp, nor the frame
ahead of the row's rebuild, nor the one before the handlers are attached (the last three
hazards of PROJECT.json): section 5 shows that the code does not exclude them.

## 3. Runs

| Run | Instance | Shows |
|---|---|---|
| `bus_safety` | 2 events, 2 handlers, 1 poisonous pair, 2 slots, 1 operator, 2 attempts; 1 transient failure, crash, outage and re-queue each | types, effect once per claim, disjoint drains, what can be lost, the budget, refinement of `EventDelivery` |
| `bus_liveness` | 2 events in batches of 1, poisonous first one, 2 slots, crash, re-queue | every recorded event settles for each subscriber |
| `bus_roster` | 3 topics on the deployed subscriptions, no failures | *violated:* "every topic that names a project - which is every topic except the clock": member events always dead-letter |
| `rank_safety` | 1 project, 2 slots, 1 edit, 2 days | types, the settled score and the settled snapshot are current |
| `rank_liveness` | 1 project, 2 slots and a console, 4 days, 1 rebuild and rollback, no edits | every boundary that passed is noticed in the end |
| `deps_safety` | 3 tasks, 2 requests at once, removals, restorations, up to two prerequisites | codes stay unique, no two tasks wait for each other, loops need a race |
| `lifecycle_safety` | 2 graphs for tasks and 1 for projects, 1 task, 2 requests, 2 authoring commits | a record stands on its graph, its trail is true, retirement spares occupants and withdraws edges |
| `queue_safety` | 2 projects with one owner and a task each, 2 workers, 2 deciding requests, 3 days, 2 commits | the settled queue raises the flags of the detail page and shows the override in force; the last decision stands; pages cover the queue |
| `scoring_safety` | 2 tasks, 2 blockers, 2 policies, one with negative weights and an unusable one, 2 days of 2 instants, 3 edits | a skipped recomputation is a no-op; under weights that are not negative time never lowers a score, relief never raises one |
| `roster_safety` | 2 ops leads, 2 stems with 2 numbers, 2 roles, 2 requests, 3 commits | a lockout needs a race; the trail and the events replay to the row; roles keep their place |
| `seed_safety` | 2 projects, one of the fixtures, a dataset of 2 tasks that may grow, 1 seeded blocker, 3 codes, 2 worker slots and the seed, 2 policies, 3 edits, any number of restarts and of seeds by hand | the next blocker code is free but around a seed by hand, a seed after a seed changes nothing, scores follow the rows but for an overtaken write, a seed given up and an event dead-lettered, loops need a reload |
| `stream_safety` | 2 changes with their rescorings, 1 fault, a store that remembers 1 id | a card is right, or what corrects it is on its way, or it is behind for one of five reasons |

**Bounds and why they are enough.**  Two slots give every pair of interleaved tasks,
and the deployment runs two by default; nothing in the code involves three at once.
Two events tell batches, overlaps and starvation apart.  Two attempts give a first
and a last attempt.  One crash at any stage, one refusal and one re-queue reach each
of the failure paths and their combinations.  One project suffices for the ranking
since the sessions interact only through the rows of one project (the order of row
locks across projects, where two ticks can deadlock, is not checked; a deadlock
victim is the action `Abort`); the constants of `rank_safety` put a due date and a
target date on the first day, so that both pass in its two days.  `rank_liveness`
registers the recalculator alone: the snapshot-builder writes nothing that it reads;
its late event is the one of the creation, and an edit would only rescore more.
Three tasks are the
fewest with a loop longer than two, and two requests are enough to close it.
Two authoring commits retire a state and put an edge back at it, or bind and retire,
under a request that is anywhere; projects and tasks take the same path through
`Lifecycle`, so that one task stands for both, and the project's graph is there to be
the wrong kind.  Two commits and two projects of one owner are a load that moves from
one row under the other; in three days an override expires, and a task falls due, after
a rebuild that is not the first.  In `queue_safety` and `roster_safety` a request that
has begun counts against the commits (`Room`), so that
none is left without its own. Two ops leads are the fewest who can
retire each other, two stems with two numbers a code that is taken.  Three edits let a
behaviour of `Startup` remove a seeded edge, add the edge it forbade, and restart; close
a loop of three tasks; and change a project on both sides of a load while three sessions
hold what they have read of it.
The factors 75 and 300 and two policies whose weights fall on half cents make the
roundings matter; the clamp at a hundred is reached, and under the negative weights that
at zero.  `SeenLimit` is 1 in place of 1000 (`SEEN_ID_LIMIT`): with four events a store
that remembers one forgets an event before its duplicate comes, which with the code's
1000 needs 1000 events more.

`MaxDrains`, `MaxFailures`, `MaxCrashes`, `MaxOutages`, `MaxRequeues`, `MaxDay`,
`MaxEdits`, `MaxRebuilds`, `MaxAborts`, `LastDay`, `LastInstant`, `EditLimit`,
`CodeLimit`, `TaskLimit`, `LinkLimit`, `MaxCommits` and `MaxFaults` are the bounds; they
are constants with named assumptions, and the proofs hold for all of them.  Two more
bounds have no constant: at most one tick is under way at a time in `Ranking`, and
one rescoring and one rebuild in `Stream`.  Symmetry is used
only where no temporal property is checked by a liveness graph (worker slots,
operators, requests, and in `Scoring` tasks and blockers, are interchangeable in every
action).

Deadlock is checked where the system cannot come to rest.  `queue_safety`,
`roster_safety` and `stream_safety` say `CHECK_DEADLOCK FALSE`: when the days, edits or
commits of the bound are spent, every event is delivered and every request answered,
nothing is left to do.

**Fairness.**  `EventBus`: Beat queues sweeps forever (WF), a live worker finishes
its stage (WF), a waiting message or drain is eventually taken (SF: the broker's
list is first-in first-out, and other tasks may get there first any finite number
of times), and an operator's request finishes.  Nothing is assumed about
producers, failures, crashes or refusals.  `Ranking`: the ticker runs (WF), a
session finishes its transaction (WF), and each delivery is eventually taken (SF),
which is what `EveryDeliverySettles` gives.

## 4. What is proved

The theorems hold for every set of events, handlers, workers, projects, tasks,
workflows, people, requests and dates and every bound, from the named assumptions of
the modules alone (two theorems add that the snapshot-builder is deployed, and the ten at the
end of this section a condition on the behaviour; they say so).

* **Types** (`TypeCorrect`, `RankingTypeCorrect`, `DependenciesTypeCorrect`,
  `LifecycleTypeCorrect`, `CommandCenterTypeCorrect`, `RosterTypeCorrect`,
  `StartupTypeCorrect`, `ScoringTypeCorrect`, `TabTypeCorrect`).  The third says that no
  edge names a missing task, and so does the one of `Startup`, of whatever dataset:
  every number up to their count is the place of one of the rows that need another
  (`EveryPlaceIsTaken`), so an edge of the fixtures leads from a row of the sheet to one
  (`LinksOfADataset`).  `ScoringTypeCorrect` says that a score fits its column,
  `TabTypeCorrect` that the store remembers an id once, and no more ids than its limit.
* **`DrainsStayDisjoint`**: a row in a drain's hands is unpublished and in no other.
* **`EffectsAreExactlyOnce`**: by an invariant that says who can be between the
  insert and the commit of a claim: at most one worker per pair, and then the pair is
  not in the ledger.
* **`DeadLetterIsALastResort`**: the number of times a pair's handler has raised is
  at least the retry count of each of its messages, on the broker or in hand, plus
  one where the attempt just failed.  The retry count alone says nothing about
  failures; this link is the strengthening that makes the property inductive.
* **`NoDeliveryDisappears`**: each published pair is somewhere; the step that could
  break it is `CommitDrain`, and the reason it does not is that the pairs of its
  batch enter `todo`.
* **`BusImplementsDelivery`**: the initial states map, and each action maps to one of
  Record, TakeEffect, Flag, Replay or to a stutter, from the invariants above.
* **`SettledScoresAreCurrent`**: the inductive invariant says three things of a
  project that is not raced and of the sessions that are not tainted: with no
  delivery awaited the stored score is made from the committed facts
  (`ScoresAreFresh`); what an unovertaken session has collected is made from the
  committed facts unless a delivery that will redo the work is awaited
  (`CollectedIsFresh`); and a project it has passed over without writing is stored
  as collected (`SkippedIsStored`).  The last one is needed for `Commit`: a
  recomputation that was skipped as "same inputs" counts as fresh only if nobody
  wrote the row meanwhile, and then the session would be tainted.
* **`SettledSnapshotsAreCurrent`**, wherever the snapshot-builder is registered: the
  facts and the score are followed apart.  What a row, or a view not written yet, says
  of the facts is so, or a delivery is awaited or a rebuild under way that will read
  them or has read them as they are (`FactsToCome`); and the same of the breakdown of
  the score (`ScoreToCome`, `RowsFollow`, `ViewsFollow`).  The step is a recalculator's
  `Commit`: a breakdown that moved is announced, and one that did not leaves the row
  right by transitivity (`UnmovedIsTransitive`).
* **`CodesStayUnique`**: the code of an uncommitted row is no committed task's and
  no other session's, which needs that a task's row is locked by at most one session.
* **`NoTwoTasksWaitForEachOther`**: while a request checks, no edge that points at
  its task is committed, because the foreign key of such an edge waits for its row
  lock (`ForeignKeyWaits`).  So every edge at its task is one it has read, and none
  of those starts at a prerequisite it accepted (`EdgesAtTaskAreRead`).
* **`OnlyRacesCloseLoops`**: unless a race has happened, the edges are acyclic, each
  checking session's extended graph is acyclic, and an untainted one has read every
  edge but its own (`CheckedGraphs`).  The step is `Commit`: the edges it leaves are
  among those of the extended graph.  `CheckedEdge` shows that an edge which passes
  `find_dependency_cycle` keeps a graph acyclic.

* **`LifecycleTypeCorrect`, `AssignmentsHold`, `TrailsAreTrue`,
  `RetirementSparesOccupants`, `RetirementWithdrawsEdges`**: one inductive invariant
  carries them.  A record is in the hands of at most one request (`OneHolder`), so what
  the request has seen of it is what is stored when it commits (`SessionOK`); a record
  that stands on a state whose occupants were counted, and found to be none, came after
  the count, so that its arrival is not a clean one (`CountedStates`).  `TypeOK` has a
  part that is not a type: a graph has at most one state to start from.
* **`QueueAgrees`, `OverridesShow`, `DecisionsStand`** (`CommandCenter`): unless an
  event is waiting for the project or an overtaken worker holds a copy of it, some
  worker holds a good copy, or none holds any and the row is good or was written by an
  overtaken worker (`CaughtUp`).  A copy is good if a rebuild would make it now, its
  owner's load aside if that is counted as drifted.  Each commit is accounted for: it
  announces the project whose rows it changes, and the others whose owner it loads
  drift (`AccountedStaysCaughtUp`).  From a good row the flags follow, because the
  instant of a copy is never after today (`Clock`).  One live override needs the unique
  index: an insert leaves nothing live that it did not find (`OneLive`).
* **`PagesCover`** (`CommandCenter`): the order of the queue is strict and total, since
  it ends in a code that is unique (`QueueOrderIsStrict`); so every answer lists the
  same projects ahead of a project (`EveryAnswerAgrees`), and how many they are, divided
  by the size of a page, is the one page that holds it, whichever answer each page is
  cut from (`PagesAreCounted`).  Portfolios are finite (`PortfolioIsFinite`).
* **`SomebodyStays`, `PickerKeepsItsOrder`** (`Roster`): whoever is served is an ops
  lead and stays one (`ActorsLead`), a locked row has one holder and is as that one
  read it (`OneHolder`, `LockedRows`), so the only way to lose the last active lead is
  an edit for an actor retired since; a place computed for a role is behind every role
  its request saw until the row is inserted (`Minted`).
* **`RosterReplays`** (`Roster`): of each person the trail starts with all of the row,
  each later record starts from what was last said of its field, and what is last said
  is the row (`OnRecord`).  The step is a commit: what is recorded is computed from the
  row as it is stored, because it is locked; a record appended to a trail says nothing
  new of the past nor of the other fields (`SaidOfAppended`).
* **`CodesAreFreeAfterAStart`, `ScoresFollowEveryStart`, `OnlyReloadsCloseLoops`,
  `ReseedingChangesNothing`** (`Startup`): the invariant says of each phase of the seed
  what has been done as long as nobody but seeds has written (`WorkDone`: the seeded
  rows are in, the number measured is the highest, the sequence is at it, the scores
  outside `todo` are computed), and of the sequence that no number ahead of it is in use
  but the unaligned (`NextIsFree`).  Of each project it says that the seed under way, or
  the next start, will see to it and holds no outdated copy (`Coming`), or that an event
  is waiting, a slot of the worker holds an up-to-date copy, its score is up to date, or
  it is `unscored` or `overtaken` (`Kept`; the two are `Followed`).  That there is a
  highest number is well-founded induction on the naturals (`LastNumber`).  Loops: the
  edges that no reload has put in only shrink, or grow by one that was checked against
  all edges.
* **`TimeOnlyRaisesScores`, `ReliefNeverRaises`** (`Scoring`): under a policy without
  negative weights (`Unsigned`, a hypothesis of both properties: `load_policy` does not
  ask for it, and without it both are false) a score is monotone in
  its six signals, through the rounding of each contribution, of the scaled sum and the
  clamp (`ValueFollowsTheSignals`), and each signal is monotone in what it is made of
  (`DeadlineGrows`, `OverdueGrows`, `CriticalityGrows`, `BlockageGrows`,
  `StalenessGrows`).  They rest on one fact about `Nearest`: a larger fraction is not
  rounded to less, whatever the two denominators are (`NearestGrows`), which
  `OverdueWork` needs when a task is closed and its denominator falls with it
  (`OneOverdueLess`).  For time, the later instant has no signal that is lower
  (`LaterSaysMore`); for relief, each action is shown to lower, or to leave, whatever
  the signals read (`ScoreFalls`).  The tasks and blockers of a project are finite
  (`ProjectIsFinite`).
* **`SkipsAreNoOps`** (`Scoring`): what is stored is what some data said, under the
  version's own policy while nobody has saved it again (`StoredIsExplained`), and data
  with one fingerprint have one value and one expiry (`FingerprintDecides`).  The expiry
  is the hard half, since it is computed from the instant and the fingerprint has only
  the date: a midnight is ahead exactly when its date is (`MidnightAhead`), and the end
  of the patience exactly when the silence, in whole days, is below the threshold
  (`PatienceAhead`).

* **`CardFollows`** (`Stream`): `CardFollowsTheProject` says what is coming when the card
  is not right, and needs three companions to be inductive (`TabInv`).  Nothing announced,
  copied or painted is ahead of what is stored (`NothingIsAhead`): so the event of a change
  is not among those the store has seen and is not taken for a duplicate, and a frame
  that is dropped as old, and says no more than the card, is not the one that says how
  things are.  The chain of work is empty unless the page is mounted and holds only what it
  has subscribed to (`ChainIsHeard`).  Every instant admitted is a commit or one to come
  (`Admissions`), which bounds the versions.  With them each action keeps coming what is
  coming or, where it takes it away, leaves the card right or excused.

**What is missing from the code.**  Where a claim of the repository does not hold, or a
property above needs a history variable for its exceptions, ten theorems say which
exclusion the code lacks: under it the claim holds, and the exceptions are never met.
The hypothesis is a predicate on every state of a behaviour, not an assumption on
constants, and many behaviours of the models satisfy it: where it excludes two requests,
every one that serves them in turn. The argument is an invariant each time: no step that
keeps to the exclusion adds to the history variable, so that it stays empty and the
theorem about the code as it is gives the rest.

| Theorem | If ... | then ... |
|---|---|---|
| `OneCheckKeepsAcyclic` | no two requests check prerequisites at once | the dependency graph is acyclic |
| `NothingIsDispatchedZeroTimes` | no worker is killed and the broker refuses nothing | no published pair disappears |
| `DisjointRequeuesAreSafe` | no row is in two operators' selections | a re-queue touches dead rows only |
| `HeldActorsKeepALead` | nobody else edits the row of an actor whose request is in hand | somebody can administer the roster |
| `ExclusionKeepsScoresCurrent` | no two sessions have read one project at once | a settled score is current |
| `ExclusionKeepsRowsCurrent` | moreover nobody calls the recompute route, and the snapshot-builder is deployed | a settled row is current |
| `ExclusiveDecisionsStand` | no two operators decide on one project at once | the last decision is in force |
| `ExclusiveRebuildsAgree` | no two workers rebuild one project at once | a settled row agrees with the page, except for tasks due since and loads moved elsewhere |
| `ExclusionKeepsRecordsInService` | no edge is in service at a retired state, and none is retired under a request that has chosen it | no record stands on a retired state |
| `UntouchedSeedsReload` | the dataset does not change and none of its edges is removed | no start fails on an edge, and the prerequisites are acyclic |

The first rests on what `OnlyRacesCloseLoops` says of a check that nobody overtakes.
The last needs that the places of a dataset's edges differ (`PlacesDiffer`) and that what
an operator adds is behind them and none of them (`AddPrerequisiteSeed`); of
`SafeOnEveryRestart` it leaves out the policy, which another active version violates
whatever else is done.

**Only model-checked**: liveness (`EveryDeliverySettles`, `BucketsCatchUp`), which is
outside the prover's reach.  The violation run is a counterexample and needs no proof.

## 5. Findings and claims the code does not keep

`bus_roster` is the one finding with a run of its own: the snapshot-builder subscribes
to topics that name no project, so each edit of the roster ends as a dead-lettered row.

Eleven more statements of the repository are operators of the modules, and not
properties of a run, since they do not hold.  Adding the operator to the
invariants of the configuration named, with the constants given, shows the
counterexample.  Six of them hold under a condition, which a theorem of the last table
of section 4 names: `NeverDispatchedZeroTimes`, `OnlyDeadRowsAreRequeued`,
`ScoreIsCurrentWhenSettled`, `GraphIsAcyclic`, `NoRecordOnARetiredState` and the edges of
`SafeOnEveryRestart`.

| Operator | Configuration | The statement, and what happens |
|---|---|---|
| `NeverDispatchedZeroTimes` | `bus_safety` | `events/tasks.py:17-19`: an event may be "dispatched twice", never zero times. The worker dies after `published_at` commits and before the callbacks (`tasks.py:238`). |
| `OnlyDeadRowsAreRequeued` | `bus_safety`, `Admin = {a1, a2}`, `MaxRequeues = 2` | `events/admin.py:123-126`: "Only dead-lettered rows are touched". Two operators read the same rows, and the second saves what is alive again. |
| `ScoreIsCurrentWhenSettled` | `rank_safety` | EVENTS.md:676-677: data changes "propagate immediately". The older facts can be written last, and nothing rescores until the next event or boundary. |
| `AtMostOneTickStale` | `rank_safety`, `MaxDay = 3`, `TargetDates = {3}` | EVENTS.md:676: "at most one tick stale". The number moves daily and is recomputed at three boundaries. |
| `GraphIsAcyclic` | `deps_safety` | DATA_MODEL.md:777: "The dependency graph is acyclic". Two edits that read first close a loop of three. |
| `NoRecordOnARetiredState` | `lifecycle_safety`, `EditLimit = 1` | DATA_MODEL.md:125: "Retirement is refused while any project or task sits on the node", and `workflow/models.py:352` why. The occupants are counted (`retire_state.py:86`) while a creation that has chosen the state is not committed. |
| the same | `lifecycle_safety`, `Session = {s1}`, no symmetry | The same, with nothing at once: an edge withdrawn with its state is put back in service (`update_transition.py:117`) and a record walks over it. |
| `QueueTellsTodaysTruth` | `queue_safety` | `portfolio/models.py:723-725`: "a row nobody has rebuilt since yesterday still reports today's truth". The count of overdue tasks is that of the day of the rebuild (`rebuild_snapshot.py:73`). |
| `SafeOnEveryRestart` | `seed_safety` | `docker-entrypoint.sh:17`: "An idempotent upsert, so this is safe on every restart". Another active policy, or a seeded edge removed and added again, violates a unique index; the seed fails and `set -eu` stops the api. |
| `SyncedCodesAreFree` | `seed_safety` | `sync_code_sequences.py:57-60`: "safe to run at any time [...] this only guarantees the next one is free", and RUNBOOK.md:166-170 has the seed run by hand. A blocker raised between the reading of the highest code and the `setval` (`:75`) has its number drawn again. |
| `StaleIsNeverLive` | `stream_safety`, `MaxFaults = 0` | PATTERNS_FRONTEND.md:238 and 466: "the island hydrates over the already-correct DOM", and "stale numbers shown as live" must not be. A page rendered from a row that is rebuilt after its frames went by stays as it was; and so does one that hears a frame before its handlers are attached. |
| `NewsIsNewer` | `stream_safety`, `MaxFaults = 0` | PATTERNS_FRONTEND.md:260: "drop older envelopes". A rescoring has the instant of the change that caused it (`prioritization/handlers.py:200`), where API.md:1629 shows a second more, and is dropped by a card stamped since (`live.ts:296`). |

Seen while modelling, and not the subject of a property: the root README says the seed
recomputes the snapshots, which only the snapshot-builder writes, so what a restart
puts back is not in the queue until an event about the project; a restart
resets every non-superuser password; blocker codes are reused after the newest row is
deleted in the admin and the sequence aligned again (`work/models.py:90-117`:
"codes are never reused"); `portfolio_max_business_value` is never supplied, so the
business value is always measured against the fallback; closing a task that is not
overdue raises the share of overdue work, and the score with it; `raise_blocker.py:27-28`
promises the impediment on the project's timeline while its record is filed under the
blocker; the queue's order ignores forced positions;
`load_policy` (`policies.py:73-83`) asks the weights to make up 1 and not to be
non-negative, and under a negative one waiting can lower a score and relief raise it.

## 6. What is left

Two projects in `Ranking`, whose row locks two ticks may take in different orders; the
islands of the frontend other than the overview; the timeline's pages.

## 7. Not modelled

The error table and the routers (they hold no state; the codes they answer are the
refusals of the actions); rate limits; the wording of reasons and audit records; the
admin pages other than the re-queue, the policies and the deletion of blockers; the
read-only taxonomies; migrations, proxy and build; of the frontend everything but the
stream store and the overview.  PostgreSQL,
Celery, Redis and the browser's `EventSource` are modelled by the guarantees the code
relies on: READ COMMITTED with row locks, foreign keys and unique indexes, late
acknowledgement with redelivery, an at-least-once list, a channel without history, a
reconnection with the last id.
