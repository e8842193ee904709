------------------------------ MODULE Scoring ------------------------------
(***************************************************************************)
(* The arithmetic of the ranking (apps/prioritization/domain) over one     *)
(* project's rows: six signals, the weights of the active policy, the      *)
(* engagement's factor, and the fingerprint that lets a recomputation be   *)
(* skipped.  Ranking has the sessions that run it; here a recomputation is *)
(* one step, at the instant of whichever event asks for it.                *)
(*                                                                         *)
(* Time is counted in instants, PerDay to the day.  A raw signal is in ten *)
(* thousandths (round(..., 4)), a weight and a factor in hundredths, a     *)
(* contribution and a score in cents (numeric(5, 2)).                      *)
(***************************************************************************)
EXTENDS Integers, FiniteSets, FiniteSetsExt

CONSTANTS
  Task, Blocker,    \* rows of the project, by key
  Amount, Worth,    \* contract values, and what log1p makes of one, a raw signal
  Factor,           \* weights of engagement types
  Due,              \* due dates operators give a task
  Policy,           \* what an operator may save as a policy
  Version, SeedPolicy,  \* policies by version, and what the first ones say
  PerDay,
  Horizon, FinalWeek, Threshold,      \* days: PRESSURE_HORIZON_DAYS,
                                      \* FINAL_WEEK_DAYS, STALENESS_THRESHOLD_DAYS
  AgeSaturation, UrgentSaturation,    \* AGE_SATURATION_DAYS, URGENT_SATURATION_TASKS
  LastInstant, EditLimit,             \* bounds: instants and edits in a behaviour
  None

Instant == 0..LastInstant
DateOf(t) == t \div PerDay
Day == 0..DateOf(LastInstant)

Signal == {"deadline_pressure", "overdue_work", "criticality", "business_value",
           "blockage", "staleness"}

One == 10000
MinScore == 0
MaxScore == 10000

ASSUME ScalesAreNatural ==
  /\ PerDay \in Nat \ {0} /\ LastInstant \in Nat /\ EditLimit \in Nat
  /\ {Horizon, Threshold, AgeSaturation, UrgentSaturation} \subseteq Nat \ {0}
  /\ FinalWeek \in Nat /\ Factor \subseteq Nat \ {0} /\ Due \subseteq Day
ASSUME ProjectIsFinite == IsFiniteSet(Task) /\ IsFiniteSet(Blocker)
ASSUME WorthAssumption == Worth \in [Amount -> 0..One]
ASSUME PolicyAssumption ==
  /\ \A p \in Policy : /\ p.scaled \in BOOLEAN
                       /\ \A s \in DOMAIN p.weights : p.weights[s] \in Int
  /\ SeedPolicy \in [Version -> Policy]
ASSUME NoneIsNothing == None \notin Version \cup Amount \cup Instant

VARIABLES
  now,
  target,   \* Project.target_date
  step,     \* there is a next_step
  amount,   \* Project.business_value
  factor,   \* EngagementType.weight
  last,     \* the newest activity somebody caused
  task,     \* of a task: None, or an open one's due date and urgency
  raised,   \* of a blocker: raised_at while it is open
  policy,   \* PriorityPolicy, by version
  active,   \* the version with is_active
  stored,   \* PriorityScore
  edits,
  retuned   \* history: the stored score's policy was saved again since

rows == <<target, step, amount, factor, last, task, raised>>
vars == <<now, rows, policy, active, stored, edits, retuned>>

Init ==
  /\ now = 0
  /\ target = None /\ step = FALSE /\ amount = None /\ factor \in Factor
  /\ last = 0
  /\ task = [k \in Task |-> None] /\ raised = [b \in Blocker |-> None]
  /\ policy = SeedPolicy /\ active \in Version
  /\ stored = None /\ edits = 0 /\ retuned = FALSE

-----------------------------------------------------------------------------
(* The facts of the project at an instant (collect_project_facts). *)

AgeInDays(moment, t) == IF t < moment THEN 0 ELSE (t - moment) \div PerDay

OpenTasks == {k \in Task : task[k] # None}
Overdue(k, day) == task[k] # None /\ task[k].due # None /\ task[k].due < day

OpenBlockers == {b \in Blocker : raised[b] # None}

\* Mutant: the age of the newest blocker drives the score.
Newest == Max({raised[b] : b \in OpenBlockers})

\* BlockerQuerySet.summary: Min("raised_at").
Oldest == Min({raised[b] : b \in OpenBlockers})

Input(t) ==
  [now      |-> t,
   target   |-> target,
   step     |-> step,
   open     |-> Cardinality(OpenTasks),
   overdue  |-> Cardinality({k \in OpenTasks : Overdue(k, DateOf(t))}),
   urgent   |-> Cardinality({k \in OpenTasks : task[k].urgent}),
   blockers |-> Cardinality(OpenBlockers),
   oldest   |-> IF OpenBlockers = {} THEN None ELSE AgeInDays(Oldest, t),
   amount   |-> amount,
   factor   |-> factor,
   last     |-> last,
   silence  |-> IF last = None THEN None ELSE AgeInDays(last, t)]

-----------------------------------------------------------------------------
(* The signals. *)

\* Of a fraction of One, as round(n / d, 4): no tie unless 32 divides d.
Nearest(n, d) == (2 * One * n + d) \div (2 * d)

Clamped(raw) == IF raw > One THEN One ELSE raw

\* Mutant: a date that has passed presses no more.
PressureUntil(data) ==
  LET left == data.target - DateOf(data.now)
  IN  IF data.target = None THEN One \div 2
      ELSE IF left < 0 \/ left >= Horizon THEN 0
      ELSE Nearest(Horizon - left, Horizon)

\* Without a date, half; on the date and after it, all.
DeadlinePressure(data) ==
  IF data.target = None THEN One \div 2
  ELSE LET left == data.target - DateOf(data.now)
       IN  IF left <= 0 THEN One
           ELSE IF left >= Horizon THEN 0 ELSE Nearest(Horizon - left, Horizon)

OverdueWork(data) == IF data.open = 0 THEN 0 ELSE Nearest(data.overdue, data.open)

Criticality(data) == Clamped(Nearest(data.urgent, UrgentSaturation))

BusinessValue(data) == IF data.amount = None THEN 0 ELSE Worth[data.amount]

\* From half, when a blocker is raised, to all.
Blockage(data) ==
  IF data.blockers = 0 THEN 0
  ELSE Clamped(One \div 2 + Nearest(data.oldest, 2 * AgeSaturation))

\* No next step is worth a quarter of the threshold.
Staleness(data) ==
  IF data.silence = None THEN One
  ELSE Clamped(Nearest(data.silence, Threshold) + IF data.step THEN 0 ELSE One \div 4)

-----------------------------------------------------------------------------
(* The score. *)

Sum(of) == of.deadline_pressure + of.overdue_work + of.criticality
           + of.business_value + of.blockage + of.staleness

\* load_policy: every registered signal has a weight, and they make up 1; that
\* each is positive is not asked.
Usable(p) == DOMAIN p.weights = Signal /\ Sum(p.weights) = 100

\* No signal counts in a project's disfavour.
Unsigned(p) == \A s \in Signal : p.weights[s] >= 0

\* _quantize: ROUND_HALF_UP, of hundredths of a cent; a half goes away from zero.
Quantize(n) == IF n >= 0 THEN (n + 50) \div 100 ELSE -((50 - n) \div 100)

Contribution(raw, weight) == Quantize(raw * weight)

\* compute_breakdown: what the signals contribute.
Base(data, weights) ==
  Contribution(DeadlinePressure(data), weights.deadline_pressure)
  + Contribution(OverdueWork(data), weights.overdue_work)
  + Contribution(Criticality(data), weights.criticality)
  + Contribution(BusinessValue(data), weights.business_value)
  + Contribution(Blockage(data), weights.blockage)
  + Contribution(Staleness(data), weights.staleness)

Scaled(data, p) ==
  Quantize(Base(data, p.weights) * IF p.scaled THEN data.factor ELSE 100)

\* Mutant: the clamp is left to the check constraint.
Unclamped(data, p) == Scaled(data, p)

\* compute_breakdown: the modifier, and the clamp.
Value(data, p) == Min({Max({Scaled(data, p), MinScore}), MaxScore})

\* The midnights of the date and of its final week, and the end of the patience.
Boundaries(data) ==
  (IF data.target = None THEN {}
   ELSE {data.target * PerDay, (data.target - FinalWeek) * PerDay})
  \cup (IF data.last = None THEN {} ELSE {data.last + Threshold * PerDay})

\* compute_valid_until
ValidUntil(data) ==
  LET future == {t \in Boundaries(data) : t > data.now}
  IN  IF future = {} THEN None ELSE Min(future)

\* Mutant: only what the rows say, the ages left out.
RowsOnly(data) == [data EXCEPT !.now = DateOf(data.now), !.silence = 0, !.oldest = 0]

\* compute_input_hash: all of it, the instant by its date.
Fingerprint(data) == [data EXCEPT !.now = DateOf(data.now)]

-----------------------------------------------------------------------------
NextInstant ==
  /\ now < LastInstant /\ now' = now + 1
  /\ UNCHANGED <<rows, policy, active, stored, edits, retuned>>

\* An operator's edit, and whether the timeline of the project records it.
Edit(recorded) ==
  /\ edits < EditLimit /\ edits' = edits + 1
  /\ last' = IF recorded THEN now ELSE last
  /\ UNCHANGED <<now, policy, active, stored, retuned>>

SetTarget(d) ==
  /\ Edit(FALSE) /\ d # target /\ target' = d
  /\ UNCHANGED <<step, amount, factor, task, raised>>

SetNextStep ==
  /\ Edit(TRUE) /\ step' = ~step
  /\ UNCHANGED <<target, amount, factor, task, raised>>

SetAmount(a) ==
  /\ Edit(FALSE) /\ a # amount /\ amount' = a
  /\ UNCHANGED <<target, step, factor, task, raised>>

\* Another engagement type, or another weight for it (catalog admin).
SetFactor(f) ==
  /\ Edit(FALSE) /\ f # factor /\ factor' = f
  /\ UNCHANGED <<target, step, amount, task, raised>>

OpenTask(k) ==
  /\ Edit(TRUE) /\ task[k] = None
  /\ \E due \in Due \cup {None}, urgent \in BOOLEAN :
       task' = [task EXCEPT ![k] = [due |-> due, urgent |-> urgent]]
  /\ UNCHANGED <<target, step, amount, factor, raised>>

\* Done or cancelled, or removed, which is recorded: it counts no more.
CloseTask(k) ==
  /\ \E removed \in BOOLEAN : Edit(removed)
  /\ task[k] # None /\ task' = [task EXCEPT ![k] = None]
  /\ UNCHANGED <<target, step, amount, factor, raised>>

AddNote == Edit(TRUE) /\ UNCHANGED <<target, step, amount, factor, task, raised>>

RaiseBlocker(b) ==
  /\ Edit(FALSE) /\ raised[b] = None /\ raised' = [raised EXCEPT ![b] = now]
  /\ UNCHANGED <<target, step, amount, factor, task>>

ResolveBlocker(b) ==
  /\ Edit(FALSE) /\ raised[b] # None /\ raised' = [raised EXCEPT ![b] = None]
  /\ UNCHANGED <<target, step, amount, factor, task>>

\* The admin saves the weights of a version, the active one's included.
SavePolicy(v) ==
  /\ edits < EditLimit /\ edits' = edits + 1
  /\ \E p \in Policy \ {policy[v]} : policy' = [policy EXCEPT ![v] = p]
  /\ retuned' = (retuned \/ (stored # None /\ stored.version = v))
  /\ UNCHANGED <<now, rows, active, stored>>

\* One version is active; the admin puts it out of service before another.
ActivatePolicy(v) ==
  /\ edits < EditLimit /\ edits' = edits + 1
  /\ active' = IF active = None THEN v ELSE None
  /\ UNCHANGED <<now, rows, policy, stored, retuned>>

Scores == active # None /\ Usable(policy[active])

Skips(t) == /\ stored # None
            /\ stored.input = Fingerprint(Input(t)) /\ stored.version = active

\* recompute_for_project, at the instant of an event that may be old.
Recompute(t) ==
  /\ Scores /\ ~Skips(t)
  /\ stored' = [value   |-> Value(Input(t), policy[active]),
                version |-> active,
                input   |-> Fingerprint(Input(t)),
                valid   |-> ValidUntil(Input(t))]
  /\ retuned' = FALSE
  /\ UNCHANGED <<now, rows, policy, active, edits>>

\* Nothing to do; or ActivePolicyNotFound, PolicySignalMismatch,
\* PolicyWeightsNotNormalized.
NothingWritten ==
  /\ {t \in 0..now : Scores => Skips(t)} # {}
  /\ UNCHANGED vars

Next ==
  \/ NextInstant \/ SetNextStep \/ AddNote
  \/ \E d \in Day \cup {None} : SetTarget(d)
  \/ \E a \in Amount \cup {None} : SetAmount(a)
  \/ \E f \in Factor : SetFactor(f)
  \/ \E k \in Task : OpenTask(k) \/ CloseTask(k)
  \/ \E b \in Blocker : RaiseBlocker(b) \/ ResolveBlocker(b)
  \/ \E v \in Version : SavePolicy(v) \/ ActivatePolicy(v)
  \/ \E t \in 0..now : Recompute(t)
  \/ NothingWritten

Spec == Init /\ [][Next]_vars

-----------------------------------------------------------------------------
\* The type of every variable; a stored score is within its column's range.
TypeOK ==
  /\ now \in Instant /\ edits \in 0..EditLimit /\ retuned \in BOOLEAN
  /\ target \in Day \cup {None} /\ step \in BOOLEAN
  /\ amount \in Amount \cup {None} /\ factor \in Factor /\ last \in Instant
  /\ task \in [Task -> {None} \cup [due : Due \cup {None}, urgent : BOOLEAN]]
  /\ raised \in [Blocker -> Instant \cup {None}]
  /\ policy \in [Version -> Policy] /\ active \in Version \cup {None}
  /\ stored # None => /\ stored.value \in 0..MaxScore
                      /\ stored.version \in Version
                      /\ stored.valid \in Nat \cup {None}

\* "Equal hash plus equal policy_version means recomputation is a no-op": at
\* whatever instant a recomputation is skipped, it would have stored the value
\* and the expiry that are stored, unless the version was saved again.
SkippingIsANoOp ==
  Scores /\ stored # None /\ ~retuned /\ stored.version = active =>
    \A t \in Instant : stored.input = Fingerprint(Input(t)) =>
      /\ stored.value = Value(Input(t), policy[active])
      /\ stored.valid = ValidUntil(Input(t))

\* Left alone, a project only climbs: no boundary of a signal or of a rounding
\* lowers what a later recomputation of the same rows computes, as long as the
\* active policy gives no signal a negative weight.
TimeNeverLowersAScore ==
  Scores /\ Unsigned(policy[active]) =>
    LET value == [t \in Instant |-> Value(Input(t), policy[active])]
    IN  \A t \in Instant \ {0} : value[t - 1] <= value[t]

Current == Value(Input(now), policy[active])

\* What an operator does to help: a blocker resolved, overdue work closed, a
\* next step written, a date moved back.  Work that is not overdue is left out:
\* closing it makes what is overdue a larger part of the rest.
Relief ==
  \/ \E b \in Blocker : ResolveBlocker(b)
  \/ \E k \in Task : Overdue(k, DateOf(now)) /\ CloseTask(k)
  \/ ~step /\ SetNextStep
  \/ target # None /\ target' # None /\ target' > target /\ SetTarget(target')

\* Helping a project never raises its score (the signals, taken together) under a
\* policy without negative weights.
ReliefNeverRaisesAScore ==
  [][Scores /\ Unsigned(policy[active]) /\ Relief => Current' <= Current]_vars
=============================================================================
