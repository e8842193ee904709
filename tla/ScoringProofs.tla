--------------------------- MODULE ScoringProofs ---------------------------
(***************************************************************************)
(* Theorems about Scoring for any rows, policies, scales and bounds.       *)
(***************************************************************************)
EXTENDS Scoring, FiniteSetTheorems, TLAPS

-----------------------------------------------------------------------------
(***************************************************************************)
(* Arithmetic.                                                             *)
(***************************************************************************)

LEMMA Quotient ==
  ASSUME NEW n \in Nat, NEW d \in Nat \ {0}
  PROVE  n \div d \in Nat /\ d * (n \div d) <= n /\ n < d * (n \div d) + d
OBVIOUS

\* A product that fits is at most the quotient.
LEMMA QuotientIsLargest ==
  ASSUME NEW n \in Nat, NEW d \in Nat \ {0}, NEW x \in Nat, d * x <= n
  PROVE  x <= n \div d
<1> DEFINE y == n \div d
<1>1. y \in Nat /\ n < d * y + d
  BY Quotient
<1> HIDE DEF y
<1>2. d * (y + 1) = d * y + d
  BY <1>1
<1>3. ASSUME x >= y + 1 PROVE FALSE
  <2>1. d * x >= d * (y + 1)
    BY <1>1, <1>3
  <2> QED  BY <1>1, <1>2, <2>1
<1>4. x <= y
  BY <1>1, <1>3
<1> QED  BY <1>4 DEF y

LEMMA QuotientsGrow ==
  ASSUME NEW n \in Nat, NEW m \in Nat, NEW d \in Nat \ {0}, n <= m
  PROVE  n \div d <= m \div d /\ n \div d <= n
OBVIOUS

LEMMA NearestIsNatural ==
  ASSUME NEW n \in Nat, NEW d \in Nat \ {0}
  PROVE  Nearest(n, d) \in Nat
BY DEF Nearest, One

\* A larger fraction is not rounded to less.
LEMMA NearestGrows ==
  ASSUME NEW n \in Nat, NEW d \in Nat \ {0}, NEW m \in Nat, NEW e \in Nat \ {0},
         n * e <= m * d
  PROVE  Nearest(n, d) <= Nearest(m, e)
<1> DEFINE x == Nearest(n, d)
<1>1. One \in Nat
  BY DEF One
<1>2. x \in Nat /\ (2 * d) * x <= 2 * One * n + d
  <2>1. 2 * One * n + d \in Nat /\ 2 * d \in Nat \ {0}
    BY <1>1
  <2> QED  BY <2>1, Quotient DEF Nearest
<1> HIDE DEF x
<1>3. d * ((2 * e) * x) = e * ((2 * d) * x)
  <2>1. \A i, j, k \in Nat : i * ((2 * j) * k) = 2 * (i * (j * k))
    OBVIOUS
  <2>2. \A i, j, k \in Nat : i * (j * k) = j * (i * k)
    OBVIOUS
  <2>3. d * ((2 * e) * x) = 2 * (d * (e * x)) /\ e * ((2 * d) * x) = 2 * (e * (d * x))
    BY <1>2, <2>1
  <2> QED  BY <1>2, <2>2, <2>3
<1>4. e * ((2 * d) * x) <= e * (2 * One * n + d)
  BY <1>1, <1>2
<1>5. e * (2 * One * n + d) = 2 * One * (n * e) + e * d
  BY <1>1
<1>6. 2 * One * (n * e) <= 2 * One * (m * d)
  BY <1>1
<1>7. 2 * One * (m * d) + e * d = d * (2 * One * m + e)
  BY <1>1
<1>8. d * ((2 * e) * x) <= d * (2 * One * m + e)
  BY <1>1, <1>2, <1>3, <1>4, <1>5, <1>6, <1>7
<1>9. (2 * e) * x <= 2 * One * m + e
  BY <1>1, <1>2, <1>8
<1>10. x <= Nearest(m, e)
  BY <1>1, <1>2, <1>9, QuotientIsLargest DEF Nearest
<1> QED  BY <1>10 DEF x

LEMMA NearestOfSome ==
  ASSUME NEW d \in Nat \ {0}, NEW m \in Nat, NEW n \in Nat, n <= m
  PROVE  /\ Nearest(n, d) <= Nearest(m, d)
         /\ m <= d => Nearest(m, d) <= One
<1>1. n * d <= m * d
  OBVIOUS
<1>2. ASSUME m <= d PROVE Nearest(m, d) <= One
  <2>1. m * 1 <= 1 * d
    BY <1>2
  <2>2. Nearest(m, d) <= Nearest(1, 1)
    BY <2>1, NearestGrows
  <2>3. Nearest(1, 1) = One
    BY DEF Nearest, One
  <2> QED  BY <2>2, <2>3
<1> QED  BY <1>1, <1>2, NearestGrows

LEMMA QuantizeGrows ==
  ASSUME NEW n \in Nat, NEW m \in Nat, n <= m
  PROVE  Quantize(n) \in Nat /\ Quantize(m) \in Nat /\ Quantize(n) <= Quantize(m)
BY DEF Quantize

LEMMA QuantizeIsInteger ==
  ASSUME NEW n \in Int
  PROVE  Quantize(n) \in Int
<1>1. n >= 0 => n + 50 \in Nat
  OBVIOUS
<1>2. ~(n >= 0) => 50 - n \in Nat
  OBVIOUS
<1>3. \A m \in Nat : m \div 100 \in Int
  BY Quotient
<1> QED  BY <1>1, <1>2, <1>3 DEF Quantize

LEMMA ClampedGrows ==
  ASSUME NEW n \in Nat, NEW m \in Nat, n <= m
  PROVE  Clamped(n) \in Nat /\ Clamped(m) \in Nat /\ Clamped(n) <= Clamped(m)
BY DEF Clamped, One

LEMMA ClampedIsNatural ==
  ASSUME NEW n \in Nat
  PROVE  Clamped(n) \in Nat
BY DEF Clamped, One

LEMMA LeastOf ==
  ASSUME NEW S \in SUBSET Nat, S # {}
  PROVE  Min(S) \in S /\ \A y \in S : Min(S) <= y
<1>1. PICK x \in S : \A y \in S : <<y, x>> \notin OpToRel(<, Nat)
  BY WFMin, NatLessThanWellFounded
<1>2. \A y \in S : ~(y < x)
  BY <1>1 DEF OpToRel
<1>3. \A y \in S : x <= y
  BY <1>2
<1> QED  BY <1>3 DEF Min

\* compute_breakdown's min and max, of any sum.
LEMMA ScoreIsClamped ==
  ASSUME NEW x \in Int
  PROVE  Min({Max({x, MinScore}), MaxScore}) =
           IF x < MinScore THEN MinScore ELSE IF x <= MaxScore THEN x ELSE MaxScore
<1>1. \A a, b \in Int : Max({a, b}) = IF a >= b THEN a ELSE b
  BY DEF Max
<1>2. \A a, b \in Int : Min({a, b}) = IF a <= b THEN a ELSE b
  BY DEF Min
<1>3. MinScore = 0 /\ MaxScore = 10000
  BY DEF MinScore, MaxScore
<1>4. Max({x, 0}) = IF x >= 0 THEN x ELSE 0
  BY <1>1
<1>5. Max({x, 0}) \in Int
  BY <1>4
<1>6. Min({Max({x, 0}), 10000}) = IF Max({x, 0}) <= 10000 THEN Max({x, 0}) ELSE 10000
  BY <1>2, <1>5
<1> QED  BY <1>3, <1>4, <1>6

LEMMA Dates ==
  /\ Instant \subseteq Nat /\ 0 \in Instant /\ Day \subseteq Instant
  /\ PerDay \in Nat \ {0} /\ None \notin Instant
  /\ \A t \in Instant : DateOf(t) \in Day
<1>1. /\ PerDay \in Nat \ {0} /\ LastInstant \in Nat /\ None \notin Instant
      /\ \A t \in Instant : t \in Nat /\ t <= LastInstant
  BY ScalesAreNatural, NoneIsNothing DEF Instant
<1>2. \A t \in Instant : DateOf(t) \in Nat /\ DateOf(t) <= DateOf(LastInstant)
  BY <1>1, Quotient, QuotientsGrow DEF DateOf
<1>3. DateOf(LastInstant) \in Nat /\ DateOf(LastInstant) <= LastInstant
  BY <1>1, Quotient, QuotientsGrow DEF DateOf
<1> QED  BY <1>1, <1>2, <1>3 DEF Instant, Day

\* An age grows with the instant and falls with the moment.
LEMMA Ages ==
  ASSUME NEW a \in Instant, NEW b \in Instant, NEW s \in Instant, NEW t \in Instant,
         b <= a, s <= t
  PROVE  /\ AgeInDays(a, s) \in Instant /\ AgeInDays(b, t) \in Instant
         /\ AgeInDays(a, s) <= AgeInDays(b, t)
         /\ AgeInDays(t, t) = 0
<1>1. /\ a \in Nat /\ b \in Nat /\ s \in Nat /\ t \in Nat /\ PerDay \in Nat \ {0}
      /\ \A x \in Nat : x <= t => x \in Instant
  BY Dates, ScalesAreNatural DEF Instant
<1>2. \A x, y \in Nat : x <= y =>
        x \div PerDay \in Nat /\ y \div PerDay \in Nat /\ x \div PerDay <= y \div PerDay
          /\ y \div PerDay <= y
  BY <1>1, Quotient, QuotientsGrow
<1>3. s >= a => s - a \in Nat /\ t - b \in Nat /\ s - a <= t - b
  BY <1>1
<1>4. t >= b => t - b \in Nat /\ (t - b) \div PerDay \in Nat /\ (t - b) \div PerDay <= t
  BY <1>1, <1>2
<1>5. s >= a => s - a \in Nat /\ (s - a) \div PerDay \in Nat /\ (s - a) \div PerDay <= t
  BY <1>1, <1>2, <1>3
<1>6. 0 \div PerDay = 0
  BY <1>1, <1>2
<1> QED  BY <1>1, <1>2, <1>3, <1>4, <1>5, <1>6 DEF AgeInDays

-----------------------------------------------------------------------------
(***************************************************************************)
(* What the rows say, as data.                                             *)
(***************************************************************************)

Data ==
  [now : Instant, target : Day \cup {None}, step : BOOLEAN, open : Nat,
   overdue : Nat, urgent : Nat, blockers : Nat, oldest : Instant \cup {None},
   amount : Amount \cup {None}, factor : Factor, last : Instant, silence : Instant]

\* The ages are those of the moments.
Aged(d) ==
  /\ d.blockers # 0 => d.oldest \in Instant
  /\ d.silence = AgeInDays(d.last, d.now)

LEMMA TasksAreCounted ==
  ASSUME NEW S \in SUBSET Task, NEW T \in SUBSET S
  PROVE  /\ Cardinality(S) \in Nat /\ Cardinality(T) \in Nat
         /\ Cardinality(T) <= Cardinality(S)
<1>1. IsFiniteSet(S) /\ IsFiniteSet(T)
  BY ProjectIsFinite, FS_Subset
<1> QED  BY <1>1, FS_CardinalityType, FS_Subset

LEMMA BlockersAreCounted ==
  /\ Cardinality(OpenBlockers) \in Nat
  /\ Cardinality(OpenBlockers) = 0 <=> OpenBlockers = {}
<1>1. OpenBlockers \in SUBSET Blocker
  BY DEF OpenBlockers
<1>2. IsFiniteSet(OpenBlockers)
  BY <1>1, ProjectIsFinite, FS_Subset
<1> QED  BY <1>2, FS_CardinalityType, FS_EmptySet

\* The oldest open blocker is one of them.
LEMMA OldestIsOpen ==
  ASSUME TypeOK, OpenBlockers # {}
  PROVE  /\ \E b \in OpenBlockers : Oldest = raised[b]
         /\ \A b \in OpenBlockers : Oldest <= raised[b]
         /\ Oldest \in Instant
<1> DEFINE S == {raised[b] : b \in OpenBlockers}
<1>1. \A b \in OpenBlockers : raised[b] \in Instant
  BY DEF TypeOK, OpenBlockers
<1>2. S \in SUBSET Nat /\ S # {}
  BY <1>1, Dates
<1>3. Min(S) \in S /\ \A y \in S : Min(S) <= y
  BY <1>2, LeastOf
<1>4. Oldest = Min(S)
  BY DEF Oldest
<1> QED  BY <1>1, <1>3, <1>4

LEMMA InputIsData ==
  ASSUME TypeOK, NEW t \in Instant
  PROVE  Input(t) \in Data /\ Aged(Input(t))
<1>1. /\ Cardinality(OpenTasks) \in Nat
      /\ Cardinality({k \in OpenTasks : Overdue(k, DateOf(t))}) \in Nat
      /\ Cardinality({k \in OpenTasks : task[k].urgent}) \in Nat
  <2>1. OpenTasks \in SUBSET Task
    BY DEF OpenTasks
  <2> QED  BY <2>1, TasksAreCounted
<1>2. ASSUME OpenBlockers # {} PROVE AgeInDays(Oldest, t) \in Instant
  <2>1. Oldest \in Instant /\ Oldest \in Nat /\ t \in Nat
    BY <1>2, OldestIsOpen, Dates
  <2>2. Oldest <= Oldest /\ t <= t
    BY <2>1
  <2> QED  BY <2>1, <2>2, Ages
<1>3. last \in Instant /\ last # None /\ AgeInDays(last, t) \in Instant
  <2>1. last \in Instant /\ last \in Nat /\ t \in Nat /\ last # None
    BY Dates DEF TypeOK
  <2>2. last <= last /\ t <= t
    BY <2>1
  <2> QED  BY <2>1, <2>2, Ages
<1>4. /\ target \in Day \cup {None} /\ step \in BOOLEAN
      /\ amount \in Amount \cup {None} /\ factor \in Factor
  BY DEF TypeOK
<1> QED  BY <1>1, <1>2, <1>3, <1>4, BlockersAreCounted DEF Input, Data, Aged

-----------------------------------------------------------------------------
(***************************************************************************)
(* The score as a function of the signals.                                 *)
(***************************************************************************)

LEMMA Scales ==
  /\ Horizon \in Nat \ {0} /\ Threshold \in Nat \ {0} /\ UrgentSaturation \in Nat \ {0}
  /\ AgeSaturation \in Nat \ {0} /\ 2 * AgeSaturation \in Nat \ {0}
  /\ One \in Nat /\ One \div 2 \in Nat /\ One \div 2 <= One /\ One \div 4 \in Nat
  /\ FinalWeek \in Nat
  /\ \A f \in Factor : f \in Nat
<1>1. /\ Horizon \in Nat \ {0} /\ Threshold \in Nat \ {0} /\ UrgentSaturation \in Nat \ {0}
      /\ AgeSaturation \in Nat \ {0} /\ FinalWeek \in Nat
      /\ \A f \in Factor : f \in Nat
  BY ScalesAreNatural
<1>2. 2 * AgeSaturation \in Nat \ {0}
  BY <1>1
<1>3. One \in Nat /\ One \div 2 \in Nat /\ One \div 2 <= One /\ One \div 4 \in Nat
  BY DEF One
<1> QED  BY <1>1, <1>2, <1>3

LEMMA SignalsAreNatural ==
  ASSUME NEW d \in Data, Aged(d)
  PROVE  /\ DeadlinePressure(d) \in Nat /\ OverdueWork(d) \in Nat
         /\ Criticality(d) \in Nat /\ BusinessValue(d) \in Nat
         /\ Blockage(d) \in Nat /\ Staleness(d) \in Nat
<1>1. /\ d.now \in Instant /\ d.target \in Day \cup {None}
      /\ d.open \in Nat /\ d.overdue \in Nat /\ d.urgent \in Nat
      /\ d.blockers # 0 => d.oldest \in Nat
      /\ d.amount \in Amount \cup {None} /\ d.silence \in Nat
  BY Dates DEF Data, Aged
<1>2. DeadlinePressure(d) \in Nat
  <2> DEFINE left == d.target - DateOf(d.now)
  <2>0. DateOf(d.now) \in Nat /\ (d.target # None => d.target \in Nat)
    BY <1>1, Dates
  <2>1. d.target # None => left \in Int
    BY <2>0
  <2> HIDE DEF left
  <2>2. ASSUME d.target # None, ~(left <= 0), ~(left >= Horizon)
        PROVE  Nearest(Horizon - left, Horizon) \in Nat
    <3>1. Horizon \in Nat \ {0} /\ Horizon - left \in Nat
      BY <2>1, <2>2, Scales
    <3> QED  BY <3>1, NearestIsNatural
  <2>3. DeadlinePressure(d) = IF d.target = None THEN One \div 2
          ELSE IF left <= 0 THEN One
          ELSE IF left >= Horizon THEN 0 ELSE Nearest(Horizon - left, Horizon)
    BY DEF DeadlinePressure, left
  <2> QED  BY <2>2, <2>3, Scales
<1>3. OverdueWork(d) \in Nat
  BY <1>1, NearestIsNatural DEF OverdueWork
<1>4. Criticality(d) \in Nat
  <2>1. Nearest(d.urgent, UrgentSaturation) \in Nat
    BY <1>1, Scales, NearestIsNatural
  <2> QED  BY <2>1, ClampedIsNatural DEF Criticality
<1>5. BusinessValue(d) \in Nat
  BY <1>1, WorthAssumption DEF BusinessValue
<1>6. Blockage(d) \in Nat
  <2>1. d.blockers # 0 => Nearest(d.oldest, 2 * AgeSaturation) \in Nat
    BY <1>1, Scales, NearestIsNatural
  <2> QED  BY <2>1, Scales, ClampedIsNatural DEF Blockage
<1>7. Staleness(d) \in Nat
  <2>1. Nearest(d.silence, Threshold) \in Nat
    BY <1>1, Scales, NearestIsNatural
  <2>2. Nearest(d.silence, Threshold) + (IF d.step THEN 0 ELSE One \div 4) \in Nat
    BY <2>1, Scales
  <2> QED  BY <2>2, Scales, ClampedIsNatural DEF Staleness
<1> QED  BY <1>2, <1>3, <1>4, <1>5, <1>6, <1>7

\* No signal says less.
AtLeast(e, d) ==
  /\ DeadlinePressure(d) <= DeadlinePressure(e) /\ OverdueWork(d) <= OverdueWork(e)
  /\ Criticality(d) <= Criticality(e) /\ BusinessValue(d) <= BusinessValue(e)
  /\ Blockage(d) <= Blockage(e) /\ Staleness(d) <= Staleness(e)

LEMMA ContributionGrows ==
  ASSUME NEW n \in Nat, NEW m \in Nat, NEW w \in Nat, n <= m
  PROVE  /\ Contribution(n, w) \in Nat /\ Contribution(m, w) \in Nat
         /\ Contribution(n, w) <= Contribution(m, w)
<1>1. n * w \in Nat /\ m * w \in Nat /\ n * w <= m * w
  OBVIOUS
<1> QED  BY <1>1, QuantizeGrows DEF Contribution

LEMMA PolicyParts ==
  ASSUME NEW p \in Policy, Usable(p)
  PROVE  /\ p.scaled \in BOOLEAN
         /\ p.weights.deadline_pressure \in Int /\ p.weights.overdue_work \in Int
         /\ p.weights.criticality \in Int /\ p.weights.business_value \in Int
         /\ p.weights.blockage \in Int /\ p.weights.staleness \in Int
         /\ Unsigned(p) =>
              /\ p.weights.deadline_pressure \in Nat /\ p.weights.overdue_work \in Nat
              /\ p.weights.criticality \in Nat /\ p.weights.business_value \in Nat
              /\ p.weights.blockage \in Nat /\ p.weights.staleness \in Nat
<1>1. p.scaled \in BOOLEAN /\ \A s \in Signal : p.weights[s] \in Int
  BY PolicyAssumption DEF Usable
<1>2. Unsigned(p) => \A s \in Signal : p.weights[s] \in Nat
  BY <1>1 DEF Unsigned
<1> QED  BY <1>1, <1>2 DEF Signal

\* A score follows its signals, through every rounding and the clamps, if none of
\* them has a negative weight.
LEMMA ValueFollowsTheSignals ==
  ASSUME NEW d \in Data, NEW e \in Data, Aged(d), Aged(e), d.factor = e.factor,
         AtLeast(e, d), NEW p \in Policy, Usable(p), Unsigned(p)
  PROVE  Value(d, p) <= Value(e, p)
<1> DEFINE w == p.weights
<1>1. /\ w.deadline_pressure \in Nat /\ w.overdue_work \in Nat
      /\ w.criticality \in Nat /\ w.business_value \in Nat
      /\ w.blockage \in Nat /\ w.staleness \in Nat
  BY PolicyParts
<1> HIDE DEF w
<1>2. Base(d, w) \in Nat /\ Base(e, w) \in Nat /\ Base(d, w) <= Base(e, w)
  <2>1. /\ Contribution(DeadlinePressure(d), w.deadline_pressure) \in Nat
        /\ Contribution(DeadlinePressure(e), w.deadline_pressure) \in Nat
        /\ Contribution(DeadlinePressure(d), w.deadline_pressure)
             <= Contribution(DeadlinePressure(e), w.deadline_pressure)
    BY <1>1, SignalsAreNatural, ContributionGrows DEF AtLeast
  <2>2. /\ Contribution(OverdueWork(d), w.overdue_work) \in Nat
        /\ Contribution(OverdueWork(e), w.overdue_work) \in Nat
        /\ Contribution(OverdueWork(d), w.overdue_work)
             <= Contribution(OverdueWork(e), w.overdue_work)
    BY <1>1, SignalsAreNatural, ContributionGrows DEF AtLeast
  <2>3. /\ Contribution(Criticality(d), w.criticality) \in Nat
        /\ Contribution(Criticality(e), w.criticality) \in Nat
        /\ Contribution(Criticality(d), w.criticality)
             <= Contribution(Criticality(e), w.criticality)
    BY <1>1, SignalsAreNatural, ContributionGrows DEF AtLeast
  <2>4. /\ Contribution(BusinessValue(d), w.business_value) \in Nat
        /\ Contribution(BusinessValue(e), w.business_value) \in Nat
        /\ Contribution(BusinessValue(d), w.business_value)
             <= Contribution(BusinessValue(e), w.business_value)
    BY <1>1, SignalsAreNatural, ContributionGrows DEF AtLeast
  <2>5. /\ Contribution(Blockage(d), w.blockage) \in Nat
        /\ Contribution(Blockage(e), w.blockage) \in Nat
        /\ Contribution(Blockage(d), w.blockage)
             <= Contribution(Blockage(e), w.blockage)
    BY <1>1, SignalsAreNatural, ContributionGrows DEF AtLeast
  <2>6. /\ Contribution(Staleness(d), w.staleness) \in Nat
        /\ Contribution(Staleness(e), w.staleness) \in Nat
        /\ Contribution(Staleness(d), w.staleness)
             <= Contribution(Staleness(e), w.staleness)
    BY <1>1, SignalsAreNatural, ContributionGrows DEF AtLeast
  <2> QED  BY <2>1, <2>2, <2>3, <2>4, <2>5, <2>6 DEF Base
<1> DEFINE f == IF p.scaled THEN d.factor ELSE 100
<1>3. f \in Nat
  BY Scales DEF Data
<1>4. Scaled(d, p) = Quantize(Base(d, w) * f) /\ Scaled(e, p) = Quantize(Base(e, w) * f)
  BY DEF Scaled, w
<1> HIDE DEF f
<1>5. /\ Base(d, w) * f \in Nat /\ Base(e, w) * f \in Nat
      /\ Base(d, w) * f <= Base(e, w) * f
  BY <1>2, <1>3
<1>6. Scaled(d, p) \in Nat /\ Scaled(e, p) \in Nat /\ Scaled(d, p) <= Scaled(e, p)
  BY <1>4, <1>5, QuantizeGrows
<1>7. MinScore = 0 /\ MaxScore \in Nat
  BY DEF MinScore, MaxScore
<1>8. /\ Value(d, p) = IF Scaled(d, p) <= MaxScore THEN Scaled(d, p) ELSE MaxScore
      /\ Value(e, p) = IF Scaled(e, p) <= MaxScore THEN Scaled(e, p) ELSE MaxScore
  <2>1. /\ Scaled(d, p) \in Int /\ Scaled(e, p) \in Int
        /\ ~(Scaled(d, p) < MinScore) /\ ~(Scaled(e, p) < MinScore)
    BY <1>6, <1>7
  <2> QED  BY <2>1, ScoreIsClamped DEF Value
<1> QED  BY <1>6, <1>7, <1>8

\* Whatever the weights, a score fits its column.
LEMMA ValueIsAScore ==
  ASSUME NEW d \in Data, Aged(d), NEW p \in Policy, Usable(p)
  PROVE  Value(d, p) \in 0..MaxScore
<1> DEFINE w == p.weights
           f == IF p.scaled THEN d.factor ELSE 100
<1>1. /\ w.deadline_pressure \in Int /\ w.overdue_work \in Int
      /\ w.criticality \in Int /\ w.business_value \in Int
      /\ w.blockage \in Int /\ w.staleness \in Int
  BY PolicyParts
<1>2. Scaled(d, p) = Quantize(Base(d, w) * f)
  BY DEF Scaled
<1>3. f \in Int
  BY Scales DEF Data
<1> HIDE DEF w, f
<1>4. \A n \in Nat, x \in Int : Contribution(n, x) \in Int
  <2>1. \A n \in Nat, x \in Int : n * x \in Int
    OBVIOUS
  <2> QED  BY <2>1, QuantizeIsInteger DEF Contribution
<1>5. Base(d, w) \in Int
  <2>1. /\ Contribution(DeadlinePressure(d), w.deadline_pressure) \in Int
        /\ Contribution(OverdueWork(d), w.overdue_work) \in Int
        /\ Contribution(Criticality(d), w.criticality) \in Int
        /\ Contribution(BusinessValue(d), w.business_value) \in Int
        /\ Contribution(Blockage(d), w.blockage) \in Int
        /\ Contribution(Staleness(d), w.staleness) \in Int
    BY <1>1, <1>4, SignalsAreNatural
  <2> QED  BY <2>1 DEF Base
<1>6. Scaled(d, p) \in Int
  <2>1. Base(d, w) * f \in Int
    BY <1>3, <1>5
  <2> QED  BY <1>2, <2>1, QuantizeIsInteger
<1>7. Value(d, p) = IF Scaled(d, p) < MinScore THEN MinScore
                    ELSE IF Scaled(d, p) <= MaxScore THEN Scaled(d, p) ELSE MaxScore
  BY <1>6, ScoreIsClamped DEF Value
<1>8. MinScore = 0 /\ MaxScore \in Nat
  BY DEF MinScore, MaxScore
<1> QED  BY <1>6, <1>7, <1>8

LEMMA ExpiryIsAhead ==
  ASSUME NEW d \in Data
  PROVE  ValidUntil(d) \in Nat \cup {None}
<1> DEFINE future == {t \in Boundaries(d) : t > d.now}
<1>1. /\ d.now \in Nat /\ d.last \in Nat
      /\ d.target # None => d.target \in Nat
  BY Dates DEF Data
<1>2. /\ d.target # None => /\ d.target * PerDay \in Int
                            /\ (d.target - FinalWeek) * PerDay \in Int
      /\ d.last + Threshold * PerDay \in Int
  BY <1>1, Dates, Scales
<1>3. \A t \in Boundaries(d) : t \in Int
  BY <1>2 DEF Boundaries
<1>4. future \in SUBSET Nat
  BY <1>1, <1>3
<1>5. future # {} => Min(future) \in Nat
  BY <1>4, LeastOf
<1> QED  BY <1>5 DEF ValidUntil

-----------------------------------------------------------------------------
(***************************************************************************)
(* Types.                                                                  *)
(***************************************************************************)

LEMMA EditKeepsTypes ==
  ASSUME TypeOK, NEW recorded \in BOOLEAN, Edit(recorded)
  PROVE  /\ now' \in Instant /\ edits' \in 0..EditLimit /\ retuned' \in BOOLEAN
         /\ last' \in Instant /\ policy' \in [Version -> Policy]
         /\ active' \in Version \cup {None} /\ stored' = stored
<1>1. edits' \in 0..EditLimit
  BY ScalesAreNatural DEF TypeOK, Edit
<1> QED  BY <1>1 DEF TypeOK, Edit

LEMMA TypesAreKept ==
  ASSUME TypeOK, [Next]_vars
  PROVE  TypeOK'
<1>1. CASE NextInstant
  <2>1. now' \in Instant
    BY <1>1, ScalesAreNatural DEF TypeOK, NextInstant, Instant
  <2> QED  BY <1>1, <2>1 DEF TypeOK, NextInstant, rows
<1>2. CASE SetNextStep
  <2>1. Edit(TRUE) /\ step' \in BOOLEAN
    BY <1>2 DEF TypeOK, SetNextStep
  <2> QED  BY <1>2, <2>1, EditKeepsTypes DEF TypeOK, SetNextStep
<1>3. CASE AddNote
  <2>1. Edit(TRUE)
    BY <1>3 DEF AddNote
  <2> QED  BY <1>3, <2>1, EditKeepsTypes DEF TypeOK, AddNote
<1>4. ASSUME NEW d \in Day \cup {None}, SetTarget(d) PROVE TypeOK'
  BY <1>4, EditKeepsTypes DEF TypeOK, SetTarget
<1>5. ASSUME NEW a \in Amount \cup {None}, SetAmount(a) PROVE TypeOK'
  BY <1>5, EditKeepsTypes DEF TypeOK, SetAmount
<1>6. ASSUME NEW f \in Factor, SetFactor(f) PROVE TypeOK'
  BY <1>6, EditKeepsTypes DEF TypeOK, SetFactor
<1>7. ASSUME NEW k \in Task, OpenTask(k) PROVE TypeOK'
  <2>1. task' \in [Task -> {None} \cup [due : Due \cup {None}, urgent : BOOLEAN]]
    BY <1>7 DEF TypeOK, OpenTask
  <2>2. Edit(TRUE)
    BY <1>7 DEF OpenTask
  <2> QED  BY <1>7, <2>1, <2>2, EditKeepsTypes DEF TypeOK, OpenTask
<1>8. ASSUME NEW k \in Task, CloseTask(k) PROVE TypeOK'
  <2>1. task' \in [Task -> {None} \cup [due : Due \cup {None}, urgent : BOOLEAN]]
    BY <1>8 DEF TypeOK, CloseTask
  <2>2. PICK removed \in BOOLEAN : Edit(removed)
    BY <1>8 DEF CloseTask
  <2> QED  BY <1>8, <2>1, <2>2, EditKeepsTypes DEF TypeOK, CloseTask
<1>9. ASSUME NEW b \in Blocker, RaiseBlocker(b) \/ ResolveBlocker(b) PROVE TypeOK'
  <2>1. raised' \in [Blocker -> Instant \cup {None}]
    BY <1>9 DEF TypeOK, RaiseBlocker, ResolveBlocker
  <2>2. Edit(FALSE) /\ UNCHANGED <<target, step, amount, factor, task>>
    BY <1>9 DEF RaiseBlocker, ResolveBlocker
  <2> QED  BY <2>1, <2>2, EditKeepsTypes DEF TypeOK
<1>10. ASSUME NEW v \in Version, SavePolicy(v) PROVE TypeOK'
  <2>1. edits' \in 0..EditLimit
    BY <1>10, ScalesAreNatural DEF TypeOK, SavePolicy
  <2>2. policy' \in [Version -> Policy]
    BY <1>10 DEF TypeOK, SavePolicy
  <2>3. retuned' \in BOOLEAN
    BY <1>10 DEF TypeOK, SavePolicy
  <2> QED  BY <1>10, <2>1, <2>2, <2>3 DEF TypeOK, SavePolicy, rows
<1>11. ASSUME NEW v \in Version, ActivatePolicy(v) PROVE TypeOK'
  <2>1. edits' \in 0..EditLimit
    BY <1>11, ScalesAreNatural DEF TypeOK, ActivatePolicy
  <2> QED  BY <1>11, <2>1 DEF TypeOK, ActivatePolicy, rows
<1>12. ASSUME NEW t \in 0..now, Recompute(t) PROVE TypeOK'
  <2>1. t \in Instant
    BY ScalesAreNatural DEF TypeOK, Instant
  <2>2. Input(t) \in Data /\ Aged(Input(t))
    BY <2>1, InputIsData
  <2>3. active \in Version /\ policy[active] \in Policy /\ Usable(policy[active])
    BY <1>12 DEF TypeOK, Recompute, Scores
  <2>4. /\ Value(Input(t), policy[active]) \in 0..MaxScore
        /\ ValidUntil(Input(t)) \in Nat \cup {None}
    BY <2>2, <2>3, ValueIsAScore, ExpiryIsAhead
  <2>5. /\ stored'.value \in 0..MaxScore /\ stored'.version \in Version
        /\ stored'.valid \in Nat \cup {None}
    BY <1>12, <2>3, <2>4 DEF Recompute
  <2> QED  BY <1>12, <2>5 DEF TypeOK, Recompute, rows
<1>13. CASE UNCHANGED vars
  BY <1>13 DEF TypeOK, vars, rows
<1> QED  BY <1>1, <1>2, <1>3, <1>4, <1>5, <1>6, <1>7, <1>8, <1>9, <1>10, <1>11,
            <1>12, <1>13 DEF Next, NothingWritten

\* Every variable keeps its type, and a stored score (whatever the weights,
\* the factor and the ages) fits the column PriorityScore.value gives it.
THEOREM ScoringTypeCorrect == Spec => []TypeOK
<1>1. Init => TypeOK
  <2>1. 0 \in Instant /\ 0 \in 0..EditLimit
    BY Dates, ScalesAreNatural
  <2> QED  BY <2>1, PolicyAssumption DEF Init, TypeOK
<1>2. TypeOK /\ [Next]_vars => TypeOK'
  BY TypesAreKept
<1> QED  BY <1>1, <1>2, PTL DEF Spec

-----------------------------------------------------------------------------
(***************************************************************************)
(* Recomputations that are skipped.                                        *)
(***************************************************************************)

\* A midnight is ahead when its date is.
LEMMA MidnightAhead ==
  ASSUME NEW m \in Int, NEW n \in Nat
  PROVE  m * PerDay > n <=> m > n \div PerDay
<1> DEFINE q == n \div PerDay
<1>1. PerDay \in Nat \ {0} /\ q \in Nat /\ PerDay * q <= n /\ n < PerDay * q + PerDay
  BY Dates, Quotient
<1> HIDE DEF q
<1>2. ASSUME m > q PROVE m * PerDay > n
  <2>1. m * PerDay >= (q + 1) * PerDay
    BY <1>1, <1>2
  <2>2. (q + 1) * PerDay = PerDay * q + PerDay
    BY <1>1
  <2> QED  BY <1>1, <2>1, <2>2
<1>3. ASSUME m <= q PROVE m * PerDay <= n
  <2>1. m * PerDay <= PerDay * q
    BY <1>1, <1>3
  <2> QED  BY <1>1, <2>1
<1>4. m * PerDay \in Int
  BY <1>1
<1>5. m > q \/ m <= q
  BY <1>1
<1> QED  BY <1>1, <1>2, <1>3, <1>4, <1>5 DEF q

\* The patience ends when the silence, in whole days, reaches the threshold.
LEMMA PatienceAhead ==
  ASSUME NEW moment \in Nat, NEW n \in Nat
  PROVE  moment + Threshold * PerDay > n <=> Threshold > AgeInDays(moment, n)
<1>1. Threshold \in Nat \ {0} /\ PerDay \in Nat \ {0} /\ Threshold * PerDay \in Nat
  BY Scales, Dates
<1>2. CASE n < moment
  BY <1>1, <1>2 DEF AgeInDays
<1>3. CASE n >= moment
  <2>1. n - moment \in Nat
    BY <1>3
  <2>2. Threshold * PerDay > n - moment <=> Threshold > (n - moment) \div PerDay
    BY <1>1, <2>1, MidnightAhead
  <2>3. moment + Threshold * PerDay > n <=> Threshold * PerDay > n - moment
    BY <1>1
  <2>4. AgeInDays(moment, n) = (n - moment) \div PerDay
    BY <1>3 DEF AgeInDays
  <2> QED  BY <2>2, <2>3, <2>4
<1> QED  BY <1>2, <1>3

LEMMA FingerprintKeeps ==
  ASSUME NEW d \in Data, NEW e \in Data, Fingerprint(d) = Fingerprint(e)
  PROVE  /\ DateOf(d.now) = DateOf(e.now)
         /\ d.target = e.target /\ d.step = e.step /\ d.open = e.open
         /\ d.overdue = e.overdue /\ d.urgent = e.urgent /\ d.blockers = e.blockers
         /\ d.oldest = e.oldest /\ d.amount = e.amount /\ d.factor = e.factor
         /\ d.last = e.last /\ d.silence = e.silence
<1> DEFINE F(x) == [x EXCEPT !.now = DateOf(x.now)]
<1>1. ASSUME NEW x \in Data
      PROVE  /\ F(x).now = DateOf(x.now)
             /\ F(x).target = x.target /\ F(x).step = x.step /\ F(x).open = x.open
             /\ F(x).overdue = x.overdue /\ F(x).urgent = x.urgent
             /\ F(x).blockers = x.blockers /\ F(x).oldest = x.oldest
             /\ F(x).amount = x.amount /\ F(x).factor = x.factor
             /\ F(x).last = x.last /\ F(x).silence = x.silence
  BY DEF Data
<1>2. F(d) = F(e)
  BY DEF Fingerprint
<1> HIDE DEF F
<1> QED  BY <1>1, <1>2

\* The fingerprint tells the instant by its date only, and no boundary of a
\* signal or of the expiry falls between two instants it does not tell apart.
LEMMA FingerprintDecides ==
  ASSUME NEW d \in Data, NEW e \in Data, Aged(d), Aged(e),
         Fingerprint(d) = Fingerprint(e), NEW p
  PROVE  Value(d, p) = Value(e, p) /\ ValidUntil(d) = ValidUntil(e)
<1>1. /\ DateOf(d.now) = DateOf(e.now)
      /\ d.target = e.target /\ d.step = e.step /\ d.open = e.open
      /\ d.overdue = e.overdue /\ d.urgent = e.urgent /\ d.blockers = e.blockers
      /\ d.oldest = e.oldest /\ d.amount = e.amount /\ d.factor = e.factor
      /\ d.last = e.last /\ d.silence = e.silence
  BY FingerprintKeeps
<1>2. Value(d, p) = Value(e, p)
  <2>1. /\ DeadlinePressure(d) = DeadlinePressure(e) /\ OverdueWork(d) = OverdueWork(e)
        /\ Criticality(d) = Criticality(e) /\ BusinessValue(d) = BusinessValue(e)
        /\ Blockage(d) = Blockage(e) /\ Staleness(d) = Staleness(e)
    BY <1>1 DEF DeadlinePressure, OverdueWork, Criticality, BusinessValue, Blockage,
                Staleness
  <2>2. Base(d, p.weights) = Base(e, p.weights)
    BY <2>1 DEF Base
  <2> QED  BY <1>1, <2>2 DEF Value, Scaled
<1>3. /\ d.now \in Nat /\ e.now \in Nat /\ d.last \in Nat
      /\ d.target # None => d.target \in Int
      /\ DateOf(d.now) = d.now \div PerDay /\ DateOf(e.now) = e.now \div PerDay
  <2>1. d.now \in Nat /\ e.now \in Nat /\ d.last \in Nat
    BY Dates DEF Data
  <2>2. d.target # None => d.target \in Nat
    BY Dates DEF Data
  <2>3. d.target # None => d.target \in Int
    BY <2>2
  <2> QED  BY <2>1, <2>3 DEF DateOf
<1>4. ASSUME NEW m \in Int
      PROVE  m * PerDay > d.now <=> m * PerDay > e.now
  <2>1. /\ m * PerDay > d.now <=> m > d.now \div PerDay
        /\ m * PerDay > e.now <=> m > e.now \div PerDay
    BY <1>3, MidnightAhead
  <2>2. d.now \div PerDay = e.now \div PerDay
    BY <1>1, <1>3
  <2> QED  BY <2>1, <2>2
<1>5. d.last + Threshold * PerDay > d.now <=> d.last + Threshold * PerDay > e.now
  <2>1. /\ d.last + Threshold * PerDay > d.now <=> Threshold > AgeInDays(d.last, d.now)
        /\ d.last + Threshold * PerDay > e.now <=> Threshold > AgeInDays(d.last, e.now)
    BY <1>3, PatienceAhead
  <2>2. AgeInDays(d.last, d.now) = AgeInDays(d.last, e.now)
    BY <1>1 DEF Aged
  <2> QED  BY <2>1, <2>2
<1>6. Boundaries(d) = Boundaries(e)
  BY <1>1 DEF Boundaries
<1>7. ASSUME NEW t \in Boundaries(d) PROVE t > d.now <=> t > e.now
  <2>1. CASE d.target # None /\ t = d.target * PerDay
    BY <1>3, <1>4, <2>1
  <2>2. CASE d.target # None /\ t = (d.target - FinalWeek) * PerDay
    <3>1. d.target - FinalWeek \in Int
      BY <1>3, <2>2, Scales
    <3> QED  BY <1>4, <2>2, <3>1
  <2>3. CASE t = d.last + Threshold * PerDay
    BY <1>5, <2>3
  <2> QED  BY <1>7, <2>1, <2>2, <2>3 DEF Boundaries
<1>8. {t \in Boundaries(d) : t > d.now} = {t \in Boundaries(e) : t > e.now}
  BY <1>6, <1>7
<1> QED  BY <1>2, <1>8 DEF ValidUntil

\* What is stored is what some data said under some policy, the version's own
\* while nobody has saved it again.
StoredIsExplained ==
  stored # None =>
    \E d \in Data, p \in Policy :
      /\ Aged(d) /\ stored.input = Fingerprint(d)
      /\ stored.value = Value(d, p) /\ stored.valid = ValidUntil(d)
      /\ ~retuned => p = policy[stored.version]

LEMMA StoredStaysExplained ==
  ASSUME TypeOK, StoredIsExplained, [Next]_vars
  PROVE  StoredIsExplained'
<1>1. ASSUME UNCHANGED <<policy, stored, retuned>> PROVE StoredIsExplained'
  BY <1>1 DEF StoredIsExplained
<1>2. CASE NextInstant
  BY <1>1, <1>2 DEF NextInstant
<1>3. CASE SetNextStep \/ AddNote
  BY <1>1, <1>3 DEF SetNextStep, AddNote, Edit
<1>4. ASSUME NEW d, SetTarget(d) \/ SetAmount(d) \/ SetFactor(d) PROVE StoredIsExplained'
  BY <1>1, <1>4 DEF SetTarget, SetAmount, SetFactor, Edit
<1>5. ASSUME NEW k \in Task, OpenTask(k) \/ CloseTask(k) PROVE StoredIsExplained'
  BY <1>1, <1>5 DEF OpenTask, CloseTask, Edit
<1>6. ASSUME NEW b \in Blocker, RaiseBlocker(b) \/ ResolveBlocker(b)
      PROVE  StoredIsExplained'
  BY <1>1, <1>6 DEF RaiseBlocker, ResolveBlocker, Edit
<1>7. ASSUME NEW v \in Version, SavePolicy(v) PROVE StoredIsExplained'
  <2> SUFFICES ASSUME stored # None
               PROVE  StoredIsExplained'
    BY <1>7 DEF SavePolicy, StoredIsExplained
  <2>1. PICK d \in Data, p \in Policy :
          /\ Aged(d) /\ stored.input = Fingerprint(d)
          /\ stored.value = Value(d, p) /\ stored.valid = ValidUntil(d)
          /\ ~retuned => p = policy[stored.version]
    BY DEF StoredIsExplained
  <2>2. stored' = stored
    BY <1>7 DEF SavePolicy
  <2>3. ~retuned' => ~retuned /\ stored.version # v
    BY <1>7 DEF SavePolicy
  <2>4. ~retuned' => policy'[stored.version] = policy[stored.version]
    BY <1>7, <2>3 DEF SavePolicy, TypeOK
  <2>5. ~retuned' => p = policy'[stored'.version]
    BY <2>1, <2>2, <2>3, <2>4
  <2> QED  BY <2>1, <2>2, <2>5 DEF StoredIsExplained
<1>8. ASSUME NEW v \in Version, ActivatePolicy(v) PROVE StoredIsExplained'
  BY <1>1, <1>8 DEF ActivatePolicy
<1>9. ASSUME NEW t \in 0..now, Recompute(t) PROVE StoredIsExplained'
  <2>1. t \in Instant
    BY ScalesAreNatural DEF TypeOK, Instant
  <2> DEFINE d == Input(t)
             p == policy[active]
  <2>2. d \in Data /\ Aged(d)
    BY <2>1, InputIsData
  <2>3. p \in Policy /\ policy' = policy
    BY <1>9 DEF TypeOK, Recompute, Scores
  <2>4. /\ stored'.value = Value(d, p) /\ stored'.version = active
        /\ stored'.input = Fingerprint(d) /\ stored'.valid = ValidUntil(d)
    BY <1>9 DEF Recompute
  <2> HIDE DEF d
  <2>5. p = policy'[stored'.version]
    BY <2>3, <2>4
  <2> HIDE DEF p
  <2> QED  BY <2>2, <2>3, <2>4, <2>5 DEF StoredIsExplained
<1>10. CASE UNCHANGED vars
  BY <1>1, <1>10 DEF vars
<1> QED  BY <1>2, <1>3, <1>4, <1>5, <1>6, <1>7, <1>8, <1>9, <1>10 DEF Next, NothingWritten

LEMMA ExplainedSkips == TypeOK /\ StoredIsExplained => SkippingIsANoOp
<1> SUFFICES ASSUME TypeOK, StoredIsExplained, Scores, stored # None, ~retuned,
                    stored.version = active,
                    NEW t \in Instant, stored.input = Fingerprint(Input(t))
             PROVE  /\ stored.value = Value(Input(t), policy[active])
                    /\ stored.valid = ValidUntil(Input(t))
  BY DEF SkippingIsANoOp
<1>1. PICK d \in Data, p \in Policy :
        /\ Aged(d) /\ stored.input = Fingerprint(d)
        /\ stored.value = Value(d, p) /\ stored.valid = ValidUntil(d)
        /\ ~retuned => p = policy[stored.version]
  BY DEF StoredIsExplained
<1>2. Input(t) \in Data /\ Aged(Input(t))
  BY InputIsData
<1>3. p = policy[active]
  BY <1>1
<1>4. Fingerprint(d) = Fingerprint(Input(t))
  BY <1>1
<1> HIDE DEF Input
<1>5. Value(d, p) = Value(Input(t), p) /\ ValidUntil(d) = ValidUntil(Input(t))
  BY <1>1, <1>2, <1>4, FingerprintDecides
<1> QED  BY <1>1, <1>3, <1>5

\* "Equal hash plus equal policy_version means recomputation is a no-op", for
\* every length of the day, threshold and policy: the fingerprint holds the date
\* of the instant and the ages in whole days, and decides the value and the
\* expiry, to whatever instant of the date the recomputation is put off.
THEOREM SkipsAreNoOps == Spec => []SkippingIsANoOp
<1>1. Init => StoredIsExplained
  BY DEF Init, StoredIsExplained
<1>2. TypeOK /\ StoredIsExplained /\ [Next]_vars => StoredIsExplained'
  BY StoredStaysExplained
<1> QED  BY <1>1, <1>2, ExplainedSkips, ScoringTypeCorrect, PTL DEF Spec

-----------------------------------------------------------------------------
(***************************************************************************)
(* What raises a signal.                                                   *)
(***************************************************************************)

LEMMA DeadlineGrows ==
  ASSUME NEW d \in Data, NEW e \in Data,
         d.target = None <=> e.target = None,
         d.target # None =>
           e.target - DateOf(e.now) <= d.target - DateOf(d.now)
  PROVE  DeadlinePressure(d) <= DeadlinePressure(e)
<1>1. CASE d.target = None
  BY <1>1, Scales DEF DeadlinePressure
<1>2. CASE d.target # None
  <2> DEFINE i == d.target - DateOf(d.now)
             j == e.target - DateOf(e.now)
             P(left) == IF left <= 0 THEN One
                        ELSE IF left >= Horizon THEN 0 ELSE Nearest(Horizon - left, Horizon)
  <2>1. DeadlinePressure(d) = P(i) /\ DeadlinePressure(e) = P(j)
    BY <1>2 DEF DeadlinePressure
  <2>2. i \in Int /\ j \in Int /\ j <= i
    <3>1. d.now \in Instant /\ e.now \in Instant /\ d.target \in Day /\ e.target \in Day
      BY <1>2 DEF Data
    <3>2. /\ d.target \in Nat /\ e.target \in Nat
          /\ DateOf(d.now) \in Nat /\ DateOf(e.now) \in Nat
      BY <3>1, Dates
    <3> QED  BY <1>2, <3>2
  <2> HIDE DEF i, j
  <2>3. Horizon \in Nat \ {0} /\ One \in Nat
    BY Scales
  <2>4. ASSUME NEW left \in Int, left > 0, left < Horizon
        PROVE  /\ Nearest(Horizon - left, Horizon) \in Nat
               /\ Nearest(Horizon - left, Horizon) <= One
    <3>1. Horizon - left \in Nat /\ Horizon - left <= Horizon - left
          /\ Horizon - left <= Horizon
      BY <2>3, <2>4
    <3> QED  BY <2>3, <3>1, NearestIsNatural, NearestOfSome
  <2>5. CASE j <= 0
    <3>1. P(j) = One
      BY <2>5
    <3>2. P(i) <= One
      BY <2>2, <2>3, <2>4
    <3> QED  BY <2>1, <3>1, <3>2
  <2>6. CASE j > 0 /\ i >= Horizon
    <3>1. P(i) = 0
      BY <2>2, <2>3, <2>6
    <3>2. P(j) \in Nat
      BY <2>2, <2>3, <2>4, <2>6
    <3> QED  BY <2>1, <3>1, <3>2
  <2>7. CASE j > 0 /\ i < Horizon
    <3>1. /\ Horizon - i \in Nat /\ Horizon - j \in Nat /\ Horizon - i <= Horizon - j
      BY <2>2, <2>3, <2>7
    <3>2. Nearest(Horizon - i, Horizon) <= Nearest(Horizon - j, Horizon)
      BY <2>3, <3>1, NearestOfSome
    <3>3. ~(i <= 0) /\ ~(j <= 0) /\ ~(i >= Horizon) /\ ~(j >= Horizon)
      BY <2>2, <2>3, <2>7
    <3> QED  BY <2>1, <3>2, <3>3
  <2> QED  BY <2>2, <2>3, <2>5, <2>6, <2>7
<1> QED  BY <1>1, <1>2

LEMMA OverdueGrows ==
  ASSUME NEW d \in Data, NEW e \in Data,
         d.open # 0 => e.open # 0 /\ d.overdue * e.open <= e.overdue * d.open
  PROVE  OverdueWork(d) <= OverdueWork(e)
<1>1. d.open \in Nat /\ e.open \in Nat /\ d.overdue \in Nat /\ e.overdue \in Nat
  BY DEF Data
<1>2. CASE d.open = 0
  <2>1. e.open # 0 => Nearest(e.overdue, e.open) \in Nat
    BY <1>1, NearestIsNatural
  <2> QED  BY <1>2, <2>1 DEF OverdueWork
<1>3. CASE d.open # 0
  <2>1. Nearest(d.overdue, d.open) <= Nearest(e.overdue, e.open)
    BY <1>1, <1>3, NearestGrows
  <2> QED  BY <1>3, <2>1 DEF OverdueWork
<1> QED  BY <1>2, <1>3

LEMMA CriticalityGrows ==
  ASSUME NEW d \in Data, NEW e \in Data, d.urgent <= e.urgent
  PROVE  Criticality(d) <= Criticality(e)
<1>1. d.urgent \in Nat /\ e.urgent \in Nat /\ UrgentSaturation \in Nat \ {0}
  BY Scales DEF Data
<1>2. /\ Nearest(d.urgent, UrgentSaturation) \in Nat
      /\ Nearest(e.urgent, UrgentSaturation) \in Nat
  BY <1>1, NearestIsNatural
<1>3. Nearest(d.urgent, UrgentSaturation) <= Nearest(e.urgent, UrgentSaturation)
  BY <1>1, NearestOfSome
<1> QED  BY <1>2, <1>3, ClampedGrows DEF Criticality

LEMMA BlockageGrows ==
  ASSUME NEW d \in Data, NEW e \in Data, Aged(d), Aged(e),
         d.blockers # 0 => e.blockers # 0 /\ d.oldest <= e.oldest
  PROVE  Blockage(d) <= Blockage(e)
<1>1. CASE d.blockers = 0
  <2>1. Blockage(e) \in Nat
    BY SignalsAreNatural
  <2> QED  BY <1>1, <2>1 DEF Blockage
<1>2. CASE d.blockers # 0
  <2> DEFINE m == Nearest(d.oldest, 2 * AgeSaturation)
             n == Nearest(e.oldest, 2 * AgeSaturation)
  <2>1. /\ d.oldest \in Nat /\ e.oldest \in Nat /\ d.oldest <= e.oldest
        /\ 2 * AgeSaturation \in Nat \ {0} /\ One \div 2 \in Nat
    BY <1>2, Dates, Scales DEF Aged
  <2>2. m \in Nat /\ n \in Nat
    BY <2>1, NearestIsNatural
  <2>3. m <= n
    BY <2>1, NearestOfSome
  <2>4. Blockage(d) = Clamped(One \div 2 + m) /\ Blockage(e) = Clamped(One \div 2 + n)
    BY <1>2 DEF Blockage
  <2> HIDE DEF m, n
  <2>5. One \div 2 + m \in Nat /\ One \div 2 + n \in Nat /\ One \div 2 + m <= One \div 2 + n
    BY <2>1, <2>2, <2>3
  <2> QED  BY <2>4, <2>5, ClampedGrows
<1> QED  BY <1>1, <1>2

LEMMA StalenessGrows ==
  ASSUME NEW d \in Data, NEW e \in Data, d.silence <= e.silence, e.step => d.step
  PROVE  Staleness(d) <= Staleness(e)
<1> DEFINE m == Nearest(d.silence, Threshold)
           n == Nearest(e.silence, Threshold)
           i == m + IF d.step THEN 0 ELSE One \div 4
           j == n + IF e.step THEN 0 ELSE One \div 4
<1>1. /\ d.silence \in Nat /\ e.silence \in Nat /\ d.silence # None /\ e.silence # None
      /\ Threshold \in Nat \ {0} /\ One \div 4 \in Nat
  BY Dates, Scales DEF Data
<1>2. m \in Nat /\ n \in Nat
  BY <1>1, NearestIsNatural
<1>3. m <= n
  BY <1>1, NearestOfSome
<1>4. Staleness(d) = Clamped(i) /\ Staleness(e) = Clamped(j)
  BY <1>1 DEF Staleness
<1> HIDE DEF m, n
<1>5. i \in Nat /\ j \in Nat /\ i <= j
  BY <1>1, <1>2, <1>3
<1> HIDE DEF i, j
<1> QED  BY <1>4, <1>5, ClampedGrows

LEMMA BusinessValueIsNatural ==
  ASSUME NEW d \in Data, NEW e \in Data, Aged(d), d.amount = e.amount
  PROVE  BusinessValue(d) <= BusinessValue(e)
<1>1. BusinessValue(d) \in Nat
  BY SignalsAreNatural
<1> QED  BY <1>1 DEF BusinessValue

-----------------------------------------------------------------------------
(***************************************************************************)
(* Time.                                                                   *)
(***************************************************************************)

LEMMA LaterSaysMore ==
  ASSUME TypeOK, NEW s \in Instant, NEW t \in Instant, s <= t
  PROVE  AtLeast(Input(t), Input(s))
<1> DEFINE d == Input(s)
           e == Input(t)
<1>1. d \in Data /\ Aged(d) /\ e \in Data /\ Aged(e)
  BY InputIsData
<1>2. /\ DateOf(s) \in Nat /\ DateOf(t) \in Nat /\ DateOf(s) <= DateOf(t)
  BY Dates, Quotient, QuotientsGrow DEF DateOf
<1>3. DeadlinePressure(d) <= DeadlinePressure(e)
  <2>1. /\ d.target = target /\ e.target = target /\ d.now = s /\ e.now = t
    BY DEF Input
  <2>2. target # None => target \in Nat
    BY Dates DEF TypeOK
  <2>3. target # None => target - DateOf(t) <= target - DateOf(s)
    BY <1>2, <2>2
  <2> HIDE DEF d, e
  <2> QED  BY <1>1, <2>1, <2>3, DeadlineGrows
<1>4. OverdueWork(d) <= OverdueWork(e)
  <2> DEFINE S == {k \in OpenTasks : Overdue(k, DateOf(s))}
             T == {k \in OpenTasks : Overdue(k, DateOf(t))}
  <2>1. ASSUME NEW k \in S PROVE k \in T
    <3>1. k \in Task /\ task[k] # None /\ task[k].due # None /\ task[k].due < DateOf(s)
      BY DEF OpenTasks, Overdue
    <3>2. task[k].due \in Due
      BY <3>1 DEF TypeOK
    <3>3. task[k].due \in Nat
      BY <3>2, Dates, ScalesAreNatural
    <3>4. task[k].due < DateOf(t)
      BY <1>2, <3>1, <3>3
    <3> QED  BY <3>1, <3>4 DEF OpenTasks, Overdue
  <2>2. T \in SUBSET Task /\ S \in SUBSET T
    BY <2>1 DEF OpenTasks
  <2>3. Cardinality(S) \in Nat /\ Cardinality(T) \in Nat /\ Cardinality(S) <= Cardinality(T)
    BY <2>2, TasksAreCounted
  <2>4. d.overdue = Cardinality(S) /\ e.overdue = Cardinality(T) /\ d.open = e.open
    BY DEF Input
  <2> HIDE DEF d, e, S, T
  <2>5. d.open \in Nat
    BY <1>1 DEF Data
  <2>6. d.overdue * e.open <= e.overdue * d.open
    BY <2>3, <2>4, <2>5
  <2> QED  BY <1>1, <2>4, <2>6, OverdueGrows
<1>5. Criticality(d) <= Criticality(e)
  <2>1. d.urgent = e.urgent
    BY DEF Input
  <2> HIDE DEF d, e
  <2>2. d.urgent \in Nat
    BY <1>1 DEF Data
  <2>3. d.urgent <= e.urgent
    BY <2>1, <2>2
  <2> QED  BY <1>1, <2>3, CriticalityGrows
<1>6. Blockage(d) <= Blockage(e)
  <2>1. ASSUME OpenBlockers # {} PROVE AgeInDays(Oldest, s) <= AgeInDays(Oldest, t)
    <3>1. Oldest \in Instant /\ Oldest \in Nat
      BY <2>1, OldestIsOpen, Dates
    <3>2. Oldest <= Oldest
      BY <3>1
    <3> QED  BY <3>1, <3>2, Ages
  <2>2. d.blockers # 0 => OpenBlockers # {}
    BY BlockersAreCounted DEF Input
  <2>3. OpenBlockers # {} => d.oldest = AgeInDays(Oldest, s) /\ e.oldest = AgeInDays(Oldest, t)
    BY DEF Input
  <2>4. d.blockers = e.blockers
    BY DEF Input
  <2> HIDE DEF d, e
  <2> QED  BY <1>1, <2>1, <2>2, <2>3, <2>4, BlockageGrows
<1>7. Staleness(d) <= Staleness(e)
  <2>1. last \in Instant /\ last \in Nat /\ last # None
    BY Dates DEF TypeOK
  <2>2. last <= last
    BY <2>1
  <2>3. AgeInDays(last, s) <= AgeInDays(last, t)
    BY <2>1, <2>2, Ages
  <2>4. /\ d.silence = AgeInDays(last, s) /\ e.silence = AgeInDays(last, t)
        /\ d.step = e.step
    BY <2>1 DEF Input
  <2> HIDE DEF d, e
  <2> QED  BY <1>1, <2>3, <2>4, StalenessGrows
<1>8. BusinessValue(d) <= BusinessValue(e)
  <2>1. d.amount = e.amount
    BY DEF Input
  <2> HIDE DEF d, e
  <2> QED  BY <1>1, <2>1, BusinessValueIsNatural
<1> HIDE DEF d, e
<1>9. AtLeast(e, d)
  BY <1>3, <1>4, <1>5, <1>6, <1>7, <1>8 DEF AtLeast
<1> QED  BY <1>9 DEF d, e

LEMMA TimeOnlyRaises == TypeOK => TimeNeverLowersAScore
<1> DEFINE p == policy[active]
           value == [t \in Instant |-> Value(Input(t), p)]
<1> SUFFICES ASSUME TypeOK, Scores, Unsigned(p), NEW t \in Instant \ {0}
             PROVE  value[t - 1] <= value[t]
  BY DEF TimeNeverLowersAScore
<1>1. t \in Instant /\ t - 1 \in Instant /\ t - 1 <= t
  BY ScalesAreNatural DEF Instant
<1>2. p \in Policy /\ Usable(p)
  BY DEF TypeOK, Scores
<1>3. value[t - 1] = Value(Input(t - 1), p) /\ value[t] = Value(Input(t), p)
  BY <1>1
<1>4. /\ Input(t) \in Data /\ Aged(Input(t)) /\ Input(t - 1) \in Data /\ Aged(Input(t - 1))
  BY <1>1, InputIsData
<1>5. AtLeast(Input(t), Input(t - 1))
  BY <1>1, LaterSaysMore
<1>6. Input(t).factor = Input(t - 1).factor
  BY DEF Input
<1> HIDE DEF p, value
<1>7. Value(Input(t - 1), p) <= Value(Input(t), p)
  BY <1>2, <1>4, <1>5, <1>6, ValueFollowsTheSignals
<1> QED  BY <1>3, <1>7

\* Left alone a project only climbs, whatever the scales, the rows and the policy,
\* if it gives no signal a negative weight (load_policy would take one): every age is rounded down to days, every signal to four places, every
\* contribution to cents, and none of those roundings turns the order round.
THEOREM TimeOnlyRaisesScores == Spec => []TimeNeverLowersAScore
BY ScoringTypeCorrect, TimeOnlyRaises, PTL

-----------------------------------------------------------------------------
(***************************************************************************)
(* Relief.                                                                 *)
(***************************************************************************)

LEMMA NowIsData == TypeOK => now \in Instant /\ Input(now) \in Data /\ Aged(Input(now))
BY InputIsData DEF TypeOK

\* What an edit has to leave no larger, for the score not to rise.
LEMMA ScoreFalls ==
  ASSUME TypeOK, TypeOK', Scores, Unsigned(policy[active]), NEW recorded \in BOOLEAN, Edit(recorded),
         amount' = amount, factor' = factor, step => step',
         \/ target' = target
         \/ target # None /\ target' # None /\ target' > target,
         Input(now)'.open # 0 =>
           /\ Input(now).open # 0
           /\ Input(now)'.overdue * Input(now).open <= Input(now).overdue * Input(now)'.open,
         Input(now)'.urgent <= Input(now).urgent,
         Input(now)'.blockers # 0 =>
           Input(now).blockers # 0 /\ Input(now)'.oldest <= Input(now).oldest
  PROVE  Current' <= Current
<1> DEFINE d == Input(now)'
           e == Input(now)
           p == policy[active]
<1>1. now' = now /\ policy' = policy /\ active' = active /\ last' \in {last, now}
  BY DEF Edit
<1>2. e \in Data /\ Aged(e) /\ now \in Instant
  BY NowIsData
<1>3. d \in Data /\ Aged(d)
  <2>1. (TypeOK => now \in Instant /\ Input(now) \in Data /\ Aged(Input(now)))'
    BY NowIsData, PTL
  <2> QED  BY <2>1
<1>4. /\ d.now = now /\ d.target = target' /\ d.step = step' /\ d.amount = amount
      /\ d.factor = factor /\ d.last = last'
      /\ e.now = now /\ e.target = target /\ e.step = step /\ e.amount = amount
      /\ e.factor = factor /\ e.last = last
  BY <1>1 DEF Input
<1>5. Current' = Value(d, p) /\ Current = Value(e, p)
  BY <1>1 DEF Current
<1>6. p \in Policy /\ Usable(p) /\ Unsigned(p)
  BY DEF TypeOK, Scores
<1> HIDE DEF d, e, p
<1>7. DeadlinePressure(d) <= DeadlinePressure(e)
  <2>1. /\ target # None => target \in Nat
        /\ target' # None => target' \in Nat
    BY Dates DEF TypeOK
  <2>2. DateOf(now) \in Nat
    BY <1>2, Dates
  <2>3. d.target = None <=> e.target = None
    BY <1>4
  <2>4. d.target # None => e.target - DateOf(now) <= d.target - DateOf(now)
    BY <1>4, <2>1, <2>2
  <2> QED  BY <1>2, <1>3, <1>4, <2>3, <2>4, DeadlineGrows
<1>8. OverdueWork(d) <= OverdueWork(e)
  BY <1>2, <1>3, OverdueGrows DEF d, e
<1>9. Criticality(d) <= Criticality(e)
  BY <1>2, <1>3, CriticalityGrows DEF d, e
<1>10. BusinessValue(d) <= BusinessValue(e)
  BY <1>2, <1>3, <1>4, BusinessValueIsNatural
<1>11. Blockage(d) <= Blockage(e)
  BY <1>2, <1>3, BlockageGrows DEF d, e
<1>12. Staleness(d) <= Staleness(e)
  <2>1. last \in Instant /\ last \in Nat /\ now \in Nat /\ AgeInDays(last, now) \in Nat
    <3>1. last \in Instant /\ last \in Nat /\ now \in Nat
      BY <1>2, Dates DEF TypeOK
    <3>2. last <= last /\ now <= now
      BY <3>1
    <3> QED  BY <1>2, <3>1, <3>2, Ages, Dates
  <2>2. now <= now
    BY <2>1
  <2>3. AgeInDays(now, now) = 0
    BY <1>2, <2>1, <2>2, Ages
  <2>4. d.silence = AgeInDays(last', now) /\ e.silence = AgeInDays(last, now)
    BY <1>2, <1>3, <1>4 DEF Aged
  <2>5. d.silence <= e.silence
    BY <1>1, <2>1, <2>3, <2>4
  <2> QED  BY <1>2, <1>3, <1>4, <2>5, StalenessGrows
<1>13. AtLeast(e, d)
  BY <1>7, <1>8, <1>9, <1>10, <1>11, <1>12 DEF AtLeast
<1> QED  BY <1>2, <1>3, <1>4, <1>5, <1>6, <1>13, ValueFollowsTheSignals

LEMMA SameTasks ==
  ASSUME TypeOK, UNCHANGED <<now, task>>
  PROVE  /\ Input(now)'.open # 0 =>
              /\ Input(now).open # 0
              /\ Input(now)'.overdue * Input(now).open
                   <= Input(now).overdue * Input(now)'.open
         /\ Input(now)'.urgent <= Input(now).urgent
<1>1. Input(now) \in Data
  BY NowIsData
<1>2. OpenTasks' = OpenTasks /\ \A k \in Task : Overdue(k, DateOf(now))' = Overdue(k, DateOf(now))
  BY DEF OpenTasks, Overdue
<1>3. /\ Input(now)'.open = Input(now).open
      /\ Input(now)'.overdue = Input(now).overdue
      /\ Input(now)'.urgent = Input(now).urgent
  BY <1>2 DEF Input, OpenTasks, Overdue
<1>4. Input(now).open \in Nat /\ Input(now).overdue \in Nat /\ Input(now).urgent \in Nat
  BY <1>1 DEF Data
<1> QED  BY <1>3, <1>4

LEMMA SameBlockers ==
  ASSUME TypeOK, UNCHANGED <<now, raised>>
  PROVE  Input(now)'.blockers # 0 =>
           Input(now).blockers # 0 /\ Input(now)'.oldest <= Input(now).oldest
<1>1. Input(now) \in Data /\ Aged(Input(now))
  BY NowIsData
<1>2. /\ Input(now)'.blockers = Input(now).blockers
      /\ Input(now)'.oldest = Input(now).oldest
  BY DEF Input, OpenBlockers, Oldest
<1>3. Input(now).blockers # 0 => Input(now).oldest \in Nat
  BY <1>1, Dates DEF Aged
<1> QED  BY <1>2, <1>3

LEMMA OldestWasRaised ==
  TypeOK /\ OpenBlockers # {} =>
    /\ \E c \in OpenBlockers : Oldest = raised[c]
    /\ Oldest \in Instant
BY OldestIsOpen

\* The oldest of fewer is no older.
LEMMA OneBlockerLess ==
  ASSUME TypeOK, TypeOK', NEW b \in Blocker, ResolveBlocker(b)
  PROVE  Input(now)'.blockers # 0 =>
           Input(now).blockers # 0 /\ Input(now)'.oldest <= Input(now).oldest
<1>1. now' = now /\ now \in Instant /\ now \in Nat
  BY Dates DEF ResolveBlocker, Edit, TypeOK
<1>2. OpenBlockers' \subseteq OpenBlockers /\ \A c \in OpenBlockers' : raised'[c] = raised[c]
  BY DEF ResolveBlocker, OpenBlockers, TypeOK
<1>3. (Cardinality(OpenBlockers) = 0 <=> OpenBlockers = {})'
  BY BlockersAreCounted, PTL
<1>4. Cardinality(OpenBlockers) = 0 <=> OpenBlockers = {}
  BY BlockersAreCounted
<1>5. ASSUME OpenBlockers' # {} PROVE AgeInDays(Oldest', now) <= AgeInDays(Oldest, now)
  <2>1. (TypeOK /\ OpenBlockers # {} =>
           /\ \E c \in OpenBlockers : Oldest = raised[c]
           /\ Oldest \in Instant)'
    BY OldestWasRaised, PTL
  <2>2. PICK c \in OpenBlockers' : Oldest' = raised'[c]
    BY <1>5, <2>1
  <2>3. Oldest \in Instant /\ Oldest <= raised[c]
    BY <1>2, <2>2, OldestIsOpen
  <2>4. Oldest' \in Instant /\ Oldest <= Oldest'
    BY <1>2, <1>5, <2>1, <2>2, <2>3
  <2>5. now <= now
    BY <1>1
  <2> DEFINE early == Oldest
             late == Oldest'
  <2>6. early \in Instant /\ late \in Instant /\ early <= late
    BY <2>3, <2>4
  <2> HIDE DEF early, late
  <2>7. AgeInDays(late, now) <= AgeInDays(early, now)
    BY <1>1, <2>5, <2>6, Ages
  <2> QED  BY <2>7 DEF early, late
<1>6. /\ Input(now)'.blockers = Cardinality(OpenBlockers')
      /\ Input(now).blockers = Cardinality(OpenBlockers)
      /\ OpenBlockers' # {} => Input(now)'.oldest = AgeInDays(Oldest', now)
      /\ OpenBlockers # {} => Input(now).oldest = AgeInDays(Oldest, now)
  BY <1>1 DEF Input
<1> QED  BY <1>2, <1>3, <1>4, <1>5, <1>6

\* One less of what is overdue, of one less: no larger a part.
LEMMA OneOverdueLess ==
  ASSUME TypeOK, TypeOK', NEW k \in Task, Overdue(k, DateOf(now)), CloseTask(k)
  PROVE  /\ Input(now)'.open # 0 =>
              /\ Input(now).open # 0
              /\ Input(now)'.overdue * Input(now).open
                   <= Input(now).overdue * Input(now)'.open
         /\ Input(now)'.urgent <= Input(now).urgent
<1> DEFINE S == OpenTasks
           O == {j \in OpenTasks : Overdue(j, DateOf(now))}
           U == {j \in OpenTasks : task[j].urgent}
<1>1. now' = now /\ task' = [task EXCEPT ![k] = None] /\ task[k] # None
  BY DEF CloseTask, Edit
<1>2. k \in S /\ S' = S \ {k}
  BY <1>1 DEF TypeOK, OpenTasks
<1>3. k \in O /\ O' = O \ {k}
  BY <1>1 DEF TypeOK, OpenTasks, Overdue
<1>4. U' \in SUBSET U
  BY <1>1 DEF TypeOK, OpenTasks
<1>5. O \in SUBSET S /\ S \in SUBSET Task /\ U \in SUBSET S
  BY DEF OpenTasks
<1>6. IsFiniteSet(S) /\ IsFiniteSet(O)
  BY <1>5, ProjectIsFinite, FS_Subset
<1> DEFINE n == Cardinality(S)
           o == Cardinality(O)
<1>7. n \in Nat /\ o \in Nat /\ o <= n
  BY <1>5, TasksAreCounted
<1>8. Cardinality(S') = n - 1 /\ Cardinality(O') = o - 1
  BY <1>2, <1>3, <1>6, FS_RemoveElement
<1>9. n - 1 \in Nat /\ o - 1 \in Nat
  <2>1. S' \in SUBSET Task /\ O' \in SUBSET Task
    BY <1>2, <1>3, <1>5
  <2> QED  BY <1>8, <2>1, TasksAreCounted
<1>10. Cardinality(U') <= Cardinality(U)
  <2>1. U \in SUBSET Task
    BY <1>5
  <2> QED  BY <1>4, <2>1, TasksAreCounted
<1>11. /\ Input(now).open = n /\ Input(now).overdue = o
       /\ Input(now).urgent = Cardinality(U)
       /\ Input(now)'.open = Cardinality(S') /\ Input(now)'.overdue = Cardinality(O')
       /\ Input(now)'.urgent = Cardinality(U')
  BY <1>1 DEF Input
<1> HIDE DEF n, o, S, O, U
<1>12. (o - 1) * n <= o * (n - 1)
  <2>1. (o - 1) * n = o * n - n /\ o * (n - 1) = o * n - o
    BY <1>7
  <2>2. o * n \in Nat
    BY <1>7
  <2> QED  BY <1>7, <2>1, <2>2
<1>13. n # 0
  BY <1>7, <1>9
<1> QED  BY <1>8, <1>10, <1>11, <1>12, <1>13

LEMMA ReliefLowersScores ==
  ASSUME TypeOK, TypeOK', Scores, Unsigned(policy[active]), Relief
  PROVE  Current' <= Current
<1>1. ASSUME NEW b \in Blocker, ResolveBlocker(b) PROVE Current' <= Current
  <2>1. Edit(FALSE) /\ UNCHANGED <<now, target, step, amount, factor, task>>
    BY <1>1 DEF ResolveBlocker, Edit
  <2> QED  BY <1>1, <2>1, SameTasks, OneBlockerLess, ScoreFalls
<1>2. ASSUME NEW k \in Task, Overdue(k, DateOf(now)), CloseTask(k)
      PROVE  Current' <= Current
  <2>1. PICK removed \in BOOLEAN : Edit(removed)
    BY <1>2 DEF CloseTask
  <2>2. UNCHANGED <<now, target, step, amount, factor, raised>>
    BY <1>2, <2>1 DEF CloseTask, Edit
  <2> QED  BY <1>2, <2>1, <2>2, SameBlockers, OneOverdueLess, ScoreFalls
<1>3. ASSUME ~step, SetNextStep PROVE Current' <= Current
  <2>1. Edit(TRUE) /\ UNCHANGED <<now, target, amount, factor, task, raised>>
    BY <1>3 DEF SetNextStep, Edit
  <2> QED  BY <1>3, <2>1, SameTasks, SameBlockers, ScoreFalls
<1>4. ASSUME target # None, target' # None, target' > target, SetTarget(target')
      PROVE  Current' <= Current
  <2>1. Edit(FALSE) /\ UNCHANGED <<now, step, amount, factor, task, raised>>
    BY <1>4 DEF SetTarget, Edit
  <2> QED  BY <1>4, <2>1, SameTasks, SameBlockers, ScoreFalls
<1> QED  BY <1>1, <1>2, <1>3, <1>4 DEF Relief

\* Resolving a blocker, closing an overdue task, writing the missing next step
\* and moving the date back lower the score or leave it, under any policy that
\* gives no signal a negative weight: what they change lowers every signal that reads it, the fraction that is overdue
\* and the age of the oldest blocker that is left included.
THEOREM ReliefNeverRaises == Spec => ReliefNeverRaisesAScore
<1>1. TypeOK /\ TypeOK' /\ [Next]_vars =>
        [Scores /\ Unsigned(policy[active]) /\ Relief => Current' <= Current]_vars
  BY ReliefLowersScores
<1> QED  BY <1>1, ScoringTypeCorrect, PTL DEF Spec, ReliefNeverRaisesAScore
=============================================================================
