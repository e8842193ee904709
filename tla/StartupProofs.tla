---------------------------- MODULE StartupProofs ----------------------------
(****************************************************************************)
(* Theorems about Startup for any projects, datasets, policies and bounds.   *)
(****************************************************************************)
EXTENDS Startup, FiniteSetTheorems, WellFoundedInduction, TLAPS

Seeded(p) == SeedFact[p] # None

\* The tables as functions, without what the fixtures say of edges.
TablesOK ==
  /\ serving \in BOOLEAN /\ phase \in {"idle", "loaded", "measured", "aligned"}
  /\ fact \in [Project -> Fact \cup {None}] /\ policy \in Version \cup {None}
  /\ link = [k \in LinkId |-> link[k]]
  /\ blocker \in [Number -> {"absent", "open", "resolved"}]
  /\ seq \in Nat /\ high \in Nat
  /\ score \in [Project -> {None} \cup [fact : Fact, version : Version]]
  /\ pending \in [Project -> Nat]
  /\ \A p \in Project : pending[p] > 0 => fact[p] # None
  /\ quiet \in {"no", "seeding", "yes"}

\* What a session holds is of a project, and the seed's is one it has to score.
SessionsOK ==
  /\ on \in [Session -> Project \cup {None}]
  /\ held \in [Session -> {None} \cup [fact : Fact, version : Version]]
  /\ \A s \in Session : on[s] # None => held[s] # None /\ fact[on[s]] # None
  /\ todo \subseteq {p \in Project : fact[p] # None}
  /\ phase # "aligned" => todo = {}
  /\ on[Seeder] # None => on[Seeder] \in todo

\* The rows of the fixtures are as the fixtures say.
SeededRows ==
  /\ policy = SeedVersion
  /\ \A p \in Project : Seeded(p) => fact[p] = SeedFact[p]
  /\ DOMAIN sheet \subseteq task
  /\ \A k \in LinkId : k \in DOMAIN Waiting(sheet) => link[k] = Link(sheet, k)
  /\ \A n \in Number : n <= SeedBlockers => blocker[n] = "open"

\* A seed that nobody disturbs has come to its work, or one is over.
Done(stages) == quiet = "yes" \/ (quiet = "seeding" /\ phase \in stages)

\* What such a seed has done, and what is left of it.
WorkDone ==
  /\ Done({"loaded", "measured", "aligned"}) => SeededRows
  /\ quiet # "no" /\ phase = "measured" => high = Highest
  /\ Done({"aligned"}) => seq = Highest
  /\ \A p \in Active \ todo : Done({"aligned"}) => score[p] = Computed(p)
  /\ \A p \in Active : quiet = "yes" => score[p] = Computed(p)
  /\ quiet # "no" => todo \subseteq Active
  /\ quiet # "no" /\ on[Seeder] # None => held[Seeder] = Computed(on[Seeder])

\* A number drawn next is free once the sequence has been aligned.
NextIsFree ==
  /\ serving \/ phase = "aligned" =>
       \A n \in Number \ unaligned : n > seq => blocker[n] = "absent"
  /\ phase = "measured" =>
       \A n \in Number \ unaligned : n > high => blocker[n] = "absent"
  /\ drawn \subseteq Number /\ (~serving => drawn = {})

\* The seed, or the next start's, will score p from the rows as they are.
Coming(p) ==
  /\ p \in Active
  /\ \/ phase \in {"loaded", "measured"} \/ (~serving /\ phase = "idle")
     \/ p \in todo /\ (on[Seeder] = p => UpToDate(held[Seeder], p))

\* The worker will, or the score is already, or an exception is named.
Kept(p) ==
  \/ pending[p] > 0
  \/ \E w \in Worker : on[w] = p /\ UpToDate(held[w], p)
  \/ p \in unscored \cup overtaken
  \/ UpToDate(score[p], p)

Followed == \A p \in Project : fact[p] # None => Coming(p) \/ Kept(p)

IInv == TablesOK /\ SessionsOK /\ WorkDone /\ NextIsFree /\ Followed
          /\ LoopsNeedAReseed

-----------------------------------------------------------------------------
\* Of some of the first N numbers there is a last.
LEMMA LastOf ==
  ASSUME NEW N \in Nat, NEW T \in SUBSET (1..N), T # {}
  PROVE  \E n \in T : \A m \in T : m <= n
<1> DEFINE U == {N - n : n \in T}
<1>0. \A n \in T : n \in 1..N
  OBVIOUS
<1>1. U \subseteq Nat /\ U # {}
  <2>1. \A n \in T : N - n \in Nat
    BY <1>0
  <2> QED  BY <2>1
<1>2. PICK x \in U : \A y \in U : <<y, x>> \notin OpToRel(<, Nat)
  BY <1>1, WFMin, NatLessThanWellFounded
<1>3. \A y \in U : ~(y < x)
  BY <1>1, <1>2 DEF OpToRel
<1>4. PICK n \in T : x = N - n
  OBVIOUS
<1>5. ASSUME NEW m \in T PROVE m <= n
  <2>1. ~(N - m < N - n)
    BY <1>3, <1>4
  <2> QED  BY <1>0, <2>1
<1> QED  BY <1>5

LEMMA LastNumber ==
  ASSUME NEW T \in SUBSET Number, T # {}
  PROVE  \E n \in T : \A m \in T : m <= n
BY LastOf, LimitsAreNatural DEF Number

LEMMA HighestIsLast ==
  /\ Highest \in Nat
  /\ \A n \in Number : n > Highest => blocker[n] = "absent"
<1>1. Stored \subseteq Number /\ \A n \in Number : n \in Nat
  BY DEF Stored, Number
<1>2. CASE Stored = {}
  BY <1>1, <1>2 DEF Highest, Stored
<1>3. CASE Stored # {}
  <2>1. Highest \in Stored /\ \A m \in Stored : m <= Highest
    BY <1>1, <1>3, LastNumber DEF Highest
  <2> QED  BY <1>1, <2>1 DEF Stored
<1> QED  BY <1>2, <1>3

LEMMA LoopGrows ==
  ASSUME NEW A, NEW B, A \subseteq B, Loop(A)
  PROVE  Loop(B)
<1>1. PICK S \in SUBSET {l[1] : l \in A} :
        S # {} /\ \A t \in S : \E l \in A : l[1] = t /\ l[2] \in S
  BY DEF Loop
<1>2. S \in SUBSET {l[1] : l \in B}
  OBVIOUS
<1>3. \A t \in S : \E l \in B : l[1] = t /\ l[2] \in S
  BY <1>1
<1> QED  BY <1>1, <1>2, <1>3 DEF Loop

\* The edges no reload has put in.
Own(table, put) == Edges([k \in LinkId |-> IF k \in put THEN None ELSE table[k]])

LEMMA OwnEdges ==
  ASSUME NEW table, NEW put
  PROVE  Own(table, put) = {l \in {table[k] : k \in LinkId \ put} :
                              l # None /\ l[2] # Prose}
BY DEF Own, Edges, LinksOf

LEMMA InitIInv == Init => IInv
<1> SUFFICES ASSUME Init PROVE IInv
  OBVIOUS
<1> USE DEF Init
<1>1. TablesOK
  <2>1. link = [k \in LinkId |-> link[k]] /\ \A p \in Project : ~(pending[p] > 0)
    OBVIOUS
  <2>2. /\ fact \in [Project -> Fact \cup {None}] /\ pending \in [Project -> Nat]
        /\ score \in [Project -> {None} \cup [fact : Fact, version : Version]]
        /\ blocker \in [Number -> {"absent", "open", "resolved"}]
    OBVIOUS
  <2> QED  BY <2>1, <2>2 DEF TablesOK
<1>2. SessionsOK
  BY DEF SessionsOK, Session
<1>3. WorkDone /\ NextIsFree /\ Followed
  BY DEF WorkDone, Done, NextIsFree, Followed, Active, Session
<1>4. LoopsNeedAReseed
  <2>1. Own(link, revived) = {}
    BY OwnEdges
  <2>2. ~Loop({})
    BY DEF Loop
  <2> QED  BY <2>1, <2>2 DEF LoopsNeedAReseed, Own
<1> QED  BY <1>1, <1>2, <1>3, <1>4 DEF IInv

\* Edges stay.
LEMMA NoNewEdge ==
  ASSUME LoopsNeedAReseed, UNCHANGED <<link, revived>>
  PROVE  LoopsNeedAReseed'
BY DEF LoopsNeedAReseed, Edges, LinksOf

\* The rows of the fixtures stay.
LEMMA RowsStay ==
  ASSUME SeededRows, UNCHANGED <<sheet, fact, policy, task, link, blocker>>
  PROVE  SeededRows'
<1>1. \A k \in LinkId : k \in DOMAIN Waiting(sheet') => link'[k] = Link(sheet', k)
  BY DEF SeededRows
<1> QED  BY <1>1 DEF SeededRows

\* What is made from the rows depends on nothing else.
LEMMA SameRows ==
  ASSUME UNCHANGED <<fact, policy, blocker>>
  PROVE  /\ Active' = Active /\ Highest' = Highest
         /\ \A p : Computed(p)' = Computed(p)
<1>1. Active' = Active /\ Stored' = Stored
  BY DEF Active, Stored
<1>2. Highest' = Highest
  BY <1>1 DEF Highest
<1>3. \A p : Computed(p)' = Computed(p)
  BY DEF Computed
<1> QED  BY <1>1, <1>2, <1>3

LEMMA SameJudgement ==
  ASSUME UNCHANGED <<fact, policy, retuned>>
  PROVE  Active' = Active /\ \A d, p : UpToDate(d, p)' <=> UpToDate(d, p)
<1>1. Active' = Active
  BY DEF Active
<1>2. \A d, p : UpToDate(d, p)' <=> UpToDate(d, p)
  BY <1>1 DEF UpToDate
<1> QED  BY <1>1, <1>2

-----------------------------------------------------------------------------
(***************************************************************************)
(* The steps of a seed.                                                    *)
(***************************************************************************)

LEMMA LoadFixturesIInv ==
  ASSUME IInv, LoadFixtures
  PROVE  IInv'
<1>1. /\ TablesOK /\ SessionsOK /\ WorkDone /\ NextIsFree /\ Followed
      /\ LoopsNeedAReseed
  BY DEF IInv
<1>2. /\ \A p \in Project : fact'[p] = IF Seeded(p) THEN SeedFact[p] ELSE fact[p]
      /\ fact' \in [Project -> Fact \cup {None}]
      /\ \A p \in Project : fact[p] # None => fact'[p] # None
  BY <1>1, SeedAssumption DEF LoadFixtures, TablesOK, Seeded
<1>3. /\ \A k \in LinkId : link'[k] = IF k \in DOMAIN Waiting(sheet) THEN Link(sheet, k)
                                     ELSE link[k]
      /\ link' = [k \in LinkId |-> link'[k]]
  BY DEF LoadFixtures
<1>4. /\ \A n \in Number : blocker'[n] = IF n <= SeedBlockers THEN "open" ELSE blocker[n]
      /\ blocker' \in [Number -> {"absent", "open", "resolved"}]
  BY <1>1 DEF LoadFixtures, TablesOK
<1>5. /\ phase = "idle" /\ phase' = "loaded" /\ policy' = SeedVersion
      /\ UNCHANGED <<serving, sheet, seq, score, high, todo, on, held, pending, edits,
                     drawn, unscored, overtaken>>
      /\ quiet' = IF quiet = "yes" THEN "yes" ELSE "seeding"
      /\ unaligned' = IF serving THEN unaligned \cup {n \in Number : n <= SeedBlockers}
                      ELSE unaligned
      /\ DOMAIN sheet \subseteq task'
  BY DEF LoadFixtures, scoring, requests
<1>6. TablesOK'
  BY <1>1, <1>2, <1>3, <1>4, <1>5, SeedAssumption DEF TablesOK
<1>7. SessionsOK'
  BY <1>1, <1>2, <1>5 DEF SessionsOK
<1>8. SeededRows'
  <2>1. \A k \in LinkId : k \in DOMAIN Waiting(sheet') => link'[k] = Link(sheet', k)
    BY <1>3, <1>5
  <2> QED  BY <1>2, <1>4, <1>5, <2>1 DEF SeededRows
<1>9. WorkDone'
  \* A load on a quiet database changes nothing.
  <2>1. CASE quiet = "yes"
    <3>1. /\ policy = SeedVersion
          /\ \A p \in Project : Seeded(p) => fact[p] = SeedFact[p]
          /\ \A n \in Number : n <= SeedBlockers => blocker[n] = "open"
          /\ seq = Highest /\ \A p \in Active : score[p] = Computed(p)
      BY <1>1, <2>1 DEF WorkDone, Done, SeededRows
    <3>2. fact' = fact /\ blocker' = blocker /\ policy' = policy
      BY <1>1, <1>2, <1>4, <1>5, <3>1 DEF TablesOK
    <3>3. /\ Active' = Active /\ Highest' = Highest
          /\ \A p : Computed(p)' = Computed(p)
      BY <3>2, SameRows
    <3> QED  BY <1>1, <1>5, <1>8, <3>1, <3>3 DEF WorkDone, SessionsOK
  <2>2. CASE quiet # "yes"
    <3>1. todo' = {} /\ on'[Seeder] = None
      BY <1>1, <1>5 DEF SessionsOK
    <3> QED  BY <1>5, <1>8, <2>2, <3>1 DEF WorkDone, Done
  <2> QED  BY <2>1, <2>2
<1>10. NextIsFree'
  BY <1>1, <1>4, <1>5 DEF NextIsFree
<1>11. Followed'
  <2> SUFFICES ASSUME NEW p \in Project, fact'[p] # None, p \notin Active'
               PROVE  Kept(p)'
    BY <1>5 DEF Followed, Coming
  <2>1. fact'[p] = fact[p] /\ p \notin Active
    BY <1>2, SeedAssumption DEF Active, Seeded
  <2>2. Kept(p)
    BY <1>1, <2>1 DEF Followed, Coming
  <2>3. \A d : UpToDate(d, p) => UpToDate(d, p)'
    BY <2>1 DEF UpToDate
  <2> QED  BY <1>5, <2>2, <2>3 DEF Kept
<1>12. LoopsNeedAReseed'
  <2> USE DEF LoadFixtures
  <2>1. CASE sheet = Sheet /\ \A k \in LinkId : link[k] = None
    <3>1. \A k \in LinkId : link'[k] # None =>
            link'[k] \in {Link(Sheet, n) : n \in DOMAIN Waiting(Sheet)}
      BY <1>3, <2>1
    <3>2. Own(link', revived') \subseteq {Link(Sheet, n) : n \in DOMAIN Waiting(Sheet)}
      BY <3>1, OwnEdges
    <3> QED  BY <3>2, LoopGrows, SheetAssumption DEF LoopsNeedAReseed, Own
  <2>2. CASE ~(sheet = Sheet /\ \A k \in LinkId : link[k] = None)
    <3>1. revived' = revived \cup {k \in LinkId : link'[k] # link[k]}
      BY <2>2
    <3>2. Own(link', revived') \subseteq Own(link, revived)
      BY <3>1, OwnEdges
    <3> QED  BY <1>1, <3>2, LoopGrows DEF LoopsNeedAReseed, Own
  <2> QED  BY <2>1, <2>2
<1> QED  BY <1>6, <1>7, <1>9, <1>10, <1>11, <1>12 DEF IInv

\* What changes no row: the score of each project is followed if it is to come
\* or kept as before.
LEMMA StepOfASeed ==
  ASSUME IInv, UNCHANGED <<sheet, fact, policy, task, link, blocker, score, pending,
                           retuned, revived>>,
         quiet' \in {"no", "seeding", "yes"}, serving' \in BOOLEAN,
         phase' \in {"idle", "loaded", "measured", "aligned"},
         seq' \in Nat, high' \in Nat, SessionsOK', NextIsFree',
         \A p \in Project : p \in unscored \cup overtaken => p \in unscored' \cup overtaken',
         \A w \in Worker : on'[w] = on[w] /\ held'[w] = held[w],
         \A p \in Active : Coming(p) => Coming(p)' \/ p \in unscored'
  PROVE  TablesOK' /\ NextIsFree' /\ Followed' /\ LoopsNeedAReseed'
<1>1. TablesOK /\ Followed /\ LoopsNeedAReseed
  BY DEF IInv
<1>2. TablesOK'
  BY <1>1 DEF TablesOK
<1>3. Followed'
  <2>1. /\ Active' = Active
        /\ \A d, p : UpToDate(d, p)' <=> UpToDate(d, p)
    BY SameJudgement
  <2>2. ASSUME NEW p \in Project, Kept(p)
        PROVE  Kept(p)'
    BY <2>1, <2>2 DEF Kept
  <2>3. ASSUME NEW p \in Project, fact[p] # None
        PROVE  Coming(p)' \/ Kept(p)'
    <3>1. Coming(p) => p \in Active
      BY DEF Coming
    <3>2. p \in unscored' => Kept(p)'
      BY DEF Kept
    <3> QED  BY <1>1, <2>2, <2>3, <3>1, <3>2 DEF Followed
  <2> QED  BY <2>3 DEF Followed
<1> QED  BY <1>1, <1>2, <1>3, NoNewEdge

LEMMA MeasureIInv ==
  ASSUME IInv, Measure
  PROVE  IInv'
<1>1. /\ TablesOK /\ SessionsOK /\ WorkDone /\ NextIsFree
  BY DEF IInv
<1>2. /\ phase = "loaded" /\ phase' = "measured" /\ high' = Highest
      /\ UNCHANGED <<serving, sheet, fact, policy, task, link, blocker, seq, score, todo,
                     on, held, pending, drawn, quiet, retuned, unscored, overtaken,
                     unaligned, revived>>
  BY DEF Measure, tables, scoring, requests, history
<1>3. SessionsOK' /\ high' \in Nat
  BY <1>1, <1>2, HighestIsLast DEF SessionsOK
<1>4. NextIsFree'
  BY <1>1, <1>2, HighestIsLast DEF NextIsFree
<1>5. /\ Active' = Active /\ Highest' = Highest
      /\ \A p : Computed(p)' = Computed(p)
  BY <1>2, SameRows
<1>6. WorkDone'
  <2>1. SeededRows => SeededRows'
    BY <1>2, RowsStay
  <2> QED  BY <1>1, <1>2, <1>5, <2>1 DEF WorkDone, Done
<1>7. \A p \in Active : Coming(p) => Coming(p)'
  BY <1>2, <1>5 DEF Coming
<1> QED  BY <1>1, <1>2, <1>3, <1>4, <1>6, <1>7, StepOfASeed DEF IInv, TablesOK

LEMMA AlignIInv ==
  ASSUME IInv, Align
  PROVE  IInv'
<1>1. /\ TablesOK /\ SessionsOK /\ WorkDone /\ NextIsFree
  BY DEF IInv
<1>2. /\ phase = "measured" /\ phase' = "aligned" /\ seq' = high /\ todo' = Active
      /\ unaligned' = {n \in unaligned : n > high}
      /\ UNCHANGED <<serving, sheet, fact, policy, task, link, blocker, score, high,
                     on, held, pending, drawn, quiet, retuned, unscored, overtaken,
                     revived>>
  BY DEF Align, Setval, scoring, requests
<1>3. on[Seeder] = None
  BY <1>1, <1>2 DEF SessionsOK
<1>4. SessionsOK'
  BY <1>1, <1>2, <1>3 DEF SessionsOK, Active
<1>5. NextIsFree'
  BY <1>1, <1>2 DEF NextIsFree
<1>6. /\ Active' = Active /\ Highest' = Highest
      /\ \A p : Computed(p)' = Computed(p)
  BY <1>2, SameRows
<1>7. WorkDone'
  <2>1. SeededRows => SeededRows'
    BY <1>2, RowsStay
  <2> QED  BY <1>1, <1>2, <1>3, <1>6, <2>1 DEF WorkDone, Done
<1>8. \A p \in Active : Coming(p)'
  <2>1. Active \subseteq Project
    BY DEF Active
  <2> QED  BY <1>2, <1>3, <1>6, <2>1, SeedAssumption DEF Coming
<1> QED  BY <1>1, <1>2, <1>4, <1>5, <1>7, <1>8, StepOfASeed DEF IInv, TablesOK

LEMMA FinishIInv ==
  ASSUME IInv, Finish
  PROVE  IInv'
<1>1. /\ TablesOK /\ SessionsOK /\ WorkDone /\ NextIsFree
  BY DEF IInv
<1>2. /\ phase = "aligned" /\ todo = {} /\ phase' = "idle" /\ serving' = TRUE
      /\ quiet' = IF quiet = "no" THEN "no" ELSE "yes"
      /\ UNCHANGED <<sheet, fact, policy, task, link, blocker, seq, score, high, todo,
                     on, held, pending, drawn, retuned, unscored, overtaken,
                     unaligned, revived>>
  BY DEF Finish, tables, scoring, requests
<1>3. SessionsOK'
  BY <1>1, <1>2 DEF SessionsOK
<1>4. NextIsFree'
  BY <1>1, <1>2 DEF NextIsFree
<1>5. /\ Active' = Active /\ Highest' = Highest
      /\ \A p : Computed(p)' = Computed(p)
  BY <1>2, SameRows
<1>6. WorkDone'
  <2>1. SeededRows => SeededRows'
    BY <1>2, RowsStay
  <2>2. CASE quiet = "no"
    BY <1>2, <2>2 DEF WorkDone, Done
  <2>3. CASE quiet # "no"
    <3>1. /\ quiet' = "yes" /\ SeededRows /\ seq = Highest
          /\ \A p \in Active : score[p] = Computed(p)
          /\ on[Seeder] # None => held[Seeder] = Computed(on[Seeder])
      BY <1>1, <1>2, <2>3 DEF WorkDone, Done, TablesOK
    <3> QED  BY <1>2, <1>5, <2>1, <3>1 DEF WorkDone, Done
  <2> QED  BY <2>2, <2>3
<1>7. \A p \in Active : ~Coming(p)
  BY <1>2 DEF Coming
<1> QED  BY <1>1, <1>2, <1>3, <1>4, <1>6, <1>7, StepOfASeed DEF IInv, TablesOK

\* The seed is gone; a start leaves its work to the next, a seed by hand to nobody.
LEMMA StopIInv ==
  ASSUME IInv, Kill \/ GiveUp
  PROVE  IInv'
<1>1. /\ TablesOK /\ SessionsOK /\ WorkDone /\ NextIsFree
  BY DEF IInv
<1>2. /\ phase' = "idle" /\ todo' = {}
      /\ on' = [on EXCEPT ![Seeder] = None] /\ held' = [held EXCEPT ![Seeder] = None]
      /\ UNCHANGED <<sheet, fact, policy, task, link, blocker, seq, score, high, pending,
                     quiet, retuned, overtaken, unaligned, revived>>
      /\ \/ serving' = FALSE /\ drawn' = {} /\ unscored' = unscored
         \/ serving /\ serving' /\ drawn' = drawn /\ unscored' = unscored \cup Left
              /\ phase # "idle"
  BY <1>1 DEF Kill, GiveUp, Stop, tables, TablesOK
<1>3. /\ on'[Seeder] = None
      /\ \A w \in Worker : on'[w] = on[w] /\ held'[w] = held[w]
  BY <1>1, <1>2, SeedAssumption DEF SessionsOK, Session
<1>4. SessionsOK'
  <2>1. /\ on' \in [Session -> Project \cup {None}]
        /\ held' \in [Session -> {None} \cup [fact : Fact, version : Version]]
    BY <1>1, <1>2 DEF SessionsOK
  <2>2. ASSUME NEW s \in Session, on'[s] # None
        PROVE  on'[s] = on[s] /\ held'[s] = held[s]
    BY <1>1, <1>2, <2>2 DEF SessionsOK
  <2>3. fact' = fact /\ phase' = "idle" /\ todo' = {}
    BY <1>2
  <2> QED  BY <1>1, <1>3, <2>1, <2>2, <2>3 DEF SessionsOK
<1>5. NextIsFree'
  BY <1>1, <1>2 DEF NextIsFree
<1>6. /\ Active' = Active /\ Highest' = Highest
      /\ \A p : Computed(p)' = Computed(p)
  BY <1>2, SameRows
<1>7. WorkDone'
  <2>1. SeededRows => SeededRows'
    BY <1>2, RowsStay
  <2> QED  BY <1>1, <1>2, <1>3, <1>6, <2>1 DEF WorkDone, Done
<1>8. \A p \in Active : Coming(p) => Coming(p)' \/ p \in unscored'
  <2>1. CASE serving' = FALSE
    BY <1>2, <1>6, <2>1 DEF Coming
  <2>2. CASE serving /\ unscored' = unscored \cup Left /\ phase # "idle"
    <3>1. ASSUME NEW p \in Active, Coming(p)
          PROVE  p \in Left
      BY <1>1, <2>2, <3>1 DEF Coming, Left, SessionsOK
    <3> QED  BY <2>2, <3>1
  <2> QED  BY <1>2, <2>1, <2>2
<1>9. serving' \in BOOLEAN
  BY <1>1, <1>2 DEF TablesOK
<1> QED  BY <1>1, <1>2, <1>3, <1>4, <1>5, <1>7, <1>8, <1>9, StepOfASeed DEF IInv, TablesOK

LEMMA RegenerateIInv ==
  ASSUME IInv, Regenerate
  PROVE  IInv'
<1>1. /\ TablesOK /\ SessionsOK /\ WorkDone /\ NextIsFree /\ Followed
      /\ LoopsNeedAReseed
  BY DEF IInv
<1>2. /\ quiet' = "no" /\ phase = "idle"
      /\ UNCHANGED <<serving, phase, high, todo, fact, policy, task, link, blocker, seq,
                     score, on, held, pending, drawn, retuned, unscored, overtaken,
                     unaligned, revived>>
  BY DEF Regenerate, progress, tables, scoring
<1>3. TablesOK' /\ SessionsOK' /\ NextIsFree'
  BY <1>1, <1>2 DEF TablesOK, SessionsOK, NextIsFree
<1>4. WorkDone'
  BY <1>2 DEF WorkDone, Done
<1>5. /\ Active' = Active
      /\ \A d, p : UpToDate(d, p)' <=> UpToDate(d, p)
  BY <1>2, SameJudgement
<1>6. Followed'
  BY <1>1, <1>2, <1>5 DEF Followed, Coming, Kept
<1> QED  BY <1>1, <1>2, <1>3, <1>4, <1>6, NoNewEdge DEF IInv

-----------------------------------------------------------------------------
(***************************************************************************)
(* Operators.                                                              *)
(***************************************************************************)

\* A change is not quiet.
LEMMA Busy ==
  ASSUME quiet' = "no"
  PROVE  WorkDone'
BY DEF WorkDone, Done

LEMMA EditIInv ==
  ASSUME IInv, NEW p \in Project, Edit(p)
  PROVE  IInv'
<1>1. /\ TablesOK /\ SessionsOK /\ NextIsFree /\ Followed /\ LoopsNeedAReseed
  BY DEF IInv
<1>2. PICK f \in Fact : fact' = [fact EXCEPT ![p] = f]
  BY DEF Edit
<1>3. /\ pending' = [pending EXCEPT ![p] = @ + 1] /\ quiet' = "no"
      /\ UNCHANGED <<serving, phase, high, todo, sheet, policy, task, link, blocker, seq,
                     score, on, held, drawn, retuned, unscored, overtaken, unaligned,
                     revived>>
  BY DEF Edit, Change, progress, scoring
<1>4. /\ f # None /\ fact'[p] = f /\ pending'[p] > 0
      /\ \A q \in Project \ {p} : fact'[q] = fact[q] /\ pending'[q] = pending[q]
      /\ \A q \in Project : fact[q] # None => fact'[q] # None
  BY <1>1, <1>2, <1>3, SeedAssumption DEF TablesOK
<1>5. TablesOK'
  BY <1>1, <1>2, <1>3, <1>4 DEF TablesOK
<1>6. SessionsOK'
  BY <1>1, <1>3, <1>4 DEF SessionsOK
<1>7. NextIsFree'
  BY <1>1, <1>3 DEF NextIsFree
<1>8. Followed'
  <2> SUFFICES ASSUME NEW q \in Project, fact'[q] # None
               PROVE  Coming(q)' \/ Kept(q)'
    BY DEF Followed
  <2>1. CASE q = p
    BY <1>4, <2>1 DEF Kept
  <2>2. CASE q # p
    <3>1. fact'[q] = fact[q] /\ pending'[q] = pending[q] /\ (q \in Active' <=> q \in Active)
      BY <1>4, <2>2 DEF Active
    <3>2. \A d : UpToDate(d, q)' <=> UpToDate(d, q)
      BY <1>3, <3>1 DEF UpToDate
    <3>3. Coming(q) => Coming(q)'
      BY <1>3, <3>1, <3>2 DEF Coming
    <3>4. Kept(q) => Kept(q)'
      BY <1>3, <3>1, <3>2 DEF Kept
    <3> QED  BY <1>1, <3>1, <3>3, <3>4 DEF Followed
  <2> QED  BY <2>1, <2>2
<1> QED  BY <1>1, <1>3, <1>5, <1>6, <1>7, <1>8, Busy, NoNewEdge DEF IInv

\* What leaves projects, their scores and the sessions alone.
LEMMA OtherEdit ==
  ASSUME IInv, quiet' = "no",
         UNCHANGED <<serving, phase, high, todo, fact, score, on, held, pending,
                     unscored, overtaken>>,
         policy' \in Version \cup {None},
         (policy' = policy /\ retuned' = retuned) \/ policy' = None \/ retuned',
         link' = [k \in LinkId |-> link'[k]],
         blocker' \in [Number -> {"absent", "open", "resolved"}], seq' \in Nat
  PROVE  TablesOK' /\ SessionsOK' /\ WorkDone' /\ Followed'
<1>1. TablesOK /\ SessionsOK /\ Followed
  BY DEF IInv
<1>2. TablesOK' /\ SessionsOK'
  BY <1>1 DEF TablesOK, SessionsOK
<1>3. Followed'
  <2>1. Active' = Active
    BY DEF Active
  <2>2. \A d, p : UpToDate(d, p) => UpToDate(d, p)'
    BY <2>1 DEF UpToDate
  <2>3. \A p \in Project : (Coming(p) => Coming(p)') /\ (Kept(p) => Kept(p)')
    BY <2>1, <2>2 DEF Coming, Kept
  <2> QED  BY <1>1, <2>3 DEF Followed
<1> QED  BY <1>2, <1>3, Busy

\* What leaves the blockers and their sequence alone.
LEMMA SameNumbers ==
  ASSUME NextIsFree, UNCHANGED <<serving, phase, high, blocker, seq, unaligned, drawn>>
  PROVE  NextIsFree'
BY DEF NextIsFree

LEMMA PolicyIInv ==
  ASSUME IInv,
         DeactivatePolicy \/ \E v \in Version : ActivatePolicy(v)
  PROVE  IInv'
<1>1. TablesOK /\ NextIsFree /\ LoopsNeedAReseed
  BY DEF IInv
<1>2. /\ quiet' = "no" /\ policy' \in Version \cup {None}
      /\ UNCHANGED <<serving, phase, high, todo, fact, score, on, held, pending, drawn,
                     unscored, overtaken, link, blocker, seq, revived, unaligned>>
      /\ policy' = None \/ retuned'
  BY DEF DeactivatePolicy, ActivatePolicy, Change, progress, scoring
<1>3. /\ link' = [k \in LinkId |-> link'[k]]
      /\ blocker' \in [Number -> {"absent", "open", "resolved"}] /\ seq' \in Nat
  BY <1>1, <1>2 DEF TablesOK
<1> QED  BY <1>1, <1>2, <1>3, OtherEdit, SameNumbers, NoNewEdge DEF IInv

LEMMA CreateTaskIInv ==
  ASSUME IInv, CreateTask
  PROVE  IInv'
<1>1. TablesOK /\ NextIsFree /\ LoopsNeedAReseed
  BY DEF IInv
<1>2. /\ quiet' = "no"
      /\ UNCHANGED <<serving, phase, high, todo, fact, score, on, held, pending, drawn,
                     unscored, overtaken, link, blocker, seq, revived, unaligned,
                     policy, retuned>>
  BY DEF CreateTask, Change, progress, scoring
<1>3. /\ link' = [k \in LinkId |-> link'[k]] /\ policy' \in Version \cup {None}
      /\ blocker' \in [Number -> {"absent", "open", "resolved"}] /\ seq' \in Nat
  BY <1>1, <1>2 DEF TablesOK
<1> QED  BY <1>1, <1>2, <1>3, OtherEdit, SameNumbers, NoNewEdge DEF IInv

\* An edge that passes find_dependency_cycle closes no loop among the own ones.
LEMMA AddPrerequisiteIInv ==
  ASSUME IInv, NEW t \in TaskId, NEW u \in TaskId, AddPrerequisite(t, u)
  PROVE  IInv'
<1>1. TablesOK /\ NextIsFree /\ LoopsNeedAReseed
  BY DEF IInv
<1>2. PICK k \in LinkId : link' = [link EXCEPT ![k] = <<t, u>>]
  BY DEF AddPrerequisite
<1>3. /\ link' = [j \in LinkId |-> link'[j]]
      /\ link'[k] = <<t, u>> /\ \A j \in LinkId \ {k} : link'[j] = link[j]
  BY <1>1, <1>2 DEF TablesOK
<1>4. /\ quiet' = "no" /\ ~ClosesLoop(t, u)
      /\ UNCHANGED <<serving, phase, high, todo, fact, score, on, held, pending, drawn,
                     unscored, overtaken, blocker, seq, revived, unaligned, policy,
                     retuned>>
  BY DEF AddPrerequisite, Change, progress, scoring
<1>5. /\ policy' \in Version \cup {None}
      /\ blocker' \in [Number -> {"absent", "open", "resolved"}] /\ seq' \in Nat
  BY <1>1, <1>4 DEF TablesOK
<1>6. Own(link', revived') \subseteq Edges(link) \cup {<<t, u>>}
  <2>1. ASSUME NEW j \in LinkId, link'[j] # None, link'[j][2] # Prose
        PROVE  link'[j] \in Edges(link) \cup {<<t, u>>}
    BY <1>3, <2>1 DEF Edges, LinksOf
  <2> QED  BY <2>1, OwnEdges
<1>7. LoopsNeedAReseed'
  BY <1>4, <1>6, LoopGrows DEF LoopsNeedAReseed, ClosesLoop, Own
<1> QED  BY <1>1, <1>3, <1>4, <1>5, <1>7, OtherEdit, SameNumbers DEF IInv

LEMMA RemovePrerequisiteIInv ==
  ASSUME IInv, NEW k \in LinkId, RemovePrerequisite(k)
  PROVE  IInv'
<1>1. TablesOK /\ NextIsFree /\ LoopsNeedAReseed
  BY DEF IInv
<1>2. link' = [link EXCEPT ![k] = None] /\ revived' = revived \ {k}
  BY DEF RemovePrerequisite
<1>3. /\ link' = [j \in LinkId |-> link'[j]]
      /\ link'[k] = None /\ \A j \in LinkId \ {k} : link'[j] = link[j]
  BY <1>1, <1>2 DEF TablesOK
<1>4. /\ quiet' = "no"
      /\ UNCHANGED <<serving, phase, high, todo, fact, score, on, held, pending, drawn,
                     unscored, overtaken, blocker, seq, unaligned, policy, retuned>>
  BY DEF RemovePrerequisite, Change, progress, scoring
<1>5. /\ policy' \in Version \cup {None}
      /\ blocker' \in [Number -> {"absent", "open", "resolved"}] /\ seq' \in Nat
  BY <1>1, <1>4 DEF TablesOK
<1>6. Own(link', revived') \subseteq Own(link, revived)
  BY <1>2, <1>3, OwnEdges
<1>7. LoopsNeedAReseed'
  BY <1>1, <1>6, LoopGrows DEF LoopsNeedAReseed, Own
<1> QED  BY <1>1, <1>3, <1>4, <1>5, <1>7, OtherEdit, SameNumbers DEF IInv

\* A row ahead of the sequence, or behind the back of the seed, is marked.
LEMMA BlockerIInv ==
  ASSUME IInv,
         DrawNumber \/ \E n \in Number : ResolveBlocker(n) \/ DeleteBlocker(n)
  PROVE  IInv'
<1>1. TablesOK /\ NextIsFree /\ LoopsNeedAReseed
  BY DEF IInv
<1>2. /\ quiet' = "no" /\ serving
      /\ UNCHANGED <<serving, phase, high, todo, fact, score, on, held, pending,
                     unscored, overtaken, link, policy, retuned, revived, unaligned>>
  BY DEF DrawNumber, ResolveBlocker, DeleteBlocker, Change, progress, scoring
<1>3. \/ DrawNumber /\ seq' = seq + 1 /\ drawn' = drawn \cup {seq + 1} /\ seq < CodeLimit
           /\ blocker' = blocker
      \/ \E n \in Number :
           /\ blocker[n] # "absent" /\ seq' = seq /\ drawn' = drawn
           /\ \E b \in {"absent", "resolved"} : blocker' = [blocker EXCEPT ![n] = b]
  BY DEF DrawNumber, ResolveBlocker, DeleteBlocker
<1>4. seq' \in Nat /\ drawn' \subseteq Number
  BY <1>1, <1>3, LimitsAreNatural DEF TablesOK, NextIsFree, Number
<1>5. blocker' \in [Number -> {"absent", "open", "resolved"}]
  BY <1>1, <1>3 DEF TablesOK
<1>6. \A n \in Number : blocker[n] = "absent" => blocker'[n] = "absent"
  BY <1>1, <1>3 DEF TablesOK
<1>7. \A n \in Number : n > seq' => n > seq
  BY <1>1, <1>3 DEF TablesOK, Number
<1>8. NextIsFree'
  BY <1>1, <1>2, <1>4, <1>6, <1>7 DEF NextIsFree
<1>9. link' = [k \in LinkId |-> link'[k]] /\ policy' \in Version \cup {None}
  BY <1>1, <1>2 DEF TablesOK
<1> QED  BY <1>1, <1>2, <1>4, <1>5, <1>8, <1>9, OtherEdit, NoNewEdge DEF IInv

LEMMA RaiseBlockerIInv ==
  ASSUME IInv, NEW n \in Number, RaiseBlocker(n)
  PROVE  IInv'
<1>1. TablesOK /\ SessionsOK /\ WorkDone /\ NextIsFree /\ Followed /\ LoopsNeedAReseed
  BY DEF IInv
<1>2. /\ n \in drawn /\ drawn' = drawn \ {n}
      /\ UNCHANGED <<serving, phase, high, todo, sheet, fact, policy, task, link, seq,
                     score, on, held, pending, retuned, unscored, overtaken, revived>>
  BY DEF RaiseBlocker, progress, scoring
<1>3. /\ policy' \in Version \cup {None} /\ seq' \in Nat
      /\ link' = [k \in LinkId |-> link'[k]]
  BY <1>1, <1>2 DEF TablesOK
<1>4. CASE /\ blocker' = [blocker EXCEPT ![n] = "open"] /\ quiet' = "no"
           /\ unaligned' = IF phase = "measured" \/ n > seq THEN unaligned \cup {n}
                           ELSE unaligned
  <2>1. /\ blocker' \in [Number -> {"absent", "open", "resolved"}]
        /\ \A m \in Number \ {n} : blocker'[m] = blocker[m]
    BY <1>1, <1>4 DEF TablesOK
  <2>2. NextIsFree'
    BY <1>1, <1>2, <1>4, <2>1 DEF NextIsFree
  <2> QED  BY <1>1, <1>2, <1>3, <1>4, <2>1, <2>2, OtherEdit, NoNewEdge DEF IInv
<1>5. CASE UNCHANGED <<blocker, quiet, unaligned>>
  <2>1. TablesOK' /\ SessionsOK'
    BY <1>1, <1>2, <1>5 DEF TablesOK, SessionsOK
  <2>2. NextIsFree'
    BY <1>1, <1>2, <1>5 DEF NextIsFree
  <2>3. /\ Active' = Active /\ Highest' = Highest
        /\ \A p : Computed(p)' = Computed(p)
    BY <1>2, <1>5, SameRows
  <2>4. SeededRows => SeededRows'
    BY <1>2, <1>5, RowsStay
  <2>5. WorkDone'
    BY <1>1, <1>2, <1>5, <2>3, <2>4 DEF WorkDone, Done
  <2>6. \A d, p : UpToDate(d, p)' <=> UpToDate(d, p)
    BY <1>2, SameJudgement
  <2>7. Followed'
    BY <1>1, <1>2, <2>3, <2>6 DEF Followed, Coming, Kept
  <2> QED  BY <1>1, <1>2, <2>1, <2>2, <2>5, <2>7, NoNewEdge DEF IInv
<1> QED  BY <1>4, <1>5 DEF RaiseBlocker

-----------------------------------------------------------------------------
(***************************************************************************)
(* The sessions that score.                                                *)
(***************************************************************************)

\* What leaves the rows and the seed's progress alone.
LEMMA SessionStep ==
  ASSUME IInv, UNCHANGED <<serving, progress, sheet, tables, requests, quiet, retuned,
                           overtaken, unaligned, revived>>,
         pending' \in [Project -> Nat],
         \A p \in Project : pending'[p] > 0 => fact[p] # None,
         SessionsOK',
         quiet # "no" /\ on'[Seeder] # None => held'[Seeder] = Computed(on'[Seeder]),
         \A p \in Project :
           fact[p] # None /\ (Coming(p) \/ Kept(p)) => Coming(p)' \/ Kept(p)'
  PROVE  IInv'
<1>1. TablesOK /\ SessionsOK /\ WorkDone /\ NextIsFree /\ Followed /\ LoopsNeedAReseed
  BY DEF IInv
<1>2. UNCHANGED <<phase, high, todo, fact, policy, task, link, blocker, seq, score, drawn,
                  edits>>
  BY DEF progress, tables, requests
<1>3. TablesOK'
  BY <1>1, <1>2 DEF TablesOK
<1>4. NextIsFree'
  BY <1>1, <1>2 DEF NextIsFree
<1>5. /\ Active' = Active /\ Highest' = Highest
      /\ \A p : Computed(p)' = Computed(p)
  BY <1>2, SameRows
<1>6. SeededRows => SeededRows'
  BY <1>2, RowsStay
<1>7. WorkDone'
  BY <1>1, <1>2, <1>5, <1>6 DEF WorkDone, Done
<1>8. Followed'
  BY <1>1, <1>2 DEF Followed
<1> QED  BY <1>1, <1>2, <1>3, <1>4, <1>7, <1>8, NoNewEdge DEF IInv

\* What a session reads is so when it reads it.
LEMMA CollectedIsUpToDate ==
  ASSUME TablesOK, NEW p \in Project, fact[p] # None, policy # None
  PROVE  /\ Computed(p) \in [fact : Fact, version : Version]
         /\ Computed(p) # None /\ UpToDate(Computed(p), p)
BY SeedAssumption DEF TablesOK, Computed, UpToDate

LEMMA CollectForEventIInv ==
  ASSUME IInv, NEW p \in Project, NEW w \in Worker, CollectForEvent(w, p)
  PROVE  IInv'
<1>1. TablesOK /\ SessionsOK /\ WorkDone
  BY DEF IInv
<1>2. /\ pending[p] > 0 /\ pending' = [pending EXCEPT ![p] = @ - 1]
      /\ on[w] = None /\ policy # None
      /\ on' = [on EXCEPT ![w] = p] /\ held' = [held EXCEPT ![w] = Computed(p)]
      /\ UNCHANGED <<serving, progress, sheet, tables, requests, history>>
  BY DEF CollectForEvent, Collect
<1>3. /\ UNCHANGED <<phase, high, todo, fact, policy, score, quiet, retuned, unscored,
                     overtaken, unaligned, revived>>
  BY <1>2 DEF progress, tables, history
<1>4. w \in Session /\ w # Seeder /\ Seeder \in Session
  BY SeedAssumption DEF Session
<1>5. fact[p] # None
  BY <1>1, <1>2 DEF TablesOK
<1>6. /\ Computed(p) \in [fact : Fact, version : Version]
      /\ Computed(p) # None /\ UpToDate(Computed(p), p)
  BY <1>1, <1>2, <1>5, CollectedIsUpToDate
<1>7. /\ on'[w] = p /\ held'[w] = Computed(p)
      /\ \A s \in Session \ {w} : on'[s] = on[s] /\ held'[s] = held[s]
  BY <1>1, <1>2, <1>4 DEF SessionsOK
<1>8. SessionsOK'
  BY <1>1, <1>2, <1>3, <1>4, <1>5, <1>6, <1>7 DEF SessionsOK
<1>9. pending' \in [Project -> Nat] /\ \A q \in Project : pending'[q] > 0 => fact[q] # None
  BY <1>1, <1>2 DEF TablesOK
<1>10. on'[Seeder] = on[Seeder] /\ held'[Seeder] = held[Seeder]
  BY <1>4, <1>7
<1>11. ASSUME NEW q \in Project, Coming(q) \/ Kept(q)
       PROVE  Coming(q)' \/ Kept(q)'
  <2>1. /\ Active' = Active
        /\ \A d, r : UpToDate(d, r)' <=> UpToDate(d, r)
    BY <1>3, SameJudgement
  <2>2. Coming(q) => Coming(q)'
    BY <1>2, <1>3, <1>10, <2>1 DEF Coming
  <2>3. CASE q = p
    BY <1>6, <1>7, <2>1, <2>3 DEF Kept
  <2>4. CASE q # p
    <3>1. pending'[q] = pending[q]
      BY <1>1, <1>2, <2>4 DEF TablesOK
    <3>2. \A x \in Worker : on[x] = q => x # w
      BY <1>2, SeedAssumption
    <3>3. Kept(q) => Kept(q)'
      BY <1>3, <1>7, <2>1, <3>1, <3>2 DEF Kept, Session
    <3> QED  BY <1>11, <2>2, <3>3
  <2> QED  BY <2>3, <2>4
<1>12. quiet # "no" /\ on'[Seeder] # None => held'[Seeder] = Computed(on'[Seeder])
  BY <1>1, <1>10 DEF WorkDone
<1> QED  BY <1>2, <1>3, <1>8, <1>9, <1>11, <1>12, SessionStep

LEMMA CollectForSeedIInv ==
  ASSUME IInv, NEW p \in Project, CollectForSeed(p)
  PROVE  IInv'
<1>1. TablesOK /\ SessionsOK /\ WorkDone
  BY DEF IInv
<1>2. /\ p \in todo /\ pending' = pending
      /\ on[Seeder] = None /\ policy # None
      /\ on' = [on EXCEPT ![Seeder] = p] /\ held' = [held EXCEPT ![Seeder] = Computed(p)]
      /\ UNCHANGED <<serving, progress, sheet, tables, requests, history>>
  BY DEF CollectForSeed, Collect
<1>3. /\ UNCHANGED <<phase, high, todo, fact, policy, score, quiet, retuned, unscored,
                     overtaken, unaligned, revived>>
  BY <1>2 DEF progress, tables, history
<1>4. fact[p] # None /\ Seeder \in Session
  BY <1>1, <1>2 DEF SessionsOK, Session
<1>5. /\ Computed(p) \in [fact : Fact, version : Version]
      /\ Computed(p) # None /\ UpToDate(Computed(p), p)
  BY <1>1, <1>2, <1>4, CollectedIsUpToDate
<1>6. /\ on'[Seeder] = p /\ held'[Seeder] = Computed(p)
      /\ \A s \in Session \ {Seeder} : on'[s] = on[s] /\ held'[s] = held[s]
  BY <1>1, <1>2, <1>4 DEF SessionsOK
<1>7. SessionsOK'
  BY <1>1, <1>2, <1>3, <1>4, <1>5, <1>6 DEF SessionsOK
<1>8. pending' \in [Project -> Nat] /\ \A q \in Project : pending'[q] > 0 => fact[q] # None
  BY <1>1, <1>2 DEF TablesOK
<1>9. \A w \in Worker : on'[w] = on[w] /\ held'[w] = held[w]
  BY <1>6, SeedAssumption DEF Session
<1>10. ASSUME NEW q \in Project, Coming(q) \/ Kept(q)
       PROVE  Coming(q)' \/ Kept(q)'
  <2>1. /\ Active' = Active
        /\ \A d, r : UpToDate(d, r)' <=> UpToDate(d, r)
    BY <1>3, SameJudgement
  <2>2. Coming(q) => Coming(q)'
    BY <1>2, <1>3, <1>5, <1>6, <2>1 DEF Coming
  <2>3. Kept(q) => Kept(q)'
    BY <1>2, <1>3, <1>9, <2>1 DEF Kept
  <2> QED  BY <1>10, <2>2, <2>3
<1> QED  BY <1>2, <1>3, <1>6, <1>7, <1>8, <1>10, SessionStep

LEMMA WriteIInv ==
  ASSUME IInv, NEW s \in Session, Write(s)
  PROVE  IInv'
<1> DEFINE p == on[s]
<1>1. TablesOK /\ SessionsOK /\ WorkDone /\ NextIsFree /\ Followed /\ LoopsNeedAReseed
  BY DEF IInv
<1>2. /\ p # None /\ score' = [score EXCEPT ![p] = held[s]]
      /\ on' = [on EXCEPT ![s] = None] /\ held' = [held EXCEPT ![s] = None]
      /\ todo' = IF s = Seeder THEN todo \ {p} ELSE todo
      /\ quiet' = IF s = Seeder \/ score' = score THEN quiet ELSE "no"
      /\ UNCHANGED <<serving, phase, high, sheet, fact, policy, task, link, blocker, seq,
                     pending, drawn, retuned, unaligned, revived>>
  BY DEF Write, requests
<1>3. /\ UpToDate(held[s], p) => /\ overtaken' = overtaken \ {p}
                                /\ unscored' = unscored \ {p}
      /\ ~UpToDate(held[s], p) => /\ overtaken \subseteq overtaken'
                                 /\ (UpToDate(score[p], p) => p \in overtaken')
                                 /\ unscored' = unscored
  BY DEF Write
<1>4. /\ p \in Project /\ held[s] \in [fact : Fact, version : Version]
      /\ held[s] # None /\ fact[p] # None
  BY <1>1, <1>2 DEF SessionsOK
<1> HIDE DEF p
<1>5. /\ score'[p] = held[s] /\ \A q \in Project \ {p} : score'[q] = score[q]
      /\ on'[s] = None /\ \A x \in Session \ {s} : on'[x] = on[x] /\ held'[x] = held[x]
  BY <1>1, <1>2, <1>4 DEF TablesOK, SessionsOK
<1>6. TablesOK'
  BY <1>1, <1>2, <1>4 DEF TablesOK
<1>7. SessionsOK'
  <2>1. Seeder \in Session /\ todo' \subseteq todo
    BY <1>2 DEF Session
  <2>2. on'[Seeder] # None => on'[Seeder] \in todo'
    BY <1>1, <1>2, <1>5, <2>1 DEF SessionsOK
  <2>3. /\ on' \in [Session -> Project \cup {None}]
        /\ held' \in [Session -> {None} \cup [fact : Fact, version : Version]]
        /\ \A x \in Session : on'[x] # None => held'[x] # None /\ fact'[on'[x]] # None
    BY <1>1, <1>2, <1>5 DEF SessionsOK
  <2> QED  BY <1>1, <1>2, <2>1, <2>2, <2>3 DEF SessionsOK
<1>8. NextIsFree'
  BY <1>1, <1>2 DEF NextIsFree
<1>9. /\ Active' = Active /\ Highest' = Highest
      /\ \A q : Computed(q)' = Computed(q)
  BY <1>2, SameRows
<1>10. WorkDone'
  <2>1. CASE quiet' = "no"
    BY <2>1, Busy
  <2>2. CASE quiet' # "no"
    <3>1. quiet' = quiet /\ (s = Seeder \/ score' = score)
      BY <1>2, <2>2
    <3>2. SeededRows => SeededRows'
      BY <1>2, RowsStay
    <3>3. s = Seeder => held[s] = Computed(p) /\ p \in Active
      BY <1>1, <1>2, <2>2, <3>1 DEF WorkDone, SessionsOK, p
    <3>4. \A q \in Active : (Done({"aligned"})' /\ (q \notin todo' \/ quiet = "yes"))
                              => score'[q] = Computed(q)
      <4>1. CASE s = Seeder
        <5> SUFFICES ASSUME NEW q \in Active, Done({"aligned"})',
                            q \notin todo' \/ quiet = "yes"
                     PROVE  score'[q] = Computed(q)
          OBVIOUS
        <5>1. CASE q = p
          BY <1>5, <3>3, <4>1, <5>1
        <5>2. CASE q # p
          BY <1>1, <1>2, <1>5, <3>1, <4>1, <5>2 DEF WorkDone, Done, Active
        <5> QED  BY <5>1, <5>2
      <4>2. CASE s # Seeder
        BY <1>1, <1>2, <3>1, <4>2 DEF WorkDone, Done
      <4> QED  BY <4>1, <4>2
    <3>5. /\ quiet # "no" => todo' \subseteq Active
          /\ quiet # "no" /\ on'[Seeder] # None => held'[Seeder] = Computed(on'[Seeder])
      BY <1>1, <1>2, <1>5 DEF WorkDone, Session
    <3> QED  BY <1>1, <1>2, <1>9, <3>1, <3>2, <3>4, <3>5 DEF WorkDone, Done
  <2> QED  BY <2>1, <2>2
<1>11. Followed'
  <2>1. /\ Active' = Active
        /\ \A d, q : UpToDate(d, q)' <=> UpToDate(d, q)
    BY <1>2, SameJudgement
  <2> SUFFICES ASSUME NEW q \in Project, fact[q] # None
               PROVE  Coming(q)' \/ Kept(q)'
    BY <1>2 DEF Followed
  <2>2. Coming(q) \/ Kept(q)
    BY <1>1 DEF Followed
  <2>3. CASE q # p
    <3>1. Coming(q) => Coming(q)'
      BY <1>2, <1>5, <2>1, <2>3, SeedAssumption DEF Coming, Session, p
    <3>2. \A w \in Worker : on[w] = q => w # s
      BY <2>3 DEF p
    <3>3. Kept(q) => Kept(q)'
      BY <1>2, <1>3, <1>5, <2>1, <2>3, <3>2 DEF Kept, Session
    <3> QED  BY <2>2, <3>1, <3>3
  <2>4. CASE q = p /\ UpToDate(held[s], p)
    BY <1>5, <2>1, <2>4 DEF Kept
  <2>5. CASE q = p /\ ~UpToDate(held[s], p)
    <3>1. Coming(q) => Coming(q)'
      <4>1. CASE s = Seeder
        <5>1. on[Seeder] = q
          BY <2>5, <4>1 DEF p
        <5>2. phase # "aligned" => todo = {}
          BY <1>1 DEF SessionsOK
        <5> QED  BY <1>2, <2>1, <2>5, <4>1, <5>1, <5>2 DEF Coming
      <4>2. CASE s # Seeder
        BY <1>2, <1>5, <2>1, <4>2 DEF Coming, Session
      <4> QED  BY <4>1, <4>2
    <3>2. \A w \in Worker : on[w] = q /\ UpToDate(held[w], q) => w # s
      BY <2>5
    <3>3. Kept(q) => Kept(q)'
      BY <1>2, <1>3, <1>5, <2>1, <2>5, <3>2 DEF Kept, Session
    <3> QED  BY <2>2, <3>1, <3>3
  <2> QED  BY <2>3, <2>4, <2>5
<1> QED  BY <1>1, <1>2, <1>6, <1>7, <1>8, <1>10, <1>11, NoNewEdge DEF IInv

\* A rollback gives the event back.
LEMMA RollbackIInv ==
  ASSUME IInv, NEW w \in Worker, Rollback(w)
  PROVE  IInv'
<1> DEFINE p == on[w]
<1>1. TablesOK /\ SessionsOK /\ WorkDone
  BY DEF IInv
<1>2. /\ p # None /\ pending' = [pending EXCEPT ![p] = @ + 1]
      /\ on' = [on EXCEPT ![w] = None] /\ held' = [held EXCEPT ![w] = None]
      /\ UNCHANGED <<serving, progress, sheet, tables, requests, history>>
  BY DEF Rollback
<1>3. /\ UNCHANGED <<phase, high, todo, fact, policy, score, quiet, retuned, unscored,
                     overtaken, unaligned, revived>>
  BY <1>2 DEF progress, tables, history
<1>4. w \in Session /\ w # Seeder /\ Seeder \in Session
  BY SeedAssumption DEF Session
<1>5. p \in Project /\ fact[p] # None
  BY <1>1, <1>2, <1>4 DEF SessionsOK
<1> HIDE DEF p
<1>6. /\ on'[w] = None /\ \A s \in Session \ {w} : on'[s] = on[s] /\ held'[s] = held[s]
      /\ pending'[p] > 0 /\ \A q \in Project \ {p} : pending'[q] = pending[q]
      /\ pending' \in [Project -> Nat]
      /\ \A q \in Project : pending'[q] > 0 => fact[q] # None
  BY <1>1, <1>2, <1>4, <1>5 DEF SessionsOK, TablesOK
<1>7. SessionsOK'
  BY <1>1, <1>2, <1>3, <1>4, <1>6 DEF SessionsOK
<1>8. on'[Seeder] = on[Seeder] /\ held'[Seeder] = held[Seeder]
  BY <1>4, <1>6
<1>9. ASSUME NEW q \in Project, Coming(q) \/ Kept(q)
      PROVE  Coming(q)' \/ Kept(q)'
  <2>1. /\ Active' = Active
        /\ \A d, r : UpToDate(d, r)' <=> UpToDate(d, r)
    BY <1>3, SameJudgement
  <2>2. Coming(q) => Coming(q)'
    BY <1>2, <1>3, <1>8, <2>1 DEF Coming
  <2>3. CASE q = p
    BY <1>6, <2>3 DEF Kept
  <2>4. CASE q # p
    <3>1. \A x \in Worker : on[x] = q => x # w
      BY <2>4 DEF p
    <3>2. Kept(q) => Kept(q)'
      BY <1>3, <1>6, <2>1, <2>4, <3>1 DEF Kept, Session
    <3> QED  BY <1>9, <2>2, <3>2
  <2> QED  BY <2>3, <2>4
<1>10. quiet # "no" /\ on'[Seeder] # None => held'[Seeder] = Computed(on'[Seeder])
  BY <1>1, <1>8 DEF WorkDone
<1> QED  BY <1>2, <1>3, <1>6, <1>7, <1>9, <1>10, SessionStep

LEMMA DeadLetterIInv ==
  ASSUME IInv, NEW p \in Project, DeadLetter(p)
  PROVE  IInv'
<1>1. TablesOK /\ SessionsOK /\ WorkDone
  BY DEF IInv
<1>2. /\ pending[p] > 0 /\ pending' = [pending EXCEPT ![p] = @ - 1]
      /\ unscored' = unscored \cup {p}
      /\ UNCHANGED <<serving, progress, sheet, tables, on, held, requests, quiet, retuned,
                     overtaken, unaligned, revived>>
  BY DEF DeadLetter, scoring
<1>3. UNCHANGED <<phase, high, todo, fact, policy, score>>
  BY <1>2 DEF progress, tables
<1>4. /\ pending' \in [Project -> Nat]
      /\ \A q \in Project : pending'[q] > 0 => fact[q] # None
      /\ \A q \in Project \ {p} : pending'[q] = pending[q]
  BY <1>1, <1>2 DEF TablesOK
<1>5. SessionsOK'
  BY <1>1, <1>2, <1>3 DEF SessionsOK
<1>6. ASSUME NEW q \in Project, Coming(q) \/ Kept(q)
      PROVE  Coming(q)' \/ Kept(q)'
  <2>1. /\ Active' = Active
        /\ \A d, r : UpToDate(d, r)' <=> UpToDate(d, r)
    BY <1>2, <1>3, SameJudgement
  <2>2. Coming(q) => Coming(q)'
    BY <1>2, <1>3, <2>1 DEF Coming
  <2>3. Kept(q) => Kept(q)'
    BY <1>2, <1>3, <1>4, <2>1 DEF Kept
  <2> QED  BY <1>6, <2>2, <2>3
<1>7. quiet # "no" /\ on'[Seeder] # None => held'[Seeder] = Computed(on'[Seeder])
  BY <1>1, <1>2 DEF WorkDone
<1> QED  BY <1>2, <1>4, <1>5, <1>6, <1>7, SessionStep

-----------------------------------------------------------------------------
LEMMA NothingIInv ==
  ASSUME IInv, UNCHANGED vars
  PROVE  IInv'
<1>1. TablesOK /\ SessionsOK /\ WorkDone /\ Followed
  BY DEF IInv
<1>2. /\ UNCHANGED <<serving, progress, sheet, tables, requests, history, scoring, pending>>
      /\ UNCHANGED <<fact, policy, on, held, todo, phase, score, quiet, retuned, overtaken,
                     unscored, unaligned, revived>>
  BY DEF vars, tables, scoring, history, progress
<1>3. /\ Active' = Active
      /\ \A d, r : UpToDate(d, r)' <=> UpToDate(d, r)
  BY <1>2, SameJudgement
<1>4. \A p \in Project : (Coming(p) => Coming(p)') /\ (Kept(p) => Kept(p)')
  BY <1>2, <1>3 DEF Coming, Kept
<1>5. SessionsOK'
  BY <1>1, <1>2 DEF SessionsOK
<1>6. /\ pending' \in [Project -> Nat] /\ \A p \in Project : pending'[p] > 0 => fact[p] # None
      /\ quiet # "no" /\ on'[Seeder] # None => held'[Seeder] = Computed(on'[Seeder])
  BY <1>1, <1>2 DEF TablesOK, WorkDone
<1> QED  BY <1>2, <1>4, <1>5, <1>6, SessionStep

LEMMA StepIInv == IInv /\ [Next]_vars => IInv'
<1> SUFFICES ASSUME IInv, [Next]_vars PROVE IInv'
  OBVIOUS
<1>1. CASE UNCHANGED vars \/ LoadRefused
  BY <1>1, NothingIInv DEF LoadRefused
<1>2. ASSUME NEW p \in Project, Edit(p) \/ DeadLetter(p) \/ CollectForSeed(p)
      PROVE  IInv'
  BY <1>2, EditIInv, DeadLetterIInv, CollectForSeedIInv
<1>3. ASSUME NEW p \in Project, NEW w \in Worker, CollectForEvent(w, p)
      PROVE  IInv'
  BY <1>3, CollectForEventIInv
<1>4. ASSUME NEW s \in Session, Write(s)
      PROVE  IInv'
  BY <1>4, WriteIInv
<1>5. ASSUME NEW w \in Worker, Rollback(w)
      PROVE  IInv'
  BY <1>5, RollbackIInv
<1>6. ASSUME NEW t \in TaskId, NEW u \in TaskId, AddPrerequisite(t, u)
      PROVE  IInv'
  BY <1>6, AddPrerequisiteIInv
<1>7. ASSUME NEW k \in LinkId, RemovePrerequisite(k)
      PROVE  IInv'
  BY <1>7, RemovePrerequisiteIInv
<1>8. ASSUME NEW n \in Number, RaiseBlocker(n)
      PROVE  IInv'
  BY <1>8, RaiseBlockerIInv
<1> QED  BY <1>1, <1>2, <1>3, <1>4, <1>5, <1>6, <1>7, <1>8, LoadFixturesIInv,
            MeasureIInv, AlignIInv, FinishIInv, StopIInv, RegenerateIInv, PolicyIInv,
            CreateTaskIInv, BlockerIInv
         DEF Next

LEMMA InductiveInvariant == Spec => []IInv
BY InitIInv, StepIInv, PTL DEF Spec

\* Wherever starts are cut off and whatever rows the fixtures bring, the number the
\* sequence draws next is free while anybody is served, but for the rows a seed by
\* hand has put in unaligned and those raised around its alignment
\* (sync_code_sequences).
THEOREM CodesAreFreeAfterAStart == Spec => []NextCodeIsFree
<1>1. IInv => NextCodeIsFree
  BY DEF IInv, NextIsFree, NextCodeIsFree
<1> QED  BY <1>1, InductiveInvariant, PTL

\* What a seed puts back it also scores, and what operators change the worker
\* does, however their unlocked reads and writes interleave: the ways to a score
\* that is not of its rows are an older one written over it, a seed by hand given
\* up, and an event dead-lettered for want of a policy.
THEOREM ScoresFollowEveryStart == Spec => []ScoresFollowTheRows
<1>1. IInv => ScoresFollowTheRows
  <2> SUFFICES ASSUME IInv,
                      NEW p \in Project, p \notin Left \cup unscored \cup overtaken,
                      fact[p] # None, ~Awaited(p)
               PROVE  UpToDate(score[p], p)
    BY DEF ScoresFollowTheRows
  <2>1. TablesOK /\ SessionsOK /\ Followed
    BY DEF IInv
  <2>2. \A w \in Worker : on[w] # p
    BY DEF Awaited, Session
  <2>3. ~(pending[p] > 0)
    BY DEF Awaited
  <2>4. ~Coming(p)
    BY <2>1 DEF Coming, Left, SessionsOK
  <2>5. Kept(p)
    BY <2>1, <2>4 DEF Followed
  <2> QED  BY <2>2, <2>3, <2>5 DEF Kept
<1> QED  BY <1>1, InductiveInvariant, PTL

\* Every loop among prerequisites goes over an edge a reload has put in: the
\* dataset has none, and what is added later is checked against all there is.
THEOREM OnlyReloadsCloseLoops == Spec => []LoopsNeedAReseed
<1>1. IInv => LoopsNeedAReseed
  BY DEF IInv
<1> QED  BY <1>1, InductiveInvariant, PTL

LEMMA QuietStep ==
  IInv /\ [Next]_vars => [quiet = "yes" /\ quiet' = "yes" => UNCHANGED tables]_vars
<1> SUFFICES ASSUME IInv, Next, quiet = "yes", quiet' = "yes" PROVE UNCHANGED tables
  BY DEF vars, tables
<1>1. /\ SeededRows /\ TablesOK /\ SessionsOK /\ seq = Highest
      /\ \A p \in Active : score[p] = Computed(p)
      /\ todo \subseteq Active
      /\ phase = "measured" => high = Highest
      /\ on[Seeder] # None => held[Seeder] = Computed(on[Seeder])
  BY DEF IInv, WorkDone, Done
<1>2. CASE LoadFixtures
  <2> USE <1>2 DEF LoadFixtures
  <2>1. fact' = fact
    BY <1>1 DEF TablesOK, SeededRows, Seeded
  <2>2. blocker' = blocker
    BY <1>1 DEF TablesOK, SeededRows
  <2>3. link' = link
    BY <1>1 DEF TablesOK, SeededRows
  <2>4. policy' = policy /\ task' = task /\ UNCHANGED <<seq, score>>
    BY <1>1 DEF SeededRows
  <2> QED  BY <2>1, <2>2, <2>3, <2>4 DEF tables
<1>3. CASE Align
  BY <1>1, <1>3 DEF Align, Setval, tables
<1>4. ASSUME NEW s \in Session, Write(s)
      PROVE  UNCHANGED tables
  <2>1. score' = score
    <3>1. CASE s = Seeder
      <4>1. /\ on[s] # None /\ on[s] \in Active /\ held[s] = Computed(on[s])
            /\ score' = [score EXCEPT ![on[s]] = held[s]]
        BY <1>1, <1>4, <3>1 DEF Write, SessionsOK
      <4>2. score[on[s]] = held[s] /\ on[s] \in Project
        BY <1>1, <4>1 DEF Active
      <4> QED  BY <1>1, <4>1, <4>2 DEF TablesOK
    <3>2. CASE s # Seeder
      BY <1>4, <3>2 DEF Write
    <3> QED  BY <3>1, <3>2
  <2> QED  BY <1>4, <2>1 DEF Write, tables
<1>5. /\ Measure \/ Finish \/ Kill \/ GiveUp \/ LoadRefused => UNCHANGED tables
      /\ \A p \in Project : DeadLetter(p) \/ CollectForSeed(p) => UNCHANGED tables
      /\ \A w \in Worker, p \in Project : CollectForEvent(w, p) => UNCHANGED tables
      /\ \A w \in Worker : Rollback(w) => UNCHANGED tables
  BY DEF Measure, Finish, Kill, GiveUp, Stop, LoadRefused, DeadLetter, CollectForSeed,
         CollectForEvent, Collect, Rollback, vars
<1>6. Regenerate \/ Change => quiet' = "no"
  BY DEF Regenerate, Change
<1>7. ASSUME NEW n \in Number, RaiseBlocker(n)
      PROVE  UNCHANGED tables
  BY <1>7 DEF RaiseBlocker, tables
<1>8. /\ DeactivatePolicy \/ CreateTask \/ DrawNumber => Change
      /\ \A p \in Project : Edit(p) => Change
      /\ \A v \in Version : ActivatePolicy(v) => Change
      /\ \A t, u \in TaskId : AddPrerequisite(t, u) => Change
      /\ \A k \in LinkId : RemovePrerequisite(k) => Change
      /\ \A n \in Number : ResolveBlocker(n) \/ DeleteBlocker(n) => Change
  BY DEF DeactivatePolicy, CreateTask, DrawNumber, Edit, ActivatePolicy,
         AddPrerequisite, RemovePrerequisite, ResolveBlocker, DeleteBlocker
<1> QED  BY <1>2, <1>3, <1>4, <1>5, <1>6, <1>7, <1>8 DEF Next

\* Seeds that follow a seed find nothing to change, at whatever step the one before
\* was cut off, while nobody else has written a row.
THEOREM ReseedingChangesNothing == Spec => ReseedingIsANoOp
BY InductiveInvariant, QuietStep, PTL DEF Spec, ReseedingIsANoOp

-----------------------------------------------------------------------------
(***************************************************************************)
(* The edges of a dataset lead from its rows to its rows.                  *)
(***************************************************************************)

\* The rows up to a row, of a set of rows; the last row's are all of them.
UpTo(rows, k) == {j \in rows : j <= k}

LEMMA RowsAreFinite ==
  ASSUME NEW N \in Nat, NEW rows \in SUBSET (1..N)
  PROVE  IsFiniteSet(rows) /\ Cardinality(rows) \in Nat
<1>1. IsFiniteSet(1..N)
  BY FS_Interval
<1>2. IsFiniteSet(rows)
  BY <1>1, FS_Subset
<1> QED  BY <1>2, FS_CardinalityType

\* Passing one row adds it or nothing.
LEMMA OneRowFurther ==
  ASSUME NEW N \in Nat, NEW rows \in SUBSET (1..N), NEW k \in 1..N
  PROVE  /\ Cardinality(UpTo(rows, k)) \in Nat
         /\ Cardinality(UpTo(rows, k - 1)) \in Nat
         /\ k \notin rows => Cardinality(UpTo(rows, k)) = Cardinality(UpTo(rows, k - 1))
         /\ k \in rows => Cardinality(UpTo(rows, k)) = Cardinality(UpTo(rows, k - 1)) + 1
<1> DEFINE less == UpTo(rows, k - 1)
<1>1. IsFiniteSet(rows)
  BY RowsAreFinite
<1>2. IsFiniteSet(less) /\ less \subseteq rows /\ k \notin less
  <2>1. less \subseteq rows
    BY DEF UpTo
  <2>2. k \notin less
    BY DEF UpTo
  <2> QED  BY <1>1, <2>1, <2>2, FS_Subset
<1>3. UpTo(rows, k) = IF k \in rows THEN less \cup {k} ELSE less
  <2>1. \A j \in rows : j <= k <=> j <= k - 1 \/ j = k
    OBVIOUS
  <2> QED  BY <2>1 DEF UpTo
<1> HIDE DEF less
<1>4. Cardinality(less \cup {k}) = Cardinality(less) + 1 /\ Cardinality(less) \in Nat
  BY <1>2, FS_AddElement, FS_CardinalityType
<1> QED  BY <1>3, <1>4 DEF less

\* Every number up to how many they are is the place of one of the rows.
LEMMA EveryPlaceIsTaken ==
  ASSUME NEW N \in Nat, NEW rows \in SUBSET (1..N), NEW n \in 1..Cardinality(rows)
  PROVE  \E i \in rows : Cardinality({j \in rows : j <= i}) = n
<1> DEFINE reached == {k \in 0..N : Cardinality(UpTo(rows, k)) >= n}
<1>1. UpTo(rows, N) = rows /\ UpTo(rows, 0) = {}
  <2>1. \A j \in rows : j <= N /\ ~(j <= 0)
    OBVIOUS
  <2> QED  BY <2>1 DEF UpTo
<1>2. reached \subseteq Nat /\ reached # {}
  <2>1. Cardinality(rows) \in Nat
    BY RowsAreFinite
  <2>2. N \in reached
    BY <1>1, <2>1
  <2> QED  BY <2>2
<1>3. PICK k \in reached : \A m \in reached : <<m, k>> \notin OpToRel(<, Nat)
  BY <1>2, WFMin, NatLessThanWellFounded
<1>4. \A m \in reached : ~(m < k)
  BY <1>2, <1>3 DEF OpToRel
<1>5. k \in 1..N
  <2>1. Cardinality(UpTo(rows, 0)) = 0
    BY <1>1, FS_EmptySet
  <2>2. 0 \notin reached
    BY <2>1
  <2> QED  BY <2>2
<1>6. k - 1 \in 0..N /\ k - 1 \notin reached
  BY <1>4, <1>5
<1>7. k \in rows /\ Cardinality(UpTo(rows, k)) = n
  <2>1. /\ Cardinality(UpTo(rows, k)) >= n /\ ~(Cardinality(UpTo(rows, k - 1)) >= n)
        /\ n \in Nat
    BY <1>6
  <2> HIDE DEF reached
  <2> QED  BY <1>5, <2>1, OneRowFurther
<1> QED  BY <1>7 DEF UpTo

LEMMA LinksOfADataset ==
  ASSUME NEW rows \in Seq(Row), NEW n \in DOMAIN Waiting(rows)
  PROVE  Link(rows, n) \in (DOMAIN rows) \X (DOMAIN rows \cup {Prose})
<1>1. DOMAIN rows = 1..Len(rows) /\ Len(rows) \in Nat
  OBVIOUS
<1>2. Waiting(rows)[n] \in DOMAIN rows
  <2> DEFINE found == Needing(rows)
  <2>1. /\ n \in 1..Cardinality(found)
        /\ Waiting(rows)[n] = CHOOSE i \in found : Cardinality({j \in found : j <= i}) = n
    BY DEF Waiting
  <2>2. found \in SUBSET (1..Len(rows))
    BY <1>1 DEF Needing
  <2> HIDE DEF found
  <2>3. \E i \in found : Cardinality({j \in found : j <= i}) = n
    BY <1>1, <2>1, <2>2, EveryPlaceIsTaken
  <2>4. Waiting(rows)[n] \in found
    BY <2>1, <2>3
  <2> QED  BY <1>1, <2>2, <2>4
<1>3. ASSUME NEW i PROVE Target(rows, i) \in DOMAIN rows \cup {Prose}
  <2> DEFINE found == Titled(rows, rows[i].project, rows[i].needs)
  <2>1. found \in SUBSET (1..Len(rows))
    BY <1>1 DEF Titled
  <2>2. Target(rows, i) =
          IF found = {} THEN Prose ELSE CHOOSE j \in found : \A k \in found : k <= j
    BY DEF Target
  <2> HIDE DEF found
  <2> QED  BY <1>1, <2>1, <2>2, LastOf
<1>4. Target(rows, Waiting(rows)[n]) \in DOMAIN rows \cup {Prose}
  BY <1>3
<1> QED  BY <1>2, <1>4 DEF Link

-----------------------------------------------------------------------------
(***************************************************************************)
(* Types.                                                                  *)
(***************************************************************************)

\* The edges as rows; what they name is there.
LinksOK(table, tasks) ==
  \A k \in LinkId : table[k] # None =>
    /\ table[k] \in TaskId \X (TaskId \cup {Prose})
    /\ table[k][1] \in tasks /\ table[k][2] \in tasks \cup {Prose}

\* TypeOK without the functions of TablesOK.
Rest ==
  /\ sheet \in Seq(Row) /\ Len(sheet) <= TaskLimit
  /\ task \subseteq TaskId /\ LinksOK(link, task)
  /\ seq <= CodeLimit /\ high <= CodeLimit
  /\ edits \in 0..EditLimit /\ retuned \in BOOLEAN
  /\ unscored \subseteq Project /\ overtaken \subseteq Project
  /\ unaligned \subseteq Number /\ revived \subseteq LinkId

LEMMA TypesTogether == IInv /\ Rest => TypeOK
<1> SUFFICES ASSUME IInv, Rest PROVE TypeOK
  OBVIOUS
<1>1. \A l \in LinksOf(link) : l[1] \in task /\ l[2] \in task \cup {Prose}
  BY DEF Rest, LinksOK, LinksOf
<1>2. link \in [LinkId -> {None} \cup (TaskId \X (TaskId \cup {Prose}))]
  BY DEF IInv, TablesOK, Rest, LinksOK
<1>3. seq \in 0..CodeLimit /\ high \in 0..CodeLimit
  BY LimitsAreNatural DEF IInv, TablesOK, Rest
<1>4. todo \subseteq Project /\ drawn \subseteq Number
  BY DEF IInv, SessionsOK, NextIsFree
<1> QED  BY <1>1, <1>2, <1>3, <1>4 DEF TypeOK, IInv, TablesOK, SessionsOK, Rest

LEMMA InitRest == Init => Rest
<1> SUFFICES ASSUME Init PROVE Rest
  OBVIOUS
<1> USE DEF Init
<1>1. sheet \in Seq(Row) /\ Len(sheet) <= TaskLimit
  <2>1. Sheet \in Seq(Row) /\ Len(Sheet) \in Nat
    BY SheetAssumption
  <2> QED  BY <2>1, LimitsAreNatural
<1>2. LinksOK(link, task)
  BY DEF LinksOK
<1>3. task \subseteq TaskId /\ seq <= CodeLimit /\ high <= CodeLimit /\ edits \in 0..EditLimit
  BY LimitsAreNatural
<1> QED  BY <1>1, <1>2, <1>3 DEF Rest

LEMMA LoadFixturesRest ==
  ASSUME IInv, Rest, LoadFixtures
  PROVE  Rest'
<1> USE DEF LoadFixtures
<1>1. DOMAIN sheet \subseteq TaskId /\ task' = task \cup DOMAIN sheet
  BY LimitsAreNatural DEF Rest, TaskId
<1>2. ASSUME NEW k \in LinkId, link'[k] # None
      PROVE  /\ link'[k] \in TaskId \X (TaskId \cup {Prose})
             /\ link'[k][1] \in task' /\ link'[k][2] \in task' \cup {Prose}
  <2>1. CASE k \in DOMAIN Waiting(sheet)
    <3>1. link'[k] = Link(sheet, k)
      BY <2>1
    <3>2. Link(sheet, k) \in (DOMAIN sheet) \X (DOMAIN sheet \cup {Prose})
      BY <2>1, LinksOfADataset DEF Rest
    <3> HIDE DEF LoadFixtures
    <3> QED  BY <1>1, <3>1, <3>2
  <2>2. CASE k \notin DOMAIN Waiting(sheet)
    <3>1. link'[k] = link[k]
      BY <2>2
    <3> HIDE DEF LoadFixtures
    <3> QED  BY <1>1, <1>2, <3>1 DEF Rest, LinksOK
  <2> QED  BY <2>1, <2>2
<1>3. LinksOK(link', task')
  BY <1>2 DEF LinksOK
<1>4. task' \subseteq TaskId /\ revived' \subseteq LinkId /\ unaligned' \subseteq Number
  BY <1>1 DEF Rest
<1> QED  BY <1>3, <1>4 DEF Rest, LinksOK, requests

\* The sequence is set to the number of a blocker, or to none.
LEMMA AlignmentRest ==
  ASSUME IInv, Rest, Measure \/ Align
  PROVE  Rest'
<1>1. Highest <= CodeLimit
  <2>1. Stored \subseteq Number /\ \A n \in Number : n <= CodeLimit
    BY LimitsAreNatural DEF Stored, Number
  <2>2. Stored # {} => Highest \in Stored
    BY <2>1, LastNumber DEF Highest
  <2> QED  BY <2>1, <2>2, LimitsAreNatural DEF Highest
<1>2. CASE Measure
  BY <1>1, <1>2 DEF Rest, LinksOK, Measure, tables, requests, history
<1>3. CASE Align
  BY <1>3 DEF Rest, LinksOK, Align, Setval, requests
<1> QED  BY <1>2, <1>3

\* An edge leads between tasks that are known.
LEMMA AddPrerequisiteRest ==
  ASSUME IInv, Rest, NEW t \in TaskId, NEW u \in TaskId, AddPrerequisite(t, u)
  PROVE  Rest'
<1> USE DEF AddPrerequisite, Change, Known, progress
<1>1. PICK k \in LinkId : link' = [link EXCEPT ![k] = <<t, u>>]
  OBVIOUS
<1>2. /\ \A j \in LinkId : link'[j] = IF j = k THEN <<t, u>> ELSE link[j]
      /\ t \in task /\ u \in task /\ task' = task
  BY <1>1 DEF IInv, TablesOK
<1>3. LinksOK(link', task')
  BY <1>2 DEF Rest, LinksOK
<1>4. edits' \in 0..EditLimit
  BY LimitsAreNatural DEF Rest
<1> QED  BY <1>3, <1>4 DEF Rest, LinksOK

LEMMA RemovePrerequisiteRest ==
  ASSUME IInv, Rest, NEW k \in LinkId, RemovePrerequisite(k)
  PROVE  Rest'
<1> USE DEF RemovePrerequisite, Change, progress
<1>1. \A j \in LinkId : link'[j] = IF j = k THEN None ELSE link[j]
  BY DEF IInv, TablesOK
<1>2. LinksOK(link', task')
  BY <1>1 DEF Rest, LinksOK
<1>3. edits' \in 0..EditLimit
  BY LimitsAreNatural DEF Rest
<1> QED  BY <1>2, <1>3 DEF Rest, LinksOK

LEMMA RegenerateRest ==
  ASSUME IInv, Rest, Regenerate
  PROVE  Rest'
<1> USE DEF Regenerate, tables, progress
<1>1. PICK row \in NewRow : sheet' = Append(sheet, row)
  OBVIOUS
<1>2. sheet' \in Seq(Row) /\ Len(sheet') <= TaskLimit
  BY <1>1, SheetAssumption, LimitsAreNatural DEF Rest
<1>3. edits' \in 0..EditLimit
  BY LimitsAreNatural DEF Rest
<1> QED  BY <1>2, <1>3 DEF Rest, LinksOK

\* What leaves the edges alone, and takes no task away.
LEMMA OtherRest ==
  ASSUME IInv, Rest, UNCHANGED <<sheet, link, high>>,
         task' \subseteq TaskId, task \subseteq task', seq' <= CodeLimit,
         edits' = edits \/ Change, retuned' \in BOOLEAN,
         unscored' \subseteq Project, overtaken' \subseteq Project,
         unaligned' \subseteq Number, revived' \subseteq LinkId
  PROVE  Rest'
<1>1. edits' \in 0..EditLimit
  BY LimitsAreNatural DEF Rest, Change
<1>2. LinksOK(link', task')
  BY DEF Rest, LinksOK
<1> QED  BY <1>1, <1>2 DEF Rest, LinksOK

LEMMA StepRest == IInv /\ Rest /\ [Next]_vars => Rest'
<1> SUFFICES ASSUME IInv, Rest, [Next]_vars PROVE Rest'
  OBVIOUS
<1>1. /\ task \subseteq TaskId /\ seq <= CodeLimit /\ seq \in Nat /\ retuned \in BOOLEAN
      /\ unscored \subseteq Project /\ overtaken \subseteq Project /\ todo \subseteq Project
      /\ unaligned \subseteq Number /\ revived \subseteq LinkId
  BY DEF IInv, TablesOK, SessionsOK, Rest
<1> DEFINE Untouched == UNCHANGED <<sheet, link, high, task, seq, revived>>
<1>2. CASE UNCHANGED vars \/ LoadRefused
  BY <1>1, <1>2, OtherRest DEF vars, progress, tables, requests, history, LoadRefused
<1>3. CASE Finish \/ Kill \/ GiveUp
  <2>1. Untouched /\ UNCHANGED <<edits, retuned, overtaken, unaligned>>
    BY <1>3 DEF Finish, Kill, GiveUp, Stop, tables, requests
  <2>2. unscored' \subseteq Project
    BY <1>1, <1>3 DEF Finish, Kill, GiveUp, Left, Active
  <2> QED  BY <1>1, <2>1, <2>2, OtherRest
<1>4. CASE DeactivatePolicy \/ \E v \in Version : ActivatePolicy(v)
  <2>1. /\ Untouched /\ UNCHANGED <<unscored, overtaken, unaligned>>
        /\ Change /\ retuned' \in BOOLEAN
    BY <1>1, <1>4 DEF DeactivatePolicy, ActivatePolicy, Change, progress
  <2> QED  BY <1>1, <2>1, OtherRest
<1>5. CASE CreateTask
  <2>1. /\ UNCHANGED <<sheet, link, high, seq, revived, retuned, unscored, overtaken,
                       unaligned>>
        /\ Change /\ task' \subseteq TaskId /\ task \subseteq task'
    BY <1>1, <1>5 DEF CreateTask, Change, progress
  <2> QED  BY <1>1, <2>1, OtherRest
<1>6. CASE DrawNumber \/ \E n \in Number : ResolveBlocker(n) \/ DeleteBlocker(n)
  <2>1. /\ UNCHANGED <<sheet, link, high, task, revived, retuned, unscored, overtaken,
                       unaligned>>
        /\ Change
    BY <1>6 DEF DrawNumber, ResolveBlocker, DeleteBlocker, Change, progress
  <2>2. seq' <= CodeLimit
    BY <1>1, <1>6, LimitsAreNatural DEF DrawNumber, ResolveBlocker, DeleteBlocker
  <2> QED  BY <1>1, <2>1, <2>2, OtherRest
<1>7. ASSUME NEW n \in Number, RaiseBlocker(n)
      PROVE  Rest'
  <2>1. Untouched /\ UNCHANGED <<edits, retuned, unscored, overtaken>>
    BY <1>7 DEF RaiseBlocker, progress
  <2>2. unaligned' \subseteq Number
    BY <1>1, <1>7 DEF RaiseBlocker
  <2> QED  BY <1>1, <2>1, <2>2, OtherRest
<1>8. ASSUME NEW p \in Project, Edit(p)
      PROVE  Rest'
  <2>1. /\ Untouched /\ Change /\ UNCHANGED <<retuned, unscored, overtaken, unaligned>>
    BY <1>8 DEF Edit, Change, progress
  <2> QED  BY <1>1, <2>1, OtherRest
<1>9. ASSUME NEW s \in Session, Write(s)
      PROVE  Rest'
  <2>1. Untouched /\ UNCHANGED <<edits, retuned, unaligned>>
    BY <1>9 DEF Write, requests
  <2>2. on[s] \in Project
    BY <1>9 DEF Write, IInv, SessionsOK
  <2>3. unscored' \subseteq Project /\ overtaken' \subseteq Project
    BY <1>1, <1>9, <2>2 DEF Write
  <2> QED  BY <1>1, <2>1, <2>3, OtherRest
<1>10. ASSUME NEW p \in Project, DeadLetter(p)
       PROVE  Rest'
  <2>1. /\ Untouched /\ UNCHANGED <<edits, retuned, overtaken, unaligned>>
        /\ unscored' \subseteq Project
    BY <1>1, <1>10 DEF DeadLetter, progress, tables, requests
  <2> QED  BY <1>1, <2>1, OtherRest
<1>11. ASSUME UNCHANGED <<progress, sheet, tables, requests, history>>
       PROVE  Rest'
  BY <1>1, <1>11, OtherRest DEF progress, tables, requests, history
<1>12. /\ \A p \in Project : CollectForSeed(p)
            => UNCHANGED <<progress, sheet, tables, requests, history>>
       /\ \A p \in Project, w \in Worker : CollectForEvent(w, p)
            => UNCHANGED <<progress, sheet, tables, requests, history>>
       /\ \A w \in Worker : Rollback(w)
            => UNCHANGED <<progress, sheet, tables, requests, history>>
  BY DEF CollectForSeed, CollectForEvent, Collect, Rollback
<1> QED  BY <1>2, <1>3, <1>4, <1>5, <1>6, <1>7, <1>8, <1>9, <1>10, <1>11, <1>12,
            LoadFixturesRest, AlignmentRest, RegenerateRest, AddPrerequisiteRest,
            RemovePrerequisiteRest
         DEF Next

\* What starts, operators and the worker write keeps its type, and an edge leads
\* from a task that exists to one that exists, whatever a dataset names and in
\* whatever order its rows are (_dependency_index, build_work).
THEOREM StartupTypeCorrect == Spec => []TypeOK
BY InductiveInvariant, InitRest, StepRest, TypesTogether, PTL DEF Spec

-----------------------------------------------------------------------------
(***************************************************************************)
(* When a restart is safe: what SafeOnEveryRestart lacks is that operators *)
(* may remove an edge of the dataset, and developers change the dataset.   *)
(***************************************************************************)

\* The dataset is the first one, and its edges, once loaded, are not removed.
SeedIsKept ==
  /\ sheet = Sheet
  /\ \/ ~serving /\ phase = "idle" /\ \A k \in LinkId : link[k] = None
     \/ \A n \in DOMAIN Waiting(Sheet) : link[n] # None

\* The edges of the dataset are at their places, no row further on repeats one,
\* and no start has put one in again.
SeedInPlace ==
  /\ revived = {}
  /\ \A n \in DOMAIN Waiting(Sheet) : link[n] \in {None, Link(Sheet, n)}
  /\ \A n \in DOMAIN Waiting(Sheet), k \in LinkId :
       k > n /\ link[k] = Link(Sheet, n) => Link(Sheet, n)[2] = Prose

LEMMA SeedPlaces ==
  /\ Len(Waiting(Sheet)) \in Nat
  /\ DOMAIN Waiting(Sheet) = 1..Len(Waiting(Sheet))
  /\ DOMAIN Waiting(Sheet) \subseteq LinkId
<1> DEFINE many == Cardinality(Needing(Sheet))
<1>1. DOMAIN Sheet = 1..Len(Sheet) /\ Len(Sheet) \in Nat
  BY SheetAssumption
<1>2. Needing(Sheet) \in SUBSET (1..Len(Sheet))
  BY <1>1 DEF Needing
<1>3. many \in Nat
  BY <1>1, <1>2, RowsAreFinite
<1>4. Waiting(Sheet) = [n \in 1..many |->
        CHOOSE i \in Needing(Sheet) : Cardinality({j \in Needing(Sheet) : j <= i}) = n]
  BY DEF Waiting
<1> HIDE DEF many
<1>5. DOMAIN Waiting(Sheet) = 1..many
  BY <1>4
<1>6. Len(Waiting(Sheet)) = many
  BY <1>3, <1>4
<1> QED  BY <1>3, <1>5, <1>6, LimitsAreNatural DEF LinkId

\* Each row that needs another has one place.
LEMMA PlacesDiffer ==
  ASSUME NEW n \in DOMAIN Waiting(Sheet), NEW k \in DOMAIN Waiting(Sheet),
         Link(Sheet, k) = Link(Sheet, n)
  PROVE  k = n
<1> DEFINE found == Needing(Sheet)
           place(i) == Cardinality({j \in found : j <= i})
<1>1. DOMAIN Sheet = 1..Len(Sheet) /\ Len(Sheet) \in Nat
  BY SheetAssumption
<1>2. found \in SUBSET (1..Len(Sheet))
  BY <1>1 DEF Needing
<1>3. ASSUME NEW m \in DOMAIN Waiting(Sheet)
      PROVE  place(Waiting(Sheet)[m]) = m
  <2>1. /\ m \in 1..Cardinality(found)
        /\ Waiting(Sheet)[m] = CHOOSE i \in found : place(i) = m
    BY DEF Waiting
  <2> HIDE DEF found
  <2>2. \E i \in found : place(i) = m
    BY <1>1, <1>2, <2>1, EveryPlaceIsTaken
  <2> QED  BY <2>1, <2>2
<1>4. Waiting(Sheet)[k] = Waiting(Sheet)[n]
  BY DEF Link
<1> HIDE DEF place
<1>5. place(Waiting(Sheet)[k]) = k /\ place(Waiting(Sheet)[n]) = n
  BY <1>3
<1> QED  BY <1>4, <1>5

\* An edge of the dataset names tasks, so it is not None.
LEMMA SeedIsAnEdge ==
  ASSUME NEW n \in DOMAIN Waiting(Sheet)
  PROVE  Link(Sheet, n) # None
<1>1. Link(Sheet, n) \in (DOMAIN Sheet) \X (DOMAIN Sheet \cup {Prose})
  BY LinksOfADataset, SheetAssumption
<1>2. DOMAIN Sheet \subseteq TaskId
  BY SheetAssumption, LimitsAreNatural DEF TaskId
<1>3. Link(Sheet, n) \in TaskId \X (TaskId \cup {Prose})
  BY <1>1, <1>2
<1> QED  BY <1>3, SeedAssumption

LEMMA InitSeedInPlace == Init => SeedInPlace
BY SeedPlaces, SeedIsAnEdge DEF Init, SeedInPlace

LEMMA LoadFixturesSeed ==
  ASSUME IInv, SeedInPlace, SeedIsKept, LoadFixtures
  PROVE  SeedInPlace'
<1>1. /\ sheet = Sheet
      /\ \A k \in LinkId : link'[k] = IF k \in DOMAIN Waiting(Sheet) THEN Link(Sheet, k)
                                      ELSE link[k]
      /\ revived' = IF \A k \in LinkId : link[k] = None THEN {}
                    ELSE revived \cup {k \in LinkId : link'[k] # link[k]}
  BY DEF LoadFixtures, SeedIsKept
<1>2. revived' = {}
  <2>1. CASE \A k \in LinkId : link[k] = None
    BY <1>1, <2>1
  <2>2. CASE \E k \in LinkId : link[k] # None
    <3>1. \A n \in DOMAIN Waiting(Sheet) : link[n] = Link(Sheet, n)
      BY <2>2 DEF SeedIsKept, SeedInPlace
    <3>2. \A k \in LinkId : link'[k] = link[k]
      BY <1>1, <3>1
    <3> QED  BY <1>1, <2>2, <3>2 DEF SeedInPlace
  <2> QED  BY <2>1, <2>2
<1>3. \A n \in DOMAIN Waiting(Sheet) : link'[n] = Link(Sheet, n)
  BY <1>1, SeedPlaces
<1>4. ASSUME NEW n \in DOMAIN Waiting(Sheet), NEW k \in LinkId, k > n,
             link'[k] = Link(Sheet, n)
      PROVE  Link(Sheet, n)[2] = Prose
  <2>1. CASE k \in DOMAIN Waiting(Sheet)
    <3>1. k = n
      BY <1>3, <1>4, <2>1, PlacesDiffer
    <3> QED  BY <1>4, <3>1, SeedPlaces
  <2>2. CASE k \notin DOMAIN Waiting(Sheet)
    <3>1. link[k] = Link(Sheet, n)
      BY <1>1, <1>4, <2>2
    <3> QED  BY <1>4, <3>1 DEF SeedInPlace
  <2> QED  BY <2>1, <2>2
<1> QED  BY <1>2, <1>3, <1>4 DEF SeedInPlace

\* A prerequisite is added behind the edges of the dataset, which are there to be
\* seen, and is none of them.
LEMMA AddPrerequisiteSeed ==
  ASSUME IInv, SeedInPlace, SeedIsKept, NEW t \in TaskId, NEW u \in TaskId,
         AddPrerequisite(t, u)
  PROVE  SeedInPlace'
<1>1. PICK k \in LinkId : k > Len(Waiting(sheet)) /\ link' = [link EXCEPT ![k] = <<t, u>>]
  BY DEF AddPrerequisite
<1>2. /\ serving /\ sheet = Sheet /\ revived' = revived
      /\ <<t, u>> \notin Edges(link)
  BY DEF AddPrerequisite, Change, SeedIsKept
<1>3. /\ \A n \in DOMAIN Waiting(Sheet) : link[n] # None
      /\ \A n \in DOMAIN Waiting(Sheet) : link[n] = Link(Sheet, n)
  BY <1>2 DEF SeedIsKept, SeedInPlace
<1>4. \A j \in LinkId : link'[j] = IF j = k THEN <<t, u>> ELSE link[j]
  BY <1>1 DEF IInv, TablesOK
<1>5. \A n \in DOMAIN Waiting(Sheet) : n \in LinkId /\ n # k
  BY <1>1, <1>2, SeedPlaces
<1>6. \A n \in DOMAIN Waiting(Sheet) : link'[n] = Link(Sheet, n)
  BY <1>3, <1>4, <1>5
<1>7. ASSUME NEW n \in DOMAIN Waiting(Sheet), NEW j \in LinkId, j > n,
             link'[j] = Link(Sheet, n)
      PROVE  Link(Sheet, n)[2] = Prose
  <2>1. CASE j # k
    BY <1>4, <1>7, <2>1 DEF SeedInPlace
  <2>2. CASE j = k
    <3>1. link[n] = <<t, u>> /\ n \in LinkId /\ link[n] # None
      BY <1>3, <1>4, <1>5, <1>7, <2>2
    <3>2. <<t, u>> \in LinksOf(link)
      BY <3>1 DEF LinksOf
    <3>3. <<t, u>>[2] = Prose
      BY <1>2, <3>2 DEF Edges
    <3> QED  BY <1>4, <1>7, <2>2, <3>3
  <2> QED  BY <2>1, <2>2
<1> QED  BY <1>2, <1>6, <1>7 DEF SeedInPlace

LEMMA StepSeed == IInv /\ SeedInPlace /\ SeedIsKept /\ [Next]_vars => SeedInPlace'
<1> SUFFICES ASSUME IInv, SeedInPlace, SeedIsKept, [Next]_vars PROVE SeedInPlace'
  OBVIOUS
<1>1. CASE UNCHANGED <<link, revived>>
  BY <1>1 DEF SeedInPlace
<1>2. ASSUME NEW k \in LinkId, RemovePrerequisite(k)
      PROVE  SeedInPlace'
  <2>1. revived' = {} /\ \A j \in LinkId : link'[j] = IF j = k THEN None ELSE link[j]
    BY <1>2 DEF RemovePrerequisite, SeedInPlace, IInv, TablesOK
  <2>2. \A n \in DOMAIN Waiting(Sheet) : link'[n] \in {None, Link(Sheet, n)}
    BY <2>1, SeedPlaces DEF SeedInPlace
  <2>3. \A n \in DOMAIN Waiting(Sheet), j \in LinkId :
          j > n /\ link'[j] = Link(Sheet, n) => Link(Sheet, n)[2] = Prose
    BY <2>1, SeedIsAnEdge DEF SeedInPlace
  <2> QED  BY <2>1, <2>2, <2>3 DEF SeedInPlace
<1>3. /\ UNCHANGED vars => UNCHANGED <<link, revived>>
      /\ LoadRefused \/ Measure \/ Align \/ Finish \/ Kill \/ GiveUp \/ Regenerate
           => UNCHANGED <<link, revived>>
      /\ DeactivatePolicy \/ CreateTask \/ DrawNumber => UNCHANGED <<link, revived>>
      /\ \A p \in Project : Edit(p) \/ DeadLetter(p) \/ CollectForSeed(p)
           => UNCHANGED <<link, revived>>
      /\ \A w \in Worker, p \in Project : CollectForEvent(w, p)
           => UNCHANGED <<link, revived>>
      /\ \A s \in Session : Write(s) => UNCHANGED <<link, revived>>
      /\ \A w \in Worker : Rollback(w) => UNCHANGED <<link, revived>>
      /\ \A v \in Version : ActivatePolicy(v) => UNCHANGED <<link, revived>>
      /\ \A n \in Number : RaiseBlocker(n) \/ ResolveBlocker(n) \/ DeleteBlocker(n)
           => UNCHANGED <<link, revived>>
  BY DEF vars, tables, history, LoadRefused, Measure, Align, Finish, Kill, GiveUp, Stop,
         Regenerate, DeactivatePolicy, CreateTask, DrawNumber, Edit, DeadLetter,
         CollectForSeed, CollectForEvent, Collect, Write, Rollback, ActivatePolicy,
         RaiseBlocker, ResolveBlocker, DeleteBlocker
<1> QED  BY <1>1, <1>2, <1>3, LoadFixturesSeed, AddPrerequisiteSeed DEF Next

\* The indexes of the edges refuse no start, and the prerequisites are acyclic.
EdgesAreSound == ~EdgeTaken /\ ~Loop(Edges(link))

\* "Safe on every restart" (docker-entrypoint.sh) is so of the edges of a dataset
\* that nobody changes and whose prerequisites nobody removes, whatever operators
\* add to them: loaddata then finds each edge where it left it.
THEOREM UntouchedSeedsReload == Spec /\ []SeedIsKept => []EdgesAreSound
<1>1. IInv /\ SeedInPlace /\ SeedIsKept => EdgesAreSound
  <2> SUFFICES ASSUME IInv, SeedInPlace, SeedIsKept PROVE EdgesAreSound
    OBVIOUS
  <2>1. ~EdgeTaken
    BY DEF EdgeTaken, SeedInPlace, SeedIsKept
  <2>2. [k \in LinkId |-> IF k \in revived THEN None ELSE link[k]] = link
    BY DEF SeedInPlace, IInv, TablesOK
  <2>3. ~Loop(Edges(link))
    BY <2>2 DEF IInv, LoopsNeedAReseed
  <2> QED  BY <2>1, <2>3 DEF EdgesAreSound
<1> QED  BY <1>1, InductiveInvariant, InitSeedInPlace, StepSeed, PTL DEF Spec
=============================================================================
