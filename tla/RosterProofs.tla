---------------------------- MODULE RosterProofs ----------------------------
(***************************************************************************)
(* Theorems about Roster for any people, roles, sessions and bounds.       *)
(***************************************************************************)
EXTENDS Roster, TLAPS

\* Who a request is served for; people are never deleted and stay ops leads.
ActorsLead ==
  \A s \in Session : pc[s] # "idle" =>
    /\ actor[s] \in Code /\ job[s] \in Job
    /\ Exists(actor[s]) /\ member[actor[s]].lead

\* A locked row is as its holder has read it, and has one holder.
LockedRows ==
  \A s \in Session : pc[s] = "locked" =>
    /\ job[s].op \in {"update", "password"}
    /\ Exists(job[s].code) /\ seen[s] = member[job[s].code]
OneHolder ==
  \A s, x \in Session :
    pc[s] = "locked" /\ pc[x] = "locked" /\ job[s].code = job[x].code => s = x

\* A code that has been computed for a person, and a place for a role.
Minted ==
  \A s \in Session : pc[s] = "minted" =>
    /\ job[s].op = "create" => minted[s] \in Code
    /\ job[s].op = "role" =>
         /\ place[s].order \in Nat /\ place[s].after \subseteq Created
         /\ \A q \in place[s].after : order[q] < place[s].order
    /\ job[s].op \in {"create", "role"}

PickerGrows == before \subseteq Created \X Created

IInv ==
  /\ TypeOK
  /\ ActorsLead /\ LockedRows /\ OneHolder /\ Minted /\ PickerGrows
  /\ LockoutNeedsARace /\ RolesKeepTheirPlace

-----------------------------------------------------------------------------
LEMMA MemberParts ==
  /\ \A m \in Member :
       /\ m.label \in Label /\ m.role \in Role \cup {None} /\ m.capacity \in Points
       /\ m.active \in BOOLEAN /\ m.lead \in BOOLEAN /\ m.password \in BOOLEAN
  /\ \A l \in Label, r \in Role \cup {None}, c \in Points, a, d, w \in BOOLEAN :
       [label |-> l, role |-> r, capacity |-> c, active |-> a, lead |-> d,
        password |-> w] \in Member
BY DEF Member

LEMMA JobParts ==
  ASSUME NEW j \in Job
  PROVE  /\ j.op \in {"create", "update", "password", "role"}
         /\ j.op = "create" => j.row \in NewMember
         /\ j.op = "update" => j.code \in Code /\ j.change \in Sent
         /\ j.op = "password" => j.code \in Code
         /\ j.op = "role" => j.code \in Role
BY BodiesAssumption DEF Job

\* The row of an update, field by field.
Written(s) ==
  [f \in DOMAIN seen[s] |-> IF f \in Moves(s) THEN job[s].change[f] ELSE seen[s][f]]

LEMMA WrittenRow ==
  ASSUME NEW s \in Session, seen[s] \in Member, job[s].change \in Sent
  PROVE  /\ Written(s) \in Member
         /\ Written(s).lead = seen[s].lead
         /\ Written(s).active = seen[s].active \/ Written(s).active = job[s].change.active
<1> DEFINE m == seen[s]
           ch == job[s].change
           w == Written(s)
<1>1. DOMAIN m = {"label", "role", "capacity", "active", "lead", "password"}
  BY DEF Member
<1>2. /\ w = [f \in {"label", "role", "capacity", "active", "lead", "password"} |->
                IF f \in Moves(s) THEN ch[f] ELSE m[f]]
  BY <1>1 DEF Written
<1>3. "lead" \notin Moves(s) /\ "password" \notin Moves(s)
  BY DEF Moves, Field
<1>4. /\ w.label = IF "label" \in Moves(s) THEN ch.label ELSE m.label
      /\ w.role = IF "role" \in Moves(s) THEN ch.role ELSE m.role
      /\ w.capacity = IF "capacity" \in Moves(s) THEN ch.capacity ELSE m.capacity
      /\ w.active = IF "active" \in Moves(s) THEN ch.active ELSE m.active
      /\ w.lead = m.lead /\ w.password = m.password
  BY <1>2, <1>3
<1>5. w = [label |-> w.label, role |-> w.role, capacity |-> w.capacity,
           active |-> w.active, lead |-> w.lead, password |-> w.password]
  BY <1>2
<1>6. \A f \in Moves(s) : ch[f] # Absent
  BY DEF Moves
<1>7. /\ ch.label \in Label \cup {Absent} /\ ch.role \in Role \cup {None, Absent}
      /\ ch.capacity \in Points \cup {Absent} /\ ch.active \in BOOLEAN \cup {Absent}
  BY DEF Sent
<1>8. /\ w.label \in Label /\ w.role \in Role \cup {None} /\ w.capacity \in Points
      /\ w.active \in BOOLEAN /\ w.lead \in BOOLEAN /\ w.password \in BOOLEAN
  BY <1>4, <1>6, <1>7, MemberParts
<1>9. w \in Member
  BY <1>5, <1>8, MemberParts
<1> HIDE DEF w
<1> QED  BY <1>4, <1>9 DEF w

LEMMA InitIInv == Init => IInv
<1> SUFFICES ASSUME Init PROVE IInv
  OBVIOUS
<1> USE DEF Init
<1>1. DOMAIN SeedRole = 1..Len(SeedRole) /\ \A i \in DOMAIN SeedRole : SeedRole[i] \in Role
  BY SeedAssumption
<1>2. \A r \in Role :
        IF \E i \in DOMAIN SeedRole : SeedRole[i] = r
        THEN \E i \in DOMAIN SeedRole : SeedRole[i] = r /\ order[r] = i - 1
        ELSE order[r] = None
  OBVIOUS
<1>3. order \in [Role -> Nat \cup {None}]
  BY <1>1, <1>2
<1>4. inService \subseteq Created
  BY <1>1, <1>2, NothingIsNobody DEF Created
<1>5. before \subseteq Role \X Role
  OBVIOUS
<1>6. TypeOK
  <2>1. member \in [Code -> Member \cup {None}]
    BY SeedAssumption
  <2>2. edits \in 0..EditLimit
    BY LimitsAreNatural
  <2>3. \A x : [y \in Session |-> x] \in [Session -> {x}]
    OBVIOUS
  <2> QED  BY <2>1, <2>2, <2>3, <1>3, <1>4, <1>5 DEF TypeOK
<1>7. ActorsLead /\ LockedRows /\ OneHolder /\ Minted
  BY DEF ActorsLead, LockedRows, OneHolder, Minted
<1>8. LockoutNeedsARace
  BY NothingIsNobody DEF LockoutNeedsARace, Active, Exists
<1>9. \A p \in before :
        p[1] \in inService /\ p[2] \in inService /\ order[p[1]] < order[p[2]]
  OBVIOUS
<1>10. PickerGrows /\ RolesKeepTheirPlace
  BY <1>4, <1>5, <1>9 DEF PickerGrows, RolesKeepTheirPlace
<1> QED  BY <1>6, <1>7, <1>8, <1>10 DEF IInv

-----------------------------------------------------------------------------
(***************************************************************************)
(* Steps that leave the tables alone.                                      *)
(***************************************************************************)

\* What depends on the tables only.
Tables == PickerGrows /\ LockoutNeedsARace /\ RolesKeepTheirPlace

LEMMA TablesStay ==
  ASSUME IInv, UNCHANGED <<member, order, inService, before, crossfire>>
  PROVE  Tables'
BY DEF IInv, Tables, PickerGrows, LockoutNeedsARace, RolesKeepTheirPlace, Created,
       Active, Exists

\* Tokens come and go.
LEMMA TokenStep ==
  ASSUME IInv, UNCHANGED <<people, picker, requests, edits, crossfire>>,
         access' \subseteq Code, refresh' \subseteq Code
  PROVE  IInv'
<1> USE DEF people, picker, requests
<1>1. TypeOK'
  BY DEF IInv, TypeOK, Created
<1>2. ActorsLead' /\ LockedRows' /\ OneHolder' /\ Minted'
  BY DEF IInv, ActorsLead, LockedRows, OneHolder, Minted, Created, Exists
<1> QED  BY <1>1, <1>2, TablesStay DEF IInv, Tables

\* A request that ends leaves the others as they were.
LEMMA EndedSession ==
  ASSUME IInv, NEW s \in Session, End(s)
  PROVE  /\ pc' \in [Session -> {"idle", "admitted", "minted", "locked"}]
         /\ actor' \in [Session -> Code \cup {None}]
         /\ job' \in [Session -> Job \cup {None}]
         /\ pc'[s] = "idle"
         /\ \A x \in Session \ {s} :
              /\ pc'[x] = pc[x] /\ actor'[x] = actor[x] /\ job'[x] = job[x]
              /\ (pc[x] = "locked" => seen'[x] = seen[x])
              /\ (pc[x] = "minted" => minted'[x] = minted[x] /\ place'[x] = place[x])
BY DEF IInv, TypeOK, End

\* A request ends without a trace.
LEMMA RolledBackIInv ==
  ASSUME IInv, NEW s \in Session, RolledBack(s)
  PROVE  IInv'
<1>1. End(s) /\ UNCHANGED <<people, tokens, picker, edits, crossfire>>
  BY DEF RolledBack
<1>2. TypeOK'
  BY <1>1 DEF IInv, TypeOK, End, people, tokens, picker, Created
<1>3. ActorsLead' /\ LockedRows' /\ OneHolder' /\ Minted'
  BY <1>1, EndedSession
     DEF IInv, ActorsLead, LockedRows, OneHolder, Minted, Created, Exists, people, picker
<1> QED  BY <1>1, <1>2, <1>3, TablesStay DEF IInv, Tables, people, picker

LEMMA AuthenticateIInv ==
  ASSUME IInv, NEW s \in Session, Authenticate(s)
  PROVE  IInv'
<1> USE DEF Authenticate, people, tokens, picker
<1>1. PICK c \in Code, j \in Job :
        /\ OpsLead(c) /\ actor' = [actor EXCEPT ![s] = c] /\ job' = [job EXCEPT ![s] = j]
  OBVIOUS
<1>2. TypeOK'
  BY <1>1 DEF IInv, TypeOK, Created
<1>3. ActorsLead'
  BY <1>1 DEF IInv, TypeOK, ActorsLead, OpsLead, Active, Exists
<1>4. LockedRows' /\ OneHolder' /\ Minted'
  BY <1>1 DEF IInv, TypeOK, LockedRows, OneHolder, Minted, Created, Exists
<1> QED  BY <1>2, <1>3, <1>4, TablesStay DEF IInv, Tables

LEMMA AllocateCodeIInv ==
  ASSUME IInv, NEW s \in Session, AllocateCode(s)
  PROVE  IInv'
<1> USE DEF AllocateCode, people, tokens, picker
<1>1. PICK c \in Code : minted' = [minted EXCEPT ![s] = c]
  BY DEF FreeCodes
<1>2. TypeOK'
  BY <1>1 DEF IInv, TypeOK, Created
<1>3. ActorsLead' /\ LockedRows' /\ OneHolder' /\ Minted'
  BY <1>1 DEF IInv, TypeOK, ActorsLead, LockedRows, OneHolder, Minted, Created, Exists
<1> QED  BY <1>2, <1>3, TablesStay DEF IInv, Tables

LEMMA LockMemberIInv ==
  ASSUME IInv, NEW s \in Session, LockMember(s)
  PROVE  IInv'
<1> USE DEF LockMember, people, tokens, picker
<1>1. job[s].code \in Code /\ member[job[s].code] \in Member
  BY JobParts DEF IInv, TypeOK, ActorsLead, Exists
<1>2. TypeOK'
  BY <1>1 DEF IInv, TypeOK, Created
<1>3. ActorsLead' /\ LockedRows' /\ Minted'
  BY DEF IInv, TypeOK, ActorsLead, LockedRows, Minted, Created, Exists
<1>4. OneHolder'
  BY DEF IInv, TypeOK, OneHolder, Lockable
<1> QED  BY <1>2, <1>3, <1>4, TablesStay DEF IInv, Tables

LEMMA ReadPickerIInv ==
  ASSUME IInv, NEW s \in Session, ReadPicker(s)
  PROVE  IInv'
<1> USE DEF ReadPicker, people, tokens, picker
<1>1. PICK n \in 0..Cardinality(Role) :
        /\ \A m \in Places : m < n
        /\ place' = [place EXCEPT ![s] = [order |-> n, after |-> Created]]
  OBVIOUS
<1>2. n \in Nat /\ Created \in SUBSET Role
  BY DEF Created
<1>3. \A q \in Created : order[q] < n
  BY <1>1 DEF Places
<1>4. TypeOK'
  BY <1>1, <1>2 DEF IInv, TypeOK, Created
<1>5. ActorsLead' /\ LockedRows' /\ OneHolder'
  BY DEF IInv, TypeOK, ActorsLead, LockedRows, OneHolder, Exists
<1>6. Minted'
  BY <1>1, <1>2, <1>3 DEF IInv, TypeOK, Minted, Created
<1> QED  BY <1>4, <1>5, <1>6, TablesStay DEF IInv, Tables

-----------------------------------------------------------------------------
(***************************************************************************)
(* Commits.                                                                *)
(***************************************************************************)

\* The row of a person after the step.
ActiveLead(c) == member'[c] # None /\ member'[c].active /\ member'[c].lead

\* Somebody is left: the actor, or the row was not one that mattered.
LEMMA LeadIsLeft ==
  ASSUME IInv, NEW s \in Session, pc[s] # "idle",
         crossfire' = (crossfire \/ ~Active(actor[s])),
         Active(actor[s]) => ActiveLead(actor[s])
  PROVE  LockoutNeedsARace'
<1>1. actor[s] \in Code
  BY DEF IInv, ActorsLead
<1> QED  BY <1>1 DEF LockoutNeedsARace, Active, Exists, ActiveLead

\* People keep their place as actors when one row is written.
LEMMA OneRowWritten ==
  ASSUME IInv, NEW s \in Session, NEW c \in Code, NEW m \in Member, End(s),
         UNCHANGED picker,
         member' = [member EXCEPT ![c] = m],
         member[c] # None => m.lead = member[c].lead,
         \A x \in Session \ {s} : pc[x] = "locked" => job[x].code # c
  PROVE  /\ member' \in [Code -> Member \cup {None}]
         /\ ActorsLead' /\ LockedRows' /\ OneHolder' /\ Minted'
         /\ PickerGrows' /\ RolesKeepTheirPlace'
<1>1. /\ member' \in [Code -> Member \cup {None}] /\ m # None
      /\ \A d \in Code : member[d] # None =>
           member'[d] # None /\ member'[d].lead = member[d].lead
  BY NothingIsNobody DEF IInv, TypeOK
<1>2. ActorsLead'
  BY <1>1, EndedSession DEF IInv, ActorsLead, Exists
<1>3. LockedRows' /\ OneHolder'
  <2>1. \A x \in Session : pc'[x] = "locked" =>
          /\ pc[x] = "locked" /\ x # s /\ job'[x] = job[x] /\ seen'[x] = seen[x]
          /\ job[x].code \in Code /\ job[x].code # c
    BY EndedSession, JobParts DEF IInv, ActorsLead, LockedRows
  <2> QED  BY <2>1 DEF IInv, TypeOK, LockedRows, OneHolder, Exists
<1>4. Minted' /\ PickerGrows' /\ RolesKeepTheirPlace'
  BY EndedSession DEF IInv, Minted, PickerGrows, RolesKeepTheirPlace, Created, picker
<1> QED  BY <1>1, <1>2, <1>3, <1>4

LEMMA CreateMemberIInv ==
  ASSUME IInv, NEW s \in Session, CreateMember(s)
  PROVE  IInv'
<1> DEFINE c == minted[s]
           row == job[s].row
           new == [label |-> row.label, role |-> row.role, capacity |-> row.capacity,
                   active |-> TRUE, lead |-> FALSE, password |-> row.password]
<1>1. /\ ~Exists(c) /\ Known(row.role) /\ member' = [member EXCEPT ![c] = new]
      /\ Committed(s) /\ UNCHANGED <<tokens, picker>>
      /\ pc[s] = "minted" /\ job[s].op = "create"
  BY DEF CreateMember
<1>2. job[s] \in Job /\ c \in Code
  BY <1>1 DEF IInv, ActorsLead, Minted
<1>3. row \in NewMember
  BY <1>1, <1>2, JobParts
<1>4. new \in Member
  BY <1>3, MemberParts DEF NewMember
<1>5. member[c] = None
  BY <1>1 DEF Exists
<1>6. \A x \in Session : pc[x] = "locked" => job[x].code # c
  BY <1>5 DEF IInv, LockedRows, Exists
<1> HIDE DEF new
<1>7. /\ member' \in [Code -> Member \cup {None}]
      /\ ActorsLead' /\ LockedRows' /\ OneHolder' /\ Minted'
      /\ PickerGrows' /\ RolesKeepTheirPlace'
  BY <1>1, <1>2, <1>4, <1>5, <1>6, OneRowWritten DEF Committed
<1>8. TypeOK'
  <2>1. edits' \in 0..EditLimit /\ crossfire' \in BOOLEAN /\ End(s)
    BY <1>1, LimitsAreNatural DEF IInv, TypeOK, Committed
  <2> QED  BY <1>1, <1>7, <2>1 DEF IInv, TypeOK, End, tokens, picker, Created
<1>9. Active(actor[s]) => ActiveLead(actor[s])
  BY <1>1, <1>2, <1>5 DEF IInv, TypeOK, ActorsLead, Active, ActiveLead, Exists
<1>10. LockoutNeedsARace'
  BY <1>1, <1>9, LeadIsLeft DEF Committed
<1> QED  BY <1>7, <1>8, <1>10 DEF IInv

LEMMA UpdateMemberIInv ==
  ASSUME IInv, NEW s \in Session, UpdateMember(s)
  PROVE  IInv'
<1> DEFINE c == job[s].code
<1>1. /\ ~RetiresSelf(s) /\ member' = [member EXCEPT ![c] = Written(s)]
      /\ Committed(s) /\ UNCHANGED <<tokens, picker>>
      /\ pc[s] = "locked" /\ job[s].op = "update"
  BY DEF UpdateMember, Written
<1>2. /\ job[s] \in Job /\ c \in Code /\ job[s].change \in Sent
      /\ member[c] \in Member /\ seen[s] = member[c]
  BY <1>1, JobParts DEF IInv, TypeOK, ActorsLead, LockedRows, Exists
<1>3. /\ Written(s) \in Member /\ Written(s).lead = member[c].lead
      /\ Written(s).active = member[c].active \/ Written(s).active = job[s].change.active
  BY <1>2, WrittenRow
<1>4. \A x \in Session \ {s} : pc[x] = "locked" => job[x].code # c
  BY <1>1 DEF IInv, OneHolder
<1>5. /\ member' \in [Code -> Member \cup {None}]
      /\ ActorsLead' /\ LockedRows' /\ OneHolder' /\ Minted'
      /\ PickerGrows' /\ RolesKeepTheirPlace'
  BY <1>1, <1>2, <1>3, <1>4, OneRowWritten DEF Committed
<1>6. TypeOK'
  <2>1. edits' \in 0..EditLimit /\ crossfire' \in BOOLEAN /\ End(s)
    BY <1>1, LimitsAreNatural DEF IInv, TypeOK, Committed
  <2> QED  BY <1>1, <1>5, <2>1 DEF IInv, TypeOK, End, tokens, picker, Created
\* The actor is active: another row is written, or their own and not to
\* retire them.
<1>7. Active(actor[s]) => ActiveLead(actor[s])
  <2> SUFFICES ASSUME Active(actor[s]) PROVE ActiveLead(actor[s])
    OBVIOUS
  <2>1. /\ actor[s] \in Code /\ member[actor[s]] # None
        /\ member[actor[s]].active /\ member[actor[s]].lead
    BY <1>1 DEF IInv, ActorsLead, Active, Exists
  <2>2. CASE actor[s] # c
    BY <1>1, <1>2, <2>1, <2>2 DEF IInv, TypeOK, ActiveLead
  <2>3. CASE actor[s] = c
    <3>1. member'[c] = Written(s) /\ Written(s) # None
      BY <1>1, <1>2, <1>3, NothingIsNobody DEF IInv, TypeOK
    <3>2. Written(s).active \in BOOLEAN
      BY <1>3, MemberParts
    <3>3. job[s].change.active # FALSE
      BY <1>1, <2>3 DEF RetiresSelf
    <3> QED  BY <1>3, <2>1, <2>3, <3>1, <3>2, <3>3 DEF ActiveLead
  <2> QED  BY <2>2, <2>3
<1>8. LockoutNeedsARace'
  BY <1>1, <1>7, LeadIsLeft DEF Committed
<1> QED  BY <1>5, <1>6, <1>8 DEF IInv

LEMMA SetMemberPasswordIInv ==
  ASSUME IInv, NEW s \in Session, SetMemberPassword(s)
  PROVE  IInv'
<1> DEFINE c == job[s].code
           new == [member[c] EXCEPT !.password = TRUE]
<1>1. /\ member' = [member EXCEPT ![c] = new]
      /\ Committed(s) /\ UNCHANGED <<news, tokens, picker>>
      /\ pc[s] = "locked" /\ job[s].op = "password"
  BY DEF SetMemberPassword
<1>2. job[s] \in Job /\ c \in Code /\ member[c] \in Member /\ member[c] # None
  BY <1>1, JobParts DEF IInv, TypeOK, ActorsLead, LockedRows, Exists
<1>3. /\ new \in Member /\ new.lead = member[c].lead
      /\ new.active = member[c].active
  BY <1>2 DEF Member
<1>4. \A x \in Session \ {s} : pc[x] = "locked" => job[x].code # c
  BY <1>1 DEF IInv, OneHolder
<1> HIDE DEF new
<1>5. /\ member' \in [Code -> Member \cup {None}]
      /\ ActorsLead' /\ LockedRows' /\ OneHolder' /\ Minted'
      /\ PickerGrows' /\ RolesKeepTheirPlace'
  BY <1>1, <1>2, <1>3, <1>4, OneRowWritten DEF Committed
<1>6. TypeOK'
  <2>1. edits' \in 0..EditLimit /\ crossfire' \in BOOLEAN /\ End(s)
    BY <1>1, LimitsAreNatural DEF IInv, TypeOK, Committed
  <2> QED  BY <1>1, <1>5, <2>1 DEF IInv, TypeOK, End, tokens, picker, Created
<1>7. Active(actor[s]) => ActiveLead(actor[s])
  <2>1. new # None
    BY <1>3, NothingIsNobody
  <2>2. actor[s] \in Code /\ member[actor[s]].lead
    BY <1>1 DEF IInv, ActorsLead
  <2> QED  BY <1>1, <1>2, <1>3, <2>1, <2>2 DEF IInv, TypeOK, Active, ActiveLead, Exists
<1>8. LockoutNeedsARace'
  BY <1>1, <1>7, LeadIsLeft DEF Committed
<1> QED  BY <1>5, <1>6, <1>8 DEF IInv

\* A new role comes behind the ones its request has seen.
LEMMA CreateRoleIInv ==
  ASSUME IInv, NEW s \in Session, CreateRole(s)
  PROVE  IInv'
<1> DEFINE r == job[s].code
           n == place[s].order
           after == place[s].after
<1>1. /\ order[r] = None /\ order' = [order EXCEPT ![r] = n]
      /\ inService' = inService \cup {r} /\ before' = before \cup (after \X {r})
      /\ Committed(s) /\ UNCHANGED <<people, tokens>>
      /\ pc[s] = "minted" /\ job[s].op = "role"
  BY DEF CreateRole
<1>2. /\ r \in Role /\ n \in Nat /\ n # None /\ after \subseteq Created
      /\ \A q \in after : order[q] < n
  BY <1>1, JobParts, NothingIsNobody DEF IInv, ActorsLead, Minted
<1>3. /\ order' \in [Role -> Nat \cup {None}] /\ order'[r] = n
      /\ \A q \in Created : q \in Created' /\ q # r /\ order'[q] = order[q]
      /\ r \in Created'
  BY <1>1, <1>2 DEF IInv, TypeOK, Created
<1>4. End(s) /\ edits' \in 0..EditLimit /\ crossfire' \in BOOLEAN
  BY <1>1, LimitsAreNatural DEF IInv, TypeOK, Committed
<1>5. TypeOK'
  <2>1. inService' \subseteq Created' /\ before' \subseteq Role \X Role
    BY <1>1, <1>2, <1>3 DEF IInv, TypeOK, Created
  <2> QED  BY <1>1, <1>3, <1>4, <2>1 DEF IInv, TypeOK, End, people, tokens
<1>6. ActorsLead' /\ LockedRows' /\ OneHolder'
  BY <1>1, <1>4, EndedSession DEF IInv, ActorsLead, LockedRows, OneHolder, Exists, people
<1>7. Minted'
  BY <1>3, <1>4, EndedSession DEF IInv, Minted
<1>8. PickerGrows'
  BY <1>1, <1>2, <1>3 DEF IInv, PickerGrows
<1>9. RolesKeepTheirPlace'
  <2>1. ASSUME NEW p \in before PROVE order'[p[1]] < order'[p[2]]
    BY <1>3, <2>1 DEF IInv, RolesKeepTheirPlace, PickerGrows
  <2>2. ASSUME NEW p \in after \X {r} PROVE order'[p[1]] < order'[p[2]]
    BY <1>2, <1>3, <2>2
  <2> QED  BY <1>1, <2>1, <2>2 DEF RolesKeepTheirPlace
<1>10. Active(actor[s]) => ActiveLead(actor[s])
  BY <1>1 DEF IInv, ActorsLead, Active, ActiveLead, Exists, people
<1>11. LockoutNeedsARace'
  BY <1>1, <1>10, LeadIsLeft DEF Committed
<1> QED  BY <1>5, <1>6, <1>7, <1>8, <1>9, <1>11 DEF IInv

LEMMA UpdateRoleIInv ==
  ASSUME IInv, NEW r \in Role, UpdateRole(r)
  PROVE  IInv'
<1> USE DEF UpdateRole, people, tokens, requests, RoleFound
<1>1. TypeOK'
  BY LimitsAreNatural DEF IInv, TypeOK, Created
<1>2. ActorsLead' /\ LockedRows' /\ OneHolder' /\ Minted'
  BY DEF IInv, ActorsLead, LockedRows, OneHolder, Minted, Created, Exists
<1>3. PickerGrows' /\ RolesKeepTheirPlace' /\ LockoutNeedsARace'
  BY DEF IInv, PickerGrows, RolesKeepTheirPlace, LockoutNeedsARace, Created, Active,
         Exists
<1> QED  BY <1>1, <1>2, <1>3 DEF IInv

-----------------------------------------------------------------------------
LEMMA StepIInv == IInv /\ [Next]_vars => IInv'
<1> SUFFICES ASSUME IInv, [Next]_vars PROVE IInv'
  OBVIOUS
<1>1. ASSUME NEW c \in Code, SignIn(c) \/ RefreshAccess(c) \/ Expire(c)
      PROVE  IInv'
  <2>1. access \subseteq Code /\ refresh \subseteq Code
    BY DEF IInv, TypeOK
  <2>2. /\ UNCHANGED <<people, picker, requests, edits, crossfire>>
        /\ access' \subseteq Code /\ refresh' \subseteq Code
    BY <1>1, <2>1 DEF SignIn, RefreshAccess, Expire
  <2> QED  BY <2>2, TokenStep
<1>2. CASE \E r \in Role : UpdateRole(r)
  BY <1>2, UpdateRoleIInv
<1>3. ASSUME NEW s \in Session,
             \/ Authenticate(s)
             \/ AllocateCode(s) \/ CreationFails(s) \/ CreateMember(s)
             \/ LockMember(s) \/ MemberNotFound(s)
             \/ UpdateRefused(s) \/ NothingMoves(s) \/ UpdateMember(s)
             \/ SetMemberPassword(s)
             \/ ReadPicker(s) \/ DuplicateCode(s) \/ CreateRole(s)
      PROVE  IInv'
  <2>1. CreationFails(s) \/ MemberNotFound(s) \/ UpdateRefused(s) \/ NothingMoves(s)
          \/ DuplicateCode(s) => RolledBack(s)
    BY DEF CreationFails, MemberNotFound, UpdateRefused, NothingMoves, DuplicateCode
  <2> QED  BY <1>3, <2>1, RolledBackIInv, AuthenticateIInv, AllocateCodeIInv,
              CreateMemberIInv, LockMemberIInv, UpdateMemberIInv,
              SetMemberPasswordIInv, ReadPickerIInv, CreateRoleIInv
<1>4. CASE UNCHANGED vars
  BY <1>4, TokenStep DEF vars, tokens, IInv, TypeOK
<1> QED  BY <1>1, <1>2, <1>3, <1>4 DEF Next

LEMMA InductiveInvariant == Spec => []IInv
BY InitIInv, StepIInv, PTL DEF Spec

\* The tables of people and roles and what requests hold stay well formed, for
\* any people, roles, requests and bounds.
THEOREM RosterTypeCorrect == Spec => []TypeOK
<1>1. IInv => TypeOK
  BY DEF IInv
<1> QED  BY <1>1, InductiveInvariant, PTL

\* An ops lead remains who can sign in and edit, unless an edit was committed
\* for an actor who had been retired after being authenticated: the check that
\* nobody retires themselves (update_member) guarantees no more than that.
THEOREM SomebodyStays == Spec => []LockoutNeedsARace
<1>1. IInv => LockoutNeedsARace
  BY DEF IInv
<1> QED  BY <1>1, InductiveInvariant, PTL

\* Whatever is created and retired meanwhile, a role is behind those its
\* request found in the picker (create_role).
THEOREM PickerKeepsItsOrder == Spec => []RolesKeepTheirPlace
<1>1. IInv => RolesKeepTheirPlace
  BY DEF IInv
<1> QED  BY <1>1, InductiveInvariant, PTL

-----------------------------------------------------------------------------
(***************************************************************************)
(* The trail.  One person's records are followed as a sequence t, with the *)
(* row v that they say.                                                    *)
(***************************************************************************)
Value == Label \cup Role \cup Points \cup BOOLEAN \cup {None}

Record == [field : Field \cup {"all", "password"},
           from : Value \cup [Field -> Value], to : Value \cup [Field -> Value]]

About(t, f, n) == {i \in 1..n : t[i].field \in {f, "all"}}
Latest(S) == CHOOSE i \in S : \A j \in S : j <= i

Said(t, f, n) ==
  LET i == Latest(About(t, f, n))
  IN  IF t[i].field = "all" THEN t[i].to[f] ELSE t[i].to

\* The first record says it all, and each later one starts from what was said.
Replays(t, v) ==
  /\ t \in Seq(Record) /\ v \in [Field -> Value] /\ Len(t) > 0
  /\ \A f \in Field : Said(t, f, Len(t)) = v[f]
  /\ \A f \in Field : \A n \in 1..Len(t) : Latest(About(t, f, n)) \in 1..n
  /\ \A i \in 2..Len(t) :
       /\ t[i].field # "all"
       /\ t[i].field \in Field => /\ t[i].from = Said(t, t[i].field, i - 1)
                                  /\ t[i].from # t[i].to

OnRecord ==
  \A c \in Code :
    IF member[c] = None THEN trail[c] = <<>> /\ news[c] = None
    ELSE /\ Replays(trail[c], Attributes(member[c]))
         /\ news[c] = Attributes(member[c])

RecordInv ==
  /\ OnRecord
  /\ trail \in [Code -> Seq(Record)]
  /\ news \in [Code -> [Field -> Value] \cup {None}]

\* A row says a value of each field.
LEMMA AttributesAreTyped ==
  ASSUME NEW m \in Member
  PROVE  /\ Attributes(m) \in [Field -> Value]
         /\ Attributes(m).label = m.label /\ Attributes(m).role = m.role
         /\ Attributes(m).capacity = m.capacity /\ Attributes(m).active = m.active
BY DEF Attributes, Member, Field, Value

\* What was said before a record stays said; what it says is said after it.
LEMMA SaidOfAppended ==
  ASSUME NEW v, NEW t, Replays(t, v), NEW e \in Record, NEW f \in Field
  PROVE  LET u == Append(t, e) IN
         /\ \A n \in 1..Len(t) : /\ Said(u, f, n) = Said(t, f, n)
                                 /\ Latest(About(u, f, n)) = Latest(About(t, f, n))
         /\ Latest(About(u, f, Len(t) + 1)) \in 1..(Len(t) + 1)
         /\ Said(u, f, Len(t) + 1) =
              IF e.field = "all" THEN e.to[f]
              ELSE IF e.field = f THEN e.to ELSE v[f]
<1> DEFINE u == Append(t, e)
           N == Len(t) + 1
<1>1. /\ t \in Seq(Record) /\ Len(t) \in Nat \ {0} /\ N \in Nat
      /\ \A n \in 1..Len(t) : u[n] = t[n]
      /\ u[N] = e
  BY DEF Replays
<1> HIDE DEF u
<1>2. ASSUME NEW n \in 1..Len(t)
      PROVE  /\ Said(u, f, n) = Said(t, f, n)
             /\ About(u, f, n) = About(t, f, n)
  <2>1. About(u, f, n) = About(t, f, n)
    BY <1>1 DEF About
  <2>2. Latest(About(t, f, n)) \in 1..Len(t)
    BY <1>1 DEF Replays
  <2> QED  BY <1>1, <2>1, <2>2 DEF Said
<1>3. CASE e.field \in {f, "all"}
  <2>1. N \in About(u, f, N) /\ \A j \in About(u, f, N) : j <= N
    BY <1>1, <1>3 DEF About
  <2>2. \A i \in About(u, f, N) : N <= i => i = N
    BY <1>1 DEF About
  <2>3. Latest(About(u, f, N)) = N
    BY <2>1, <2>2 DEF Latest
  <2>4. Said(u, f, N) = IF e.field = "all" THEN e.to[f] ELSE e.to
    BY <1>1, <2>3 DEF Said
  <2> QED  BY <1>1, <1>2, <1>3, <2>3, <2>4 DEF u
<1>4. CASE e.field \notin {f, "all"}
  <2>1. About(u, f, N) = About(u, f, Len(t))
    BY <1>1, <1>4 DEF About
  <2>2. Said(u, f, N) = Said(u, f, Len(t))
    BY <2>1 DEF Said
  <2>3. Said(t, f, Len(t)) = v[f] /\ Latest(About(t, f, Len(t))) \in 1..Len(t)
    BY <1>1 DEF Replays
  <2> QED  BY <1>1, <1>2, <1>4, <2>1, <2>2, <2>3 DEF u
<1> QED  BY <1>3, <1>4

\* A record that starts where the trail ends, or says nothing of the fields.
LEMMA ReplaysAppended ==
  ASSUME NEW t, NEW v, Replays(t, v), NEW e \in Record, NEW w \in [Field -> Value],
         e.field # "all",
         \A f \in Field : w[f] = IF e.field = f THEN e.to ELSE v[f],
         e.field \in Field => e.from = v[e.field] /\ e.from # e.to
  PROVE  Replays(Append(t, e), w)
<1> DEFINE u == Append(t, e)
           N == Len(t) + 1
<1>1. /\ u \in Seq(Record) /\ Len(u) = N /\ N \in Nat /\ Len(t) \in Nat \ {0}
      /\ \A n \in 1..Len(t) : u[n] = t[n]
      /\ u[N] = e
  BY DEF Replays
<1>2. \A f \in Field :
        /\ \A n \in 1..Len(t) : /\ Said(u, f, n) = Said(t, f, n)
                                /\ Latest(About(u, f, n)) = Latest(About(t, f, n))
        /\ Latest(About(u, f, N)) \in 1..N
        /\ Said(u, f, N) = w[f]
  BY SaidOfAppended
<1> HIDE DEF u
<1>3. \A f \in Field : \A n \in 1..N : Latest(About(u, f, n)) \in 1..n
  BY <1>1, <1>2 DEF Replays
<1>4. ASSUME NEW i \in 2..N
      PROVE  /\ u[i].field # "all"
             /\ u[i].field \in Field => /\ u[i].from = Said(u, u[i].field, i - 1)
                                        /\ u[i].from # u[i].to
  <2>1. i - 1 \in 1..Len(t)
    BY <1>1
  <2>2. CASE i = N
    BY <1>1, <1>2, <2>1, <2>2 DEF Replays
  <2>3. CASE i # N
    <3>1. i \in 2..Len(t) /\ u[i] = t[i]
      BY <1>1, <2>3
    <3> QED  BY <1>2, <2>1, <3>1 DEF Replays
  <2> QED  BY <2>2, <2>3
<1>5. Replays(u, w)
  BY <1>1, <1>2, <1>3, <1>4 DEF Replays
<1> QED  BY <1>5 DEF u

\* The first record of a person.
LEMMA ReplaysFirst ==
  ASSUME NEW v \in [Field -> Value]
  PROVE  /\ Replays(<<Entry("all", None, v)>>, v)
         /\ Entry("all", None, v) \in Record
<1> DEFINE e == Entry("all", None, v)
           t == <<e>>
<1>1. e \in Record /\ e.field = "all" /\ e.to = v
  BY DEF Entry, Record, Value
<1> HIDE DEF e
<1>2. t \in Seq(Record) /\ Len(t) = 1 /\ t[1] = e
  BY <1>1
<1> HIDE DEF t
<1>3. ASSUME NEW f \in Field PROVE Latest(About(t, f, 1)) = 1
  <2>1. About(t, f, 1) = {1}
    BY <1>1, <1>2 DEF About
  <2> QED  BY <2>1 DEF Latest
<1>4. \A f \in Field : Said(t, f, 1) = v[f]
  BY <1>1, <1>2, <1>3 DEF Said
<1>5. Replays(t, v)
  BY <1>2, <1>3, <1>4 DEF Replays
<1> QED  BY <1>1, <1>5 DEF e, t

\* The record of one field that an update moves, or none.
Move(s, f) ==
  IF f \in Moves(s) THEN <<Entry(f, seen[s][f], Written(s)[f])>> ELSE <<>>

\* The row after the fields of F have been moved.
Moved(s, F) == [f \in Field |-> IF f \in F THEN Written(s)[f] ELSE seen[s][f]]

\* Recording one more field of an update brings the trail one field further.
LEMMA ReplaysMoved ==
  ASSUME NEW s \in Session, seen[s] \in Member, job[s].change \in Sent,
         NEW t, NEW F, NEW f \in Field, f \notin F, Replays(t, Moved(s, F))
  PROVE  Replays(t \o Move(s, f), Moved(s, F \cup {f}))
<1> DEFINE m == seen[s]
           w == Written(s)
           v == Moved(s, F)
           x == Moved(s, F \cup {f})
<1>1. /\ w \in Member
      /\ \A g \in Field : m[g] \in Value /\ w[g] \in Value /\ g \in DOMAIN m
  BY WrittenRow DEF Member, Field, Value
<1>2. /\ w[f] = IF f \in Moves(s) THEN job[s].change[f] ELSE m[f]
      /\ f \in Moves(s) => job[s].change[f] # m[f]
  BY <1>1 DEF Written, Moves
<1>3. /\ x \in [Field -> Value] /\ v[f] = m[f]
      /\ \A g \in Field : x[g] = IF g = f THEN w[f] ELSE v[g]
  BY <1>1 DEF Moved
<1>4. CASE f \in Moves(s)
  <2> DEFINE e == Entry(f, m[f], w[f])
  <2>1. /\ e \in Record /\ e.field = f /\ e.from = v[f] /\ e.to = w[f]
        /\ e.from # e.to
    BY <1>1, <1>2, <1>3, <1>4 DEF Entry, Record
  <2>2. Move(s, f) = <<e>>
    BY <1>4 DEF Move
  <2> HIDE DEF e
  <2>3. f # "all"
    BY DEF Field
  <2>4. Replays(Append(t, e), x)
    <3>1. \A g \in Field : x[g] = IF e.field = g THEN e.to ELSE v[g]
      BY <1>3, <2>1
    <3> HIDE DEF x, v
    <3> QED  BY <1>3, <2>1, <2>3, <3>1, ReplaysAppended DEF v
  <2>5. t \o <<e>> = Append(t, e)
    BY <2>1 DEF Replays
  <2> QED  BY <2>2, <2>4, <2>5
<1>5. CASE f \notin Moves(s)
  <2>1. x = v
    BY <1>2, <1>5 DEF Moved
  <2>2. t \o Move(s, f) = t
    BY <1>5 DEF Move, Replays
  <2> QED  BY <2>1, <2>2
<1> QED  BY <1>4, <1>5

\* One person's row, trail and events move together; nobody else's do.
LEMMA OnePersonRecorded ==
  ASSUME IInv, RecordInv, NEW c \in Code, NEW m \in Member, NEW t,
         Replays(t, Attributes(m)),
         member' = [member EXCEPT ![c] = m], trail' = [trail EXCEPT ![c] = t],
         news' = [news EXCEPT ![c] = Attributes(m)]
  PROVE  RecordInv'
<1>1. /\ member'[c] = m /\ news'[c] = Attributes(m) /\ trail'[c] = t
      /\ \A d \in Code \ {c} :
           member'[d] = member[d] /\ news'[d] = news[d] /\ trail'[d] = trail[d]
  BY DEF RecordInv, IInv, TypeOK
<1>2. m # None /\ Attributes(m) \in [Field -> Value] /\ t \in Seq(Record)
  BY NothingIsNobody, AttributesAreTyped DEF Replays
<1>3. trail' \in [Code -> Seq(Record)] /\ news' \in [Code -> [Field -> Value] \cup {None}]
  BY <1>2 DEF RecordInv
<1>4. ASSUME NEW d \in Code
      PROVE  IF member'[d] = None THEN trail'[d] = <<>> /\ news'[d] = None
             ELSE /\ Replays(trail'[d], Attributes(member'[d]))
                  /\ news'[d] = Attributes(member'[d])
  <2>1. CASE d = c
    BY <1>1, <1>2, <2>1
  <2>2. CASE d # c
    BY <1>1, <2>2 DEF RecordInv, OnRecord
  <2> QED  BY <2>1, <2>2
<1>5. OnRecord'
  BY <1>4 DEF OnRecord, Replays, Said, About, Latest, Attributes
<1> QED  BY <1>3, <1>5 DEF RecordInv

\* A person is created with a record and an event that say the whole row.
LEMMA CreateMemberRecords ==
  ASSUME IInv, RecordInv, NEW s \in Session, CreateMember(s)
  PROVE  RecordInv'
<1> DEFINE c == minted[s]
           row == job[s].row
           new == [label |-> row.label, role |-> row.role, capacity |-> row.capacity,
                   active |-> TRUE, lead |-> FALSE, password |-> row.password]
           e == Entry("all", None, Attributes(new))
<1>1. /\ c \in Code /\ member[c] = None /\ row \in NewMember
  <2>1. pc[s] = "minted" /\ job[s].op = "create" /\ ~Exists(c)
    BY DEF CreateMember
  <2>2. job[s] \in Job /\ c \in Code
    BY <2>1 DEF IInv, ActorsLead, Minted
  <2> QED  BY <2>1, <2>2, JobParts DEF Exists
<1>2. new \in Member /\ new # None
  <2>1. new \in Member
    BY <1>1, MemberParts DEF NewMember
  <2> QED  BY <2>1, NothingIsNobody
<1>3. /\ member' = [member EXCEPT ![c] = new]
      /\ trail' = [trail EXCEPT ![c] = Append(@, e)]
      /\ news' = [news EXCEPT ![c] = Attributes(new)]
  BY DEF CreateMember
<1> HIDE DEF new, c
<1>4. Attributes(new) \in [Field -> Value]
  BY <1>2, AttributesAreTyped
<1>5. Replays(<<e>>, Attributes(new)) /\ e \in Record
  BY <1>4, ReplaysFirst
<1>6. trail[c] = <<>>
  BY <1>1 DEF RecordInv, OnRecord
<1> HIDE DEF e
<1>7. trail' = [trail EXCEPT ![c] = <<e>>]
  <2>1. Append(trail[c], e) = <<e>>
    BY <1>6
  <2> QED  BY <1>1, <1>3, <2>1 DEF RecordInv
<1> QED  BY <1>1, <1>2, <1>3, <1>5, <1>7, OnePersonRecorded

\* An update writes a record of each field it moves, in the order of the
\* fields, from what it read under the lock; what its events leave out has not
\* moved.
LEMMA UpdateMemberRecords ==
  ASSUME IInv, RecordInv, NEW s \in Session, UpdateMember(s)
  PROVE  RecordInv'
<1> DEFINE c == job[s].code
           w == Written(s)
           told == (IF Moves(s) \ {"active"} # {} THEN {"label", "role", "capacity"}
                    ELSE {})
                   \cup (IF "active" \in Moves(s) THEN {"label", "active"} ELSE {})
           t == trail[c] \o Move(s, "label") \o Move(s, "role")
                         \o Move(s, "capacity") \o Move(s, "active")
<1>1. /\ pc[s] = "locked" /\ job[s].op = "update"
      /\ member' = [member EXCEPT ![c] = w]
      /\ trail' = [trail EXCEPT ![c] = @ \o Move(s, "label") \o Move(s, "role")
                                         \o Move(s, "capacity") \o Move(s, "active")]
      /\ news' = [news EXCEPT ![c] = [f \in Field |-> IF f \in told THEN w[f] ELSE @[f]]]
  BY DEF UpdateMember, Written, Move
<1>2. /\ c \in Code /\ job[s].change \in Sent
      /\ member[c] \in Member /\ member[c] # None /\ seen[s] = member[c]
  BY <1>1, JobParts DEF IInv, TypeOK, ActorsLead, LockedRows, Exists
<1>3. w \in Member
  BY <1>2, WrittenRow
<1>4. /\ Replays(trail[c], Attributes(member[c]))
      /\ news[c] = Attributes(member[c])
  BY <1>2 DEF RecordInv, OnRecord
<1>5. /\ Moved(s, {}) = Attributes(member[c])
      /\ Moved(s, Field) = Attributes(w)
  BY <1>2 DEF Moved, Attributes
<1> HIDE DEF w, told, c
<1>6. Replays(t, Attributes(w))
  <2>1. Replays(trail[c] \o Move(s, "label"), Moved(s, {"label"}))
    <3>1. {} \cup {"label"} = {"label"} /\ "label" \in Field
      BY DEF Field
    <3> QED  BY <1>2, <1>4, <1>5, <3>1, ReplaysMoved
  <2>2. Replays(trail[c] \o Move(s, "label") \o Move(s, "role"),
                Moved(s, {"label", "role"}))
    <3>1. {"label"} \cup {"role"} = {"label", "role"} /\ "role" \in Field
      BY DEF Field
    <3> QED  BY <1>2, <2>1, <3>1, ReplaysMoved
  <2>3. Replays(trail[c] \o Move(s, "label") \o Move(s, "role") \o Move(s, "capacity"),
                Moved(s, {"label", "role", "capacity"}))
    <3>1. /\ {"label", "role"} \cup {"capacity"} = {"label", "role", "capacity"}
          /\ "capacity" \in Field
      BY DEF Field
    <3> QED  BY <1>2, <2>2, <3>1, ReplaysMoved
  <2>4. Replays(t, Moved(s, Field))
    <3>1. {"label", "role", "capacity"} \cup {"active"} = Field /\ "active" \in Field
      BY DEF Field
    <3> QED  BY <1>2, <2>3, <3>1, ReplaysMoved
  <2> QED  BY <1>5, <2>4
<1>7. [f \in Field |-> IF f \in told THEN w[f] ELSE news[c][f]] = Attributes(w)
  <2>1. ASSUME NEW f \in Field, f \notin told PROVE f \notin Moves(s)
    BY <2>1 DEF told, Moves, Field
  <2>2. ASSUME NEW f \in Field, f \notin Moves(s) PROVE w[f] = news[c][f]
    BY <1>2, <1>4, <2>2 DEF w, Written, Attributes, Member, Field
  <2> QED  BY <2>1, <2>2 DEF Attributes
<1>8. /\ trail' = [trail EXCEPT ![c] = t]
      /\ news' = [news EXCEPT ![c] = Attributes(w)]
  BY <1>1, <1>2, <1>7 DEF RecordInv
<1> QED  BY <1>1, <1>2, <1>3, <1>6, <1>8, OnePersonRecorded

\* A password has a record that says nothing of the fields.
LEMMA SetMemberPasswordRecords ==
  ASSUME IInv, RecordInv, NEW s \in Session, SetMemberPassword(s)
  PROVE  RecordInv'
<1> DEFINE c == job[s].code
           m == [member[c] EXCEPT !.password = TRUE]
           e == Entry("password", None, None)
<1>1. /\ pc[s] = "locked" /\ job[s].op = "password"
      /\ member' = [member EXCEPT ![c] = m]
      /\ trail' = [trail EXCEPT ![c] = Append(@, e)]
      /\ news' = news
  BY DEF SetMemberPassword
<1>2. /\ c \in Code /\ member[c] \in Member /\ member[c] # None
  BY <1>1, JobParts DEF IInv, TypeOK, ActorsLead, LockedRows, Exists
<1>3. m \in Member /\ Attributes(m) = Attributes(member[c])
  BY <1>2 DEF Member, Attributes, Field
<1>4. /\ Replays(trail[c], Attributes(member[c]))
      /\ news[c] = Attributes(member[c])
  BY <1>2 DEF RecordInv, OnRecord
<1> HIDE DEF m, c
<1>5. e \in Record /\ e.field \notin Field \cup {"all"}
  BY DEF Entry, Record, Value, Field
<1>6. Attributes(m) \in [Field -> Value]
  BY <1>3, AttributesAreTyped
<1> HIDE DEF e
<1>7. Replays(Append(trail[c], e), Attributes(m))
  BY <1>3, <1>4, <1>5, <1>6, ReplaysAppended
<1>8. /\ trail' = [trail EXCEPT ![c] = Append(trail[c], e)]
      /\ news' = [news EXCEPT ![c] = Attributes(m)]
  BY <1>1, <1>2, <1>3, <1>4 DEF RecordInv
<1> QED  BY <1>1, <1>2, <1>3, <1>7, <1>8, OnePersonRecorded

LEMMA InitRecords == Init => RecordInv
<1> SUFFICES ASSUME Init PROVE RecordInv
  OBVIOUS
<1>1. member \in [Code -> Member \cup {None}]
  BY SeedAssumption DEF Init
<1>2. ASSUME NEW c \in Code
      PROVE  IF member[c] = None THEN trail[c] = <<>> /\ news[c] = None
             ELSE /\ trail[c] = <<Entry("all", None, Attributes(member[c]))>>
                  /\ news[c] = Attributes(member[c])
  BY DEF Init
<1>3. ASSUME NEW c \in Code, member[c] # None
      PROVE  /\ Replays(trail[c], Attributes(member[c]))
             /\ news[c] \in [Field -> Value]
  <2>1. Attributes(member[c]) \in [Field -> Value]
    BY <1>1, <1>3, AttributesAreTyped
  <2> QED  BY <1>2, <1>3, <2>1, ReplaysFirst
<1>4. OnRecord
  BY <1>2, <1>3 DEF OnRecord
<1>5. ASSUME NEW c \in Code
      PROVE  trail[c] \in Seq(Record) /\ news[c] \in [Field -> Value] \cup {None}
  <2>1. CASE member[c] = None
    <3>1. trail[c] = <<>> /\ news[c] = None
      BY <1>2, <2>1
    <3> QED  BY <3>1
  <2>2. CASE member[c] # None
    BY <1>3, <2>2 DEF Replays
  <2> QED  BY <2>1, <2>2
<1>6. trail = [c \in Code |-> trail[c]] /\ news = [c \in Code |-> news[c]]
  BY DEF Init
<1>7. trail \in [Code -> Seq(Record)] /\ news \in [Code -> [Field -> Value] \cup {None}]
  BY <1>5, <1>6
<1> QED  BY <1>4, <1>7 DEF RecordInv

LEMMA StepRecords == IInv /\ RecordInv /\ [Next]_vars => RecordInv'
<1> SUFFICES ASSUME IInv, RecordInv, [Next]_vars PROVE RecordInv'
  OBVIOUS
<1>1. CASE UNCHANGED people
  <2>1. \A c \in Code :
          IF member'[c] = None THEN trail'[c] = <<>> /\ news'[c] = None
          ELSE /\ Replays(trail'[c], Attributes(member'[c]))
               /\ news'[c] = Attributes(member'[c])
    BY <1>1 DEF RecordInv, OnRecord, people
  <2>2. OnRecord'
    BY <2>1 DEF OnRecord, Replays, Said, About, Latest, Attributes
  <2> QED  BY <1>1, <2>2 DEF RecordInv, people
<1>2. ASSUME NEW c \in Code, SignIn(c) \/ RefreshAccess(c) \/ Expire(c)
      PROVE  UNCHANGED people
  BY <1>2 DEF SignIn, RefreshAccess, Expire
<1>3. ASSUME NEW s \in Session,
             \/ Authenticate(s) \/ AllocateCode(s) \/ CreationFails(s)
             \/ LockMember(s) \/ MemberNotFound(s)
             \/ UpdateRefused(s) \/ NothingMoves(s)
             \/ ReadPicker(s) \/ DuplicateCode(s) \/ CreateRole(s)
      PROVE  UNCHANGED people
  BY <1>3 DEF Authenticate, AllocateCode, CreationFails, LockMember, MemberNotFound,
              UpdateRefused, NothingMoves, ReadPicker, DuplicateCode, CreateRole,
              RolledBack
<1>4. ASSUME NEW r \in Role, UpdateRole(r) PROVE UNCHANGED people
  BY <1>4 DEF UpdateRole
<1>5. UNCHANGED vars => UNCHANGED people
  BY DEF vars
<1> QED  BY <1>1, <1>2, <1>3, <1>4, <1>5, CreateMemberRecords, UpdateMemberRecords,
            SetMemberPasswordRecords DEF Next

\* Whoever edits a person at once with whom, their records replay to their row
\* and so do the events about them: update_member computes what moves from the
\* row it has locked, writes a record per field and saves the row it read.
THEOREM RosterReplays == Spec => []RosterIsOnRecord
<1>1. RecordInv => RosterIsOnRecord
  <2> SUFFICES ASSUME RecordInv, NEW c \in Code
               PROVE  IF ~Exists(c) THEN trail[c] = <<>> /\ news[c] = None
                      ELSE /\ Replays(trail[c], Attributes(member[c]))
                           /\ news[c] = Attributes(member[c])
                           /\ \A f \in Field, n \in Nat :
                                Told(c, f, n) = Said(trail[c], f, n)
                           /\ \A f \in Field : Attributes(member[c])[f] = member[c][f]
    BY DEF RosterIsOnRecord, Replays
  <2>1. \A f \in Field, n \in Nat : Told(c, f, n) = Said(trail[c], f, n)
    BY DEF Told, Said, About, Latest
  <2> QED  BY <2>1 DEF RecordInv, OnRecord, Exists, Attributes
<1> QED  BY <1>1, InductiveInvariant, InitRecords, StepRecords, PTL DEF Spec

-----------------------------------------------------------------------------
(***************************************************************************)
(* What would make a lockout impossible.  A request is served for an actor *)
(* whose row it reads without a lock; it would be enough that nobody else  *)
(* edits that row until the request ends.                                  *)
(***************************************************************************)
ActorsAreHeld ==
  \A s, x \in Session : s # x /\ pc[s] # "idle" /\ pc[x] = "locked" =>
    job[x].code # actor[s]

\* Of the requests in hand, none is served for somebody who has been retired.
ActorsStayActive ==
  /\ crossfire = FALSE
  /\ \A s \in Session : pc[s] # "idle" => Active(actor[s])

\* Somebody can administer the roster, if somebody could when it was seeded.
SomebodyLeads ==
  (\E c \in Code : SeedMember[c] # None /\ SeedMember[c].lead /\ SeedMember[c].active) =>
    \E c \in Code : Active(c) /\ member[c].lead

\* A step that leaves the people alone ends requests or moves them on.
LEMMA ActorsKept ==
  ASSUME ActorsStayActive, crossfire' = FALSE,
         \A c \in Code : Active(c) => Active(c)',
         \A x \in Session : pc'[x] # "idle" =>
           /\ pc[x] # "idle" /\ actor'[x] = actor[x] /\ actor[x] \in Code
  PROVE  ActorsStayActive'
BY DEF ActorsStayActive, Active, Exists

LEMMA ActorsStep ==
  ASSUME IInv, ActorsStayActive, ActorsAreHeld, [Next]_vars
  PROVE  ActorsStayActive'
<1>1. \A s \in Session : pc[s] # "idle" => actor[s] \in Code /\ job[s] \in Job
  BY DEF IInv, ActorsLead
<1>2. ASSUME UNCHANGED <<member, pc, actor, crossfire>>  PROVE ActorsStayActive'
  BY <1>2 DEF ActorsStayActive, Active, Exists
<1>3. ASSUME NEW s \in Session, Authenticate(s)  PROVE ActorsStayActive'
  BY <1>3 DEF Authenticate, ActorsStayActive, OpsLead, Active, Exists, people,
              IInv, TypeOK
<1>4. ASSUME NEW s \in Session, AllocateCode(s) \/ LockMember(s) \/ ReadPicker(s)
      PROVE  ActorsStayActive'
  BY <1>4 DEF AllocateCode, LockMember, ReadPicker, people, ActorsStayActive,
              Active, Exists, IInv, TypeOK
<1>5. ASSUME NEW s \in Session, RolledBack(s)  PROVE ActorsStayActive'
  <2>1. member' = member /\ crossfire' = crossfire
    BY <1>5 DEF RolledBack, people
  <2>2. \A x \in Session : pc'[x] # "idle" => pc[x] # "idle" /\ actor'[x] = actor[x]
    BY <1>5 DEF RolledBack, End, IInv, TypeOK
  <2> QED  BY <1>1, <2>1, <2>2, ActorsKept DEF ActorsStayActive, Active, Exists
<1>6. ASSUME NEW s \in Session, Committed(s), pc[s] # "idle"
      PROVE  /\ crossfire' = FALSE
             /\ \A x \in Session : pc'[x] # "idle" =>
                  x # s /\ pc[x] # "idle" /\ actor'[x] = actor[x]
  BY <1>6 DEF Committed, End, IInv, TypeOK, ActorsStayActive
<1>7. ASSUME NEW s \in Session, CreateRole(s)  PROVE ActorsStayActive'
  <2>1. Committed(s) /\ pc[s] # "idle" /\ member' = member
    BY <1>7 DEF CreateRole, people
  <2> QED  BY <1>1, <1>6, <2>1, ActorsKept DEF Active, Exists
<1>8. ASSUME NEW s \in Session, CreateMember(s)  PROVE ActorsStayActive'
  <2>1. /\ Committed(s) /\ pc[s] # "idle" /\ ~Exists(minted[s])
        /\ \A c \in Code : c # minted[s] => member'[c] = member[c]
    BY <1>8 DEF CreateMember, IInv, TypeOK
  <2>2. \A c \in Code : Active(c) => Active(c)'
    BY <2>1 DEF Active, Exists
  <2> QED  BY <1>1, <1>6, <2>1, <2>2, ActorsKept
<1>9. ASSUME NEW s \in Session, UpdateMember(s) \/ SetMemberPassword(s)
      PROVE  ActorsStayActive'
  <2>1. /\ Committed(s) /\ pc[s] = "locked"
        /\ \A c \in Code : c # job[s].code => member'[c] = member[c]
    BY <1>9 DEF UpdateMember, SetMemberPassword, IInv, TypeOK
  <2>2. crossfire' = FALSE
    BY <1>6, <2>1
  <2>3. \A x \in Session : pc'[x] # "idle" =>
          /\ pc[x] # "idle" /\ actor'[x] = actor[x] /\ actor[x] \in Code
          /\ member'[actor[x]] = member[actor[x]]
    BY <1>1, <1>6, <2>1 DEF ActorsAreHeld
  <2> QED  BY <2>2, <2>3 DEF ActorsStayActive, Active, Exists
<1>10. ASSUME NEW c \in Code, SignIn(c) \/ RefreshAccess(c) \/ Expire(c)
       PROVE  UNCHANGED <<member, pc, actor, crossfire>>
  BY <1>10 DEF SignIn, RefreshAccess, Expire, people, requests
<1>11. ASSUME NEW r \in Role, UpdateRole(r)
       PROVE  UNCHANGED <<member, pc, actor, crossfire>>
  BY <1>11 DEF UpdateRole, people, requests
<1>12. ASSUME NEW s \in Session,
              \/ CreationFails(s) \/ MemberNotFound(s) \/ UpdateRefused(s)
              \/ NothingMoves(s) \/ DuplicateCode(s)
       PROVE  RolledBack(s)
  BY <1>12 DEF CreationFails, MemberNotFound, UpdateRefused, NothingMoves,
               DuplicateCode
<1>13. UNCHANGED vars => UNCHANGED <<member, pc, actor, crossfire>>
  BY DEF vars, people, requests
<1> QED  BY <1>2, <1>3, <1>4, <1>5, <1>7, <1>8, <1>9, <1>10, <1>11, <1>12, <1>13
         DEF Next

\* If nobody edits the row of an actor whose request is in hand, an ops lead
\* always remains: the check that nobody retires themselves is then enough,
\* and the lock that is missing is the only thing that is.
THEOREM HeldActorsKeepALead == Spec /\ []ActorsAreHeld => []SomebodyLeads
<1>1. Init => ActorsStayActive
  BY DEF Init, ActorsStayActive
<1>2. IInv /\ ActorsStayActive /\ ActorsAreHeld /\ [Next]_vars => ActorsStayActive'
  BY ActorsStep
<1>3. LockoutNeedsARace /\ ActorsStayActive => SomebodyLeads
  BY DEF LockoutNeedsARace, ActorsStayActive, SomebodyLeads
<1> QED
  BY <1>1, <1>2, <1>3, InductiveInvariant, SomebodyStays, PTL DEF Spec
=============================================================================
