------------------------------- MODULE Roster -------------------------------
(***************************************************************************)
(* The people of the operation (apps/accounts), the roles they are filed   *)
(* under (apps/catalog) and who may edit both (config/auth.py).            *)
(*                                                                         *)
(* A request is authenticated before its transaction opens: the token      *)
(* names a user whose row is read without a lock.  The transaction then    *)
(* locks the row it edits and saves every column of it, so what it read    *)
(* when it took the lock is what it writes back.                           *)
(***************************************************************************)
EXTENDS Naturals, Sequences, FiniteSets

CONSTANTS
  Label,       \* display names
  Stem,        \* of a label: the slug its code starts from
  Role,        \* codes of roles
  Points,      \* values of weekly_capacity_points
  Session,     \* requests served at once
  New, Change, \* what a POST and a PATCH of a member come with
  SeedMember,  \* the people of the fixtures
  SeedRole,    \* the roles of the fixtures, in the order of the picker
  CodeLimit,   \* bound: people of one stem
  EditLimit,   \* bound: commits in a behaviour
  Absent,      \* a field a PATCH does not send
  None

\* A person's code: the stem, and the number appended when it is taken.
Code == {Stem[n] : n \in Label} \X (1..CodeLimit)

Member == [label : Label, role : Role \cup {None}, capacity : Points,
           active : BOOLEAN, lead : BOOLEAN, password : BOOLEAN]

Sent == [label : Label \cup {Absent}, role : Role \cup {None, Absent},
         capacity : Points \cup {Absent}, active : BOOLEAN \cup {Absent}]

Field == {"label", "role", "capacity", "active"}

NewMember == [label : Label, role : Role \cup {None}, capacity : Points,
              password : BOOLEAN]

Job == [op : {"create"}, row : New]
       \cup [op : {"update"}, code : Code, change : Change]
       \cup [op : {"password"}, code : Code]
       \cup [op : {"role"}, code : Role]

ASSUME BodiesAssumption == New \subseteq NewMember /\ Change \subseteq Sent
ASSUME SeedAssumption ==
  /\ SeedMember \in [Code -> Member \cup {None}]
  /\ \A i, j \in DOMAIN SeedRole : SeedRole[i] = SeedRole[j] => i = j
  /\ SeedRole \in Seq(Role)
ASSUME NothingIsNobody ==
  /\ None \notin Nat /\ None \notin Role /\ None \notin Member
  /\ None \notin Code /\ None \notin Job
  /\ Absent \notin Label /\ Absent \notin Points /\ Absent \notin Role \cup {None}
  /\ Absent \notin BOOLEAN
ASSUME LimitsAreNatural == CodeLimit \in Nat /\ EditLimit \in Nat

VARIABLES
  member,    \* accounts_user
  access,    \* people who hold an access token that has not expired
  refresh,   \* people who hold a refresh token that has not expired
  order,     \* of a role: its place in the picker, None before it exists
  inService, \* roles with is_active
  trail,     \* of a person: the activity records about them
  news,      \* of a person: what the member events have said last
  pc, actor, job,  \* what each request is doing, for whom, and its body
  seen,      \* the row it has locked
  minted,    \* the code it has computed for a person
  place,     \* the order it has computed for a role, and the roles it saw
  edits,
  crossfire, \* history: a request committed for an actor retired meanwhile
  before     \* history: pairs of roles, the first committed before the
             \* creation of the second read the picker

people   == <<member, trail, news>>
tokens   == <<access, refresh>>
picker   == <<order, inService, before>>
requests == <<pc, actor, job, seen, minted, place>>
vars     == <<people, tokens, picker, requests, edits, crossfire>>

-----------------------------------------------------------------------------
Attributes(m) == [f \in Field |-> m[f]]

Entry(field, from, to) == [field |-> field, from |-> from, to |-> to]

Init ==
  /\ member = SeedMember
  /\ access = {} /\ refresh = {}
  /\ order = [r \in Role |->
       IF \E i \in DOMAIN SeedRole : SeedRole[i] = r
       THEN (CHOOSE i \in DOMAIN SeedRole : SeedRole[i] = r) - 1 ELSE None]
  /\ inService = {SeedRole[i] : i \in DOMAIN SeedRole}
  /\ trail = [c \in Code |->
       IF member[c] = None THEN <<>>
       ELSE <<Entry("all", None, Attributes(member[c]))>>]
  /\ news = [c \in Code |-> IF member[c] = None THEN None ELSE Attributes(member[c])]
  /\ pc = [s \in Session |-> "idle"]
  /\ actor = [s \in Session |-> None]
  /\ job = [s \in Session |-> None]
  /\ seen = [s \in Session |-> None]
  /\ minted = [s \in Session |-> None]
  /\ place = [s \in Session |-> None]
  /\ edits = 0
  /\ crossfire = FALSE
  /\ before = {<<SeedRole[i], SeedRole[j]>> :
                 i \in DOMAIN SeedRole, j \in DOMAIN SeedRole}
              \cap {p \in Role \X Role : order[p[1]] < order[p[2]]}

Exists(c) == member[c] # None

Active(c) == Exists(c) /\ member[c].active

-----------------------------------------------------------------------------
(* Tokens. *)

\* authenticate refuses people who are not active or have no usable password.
SignIn(c) ==
  /\ Active(c) /\ member[c].password
  /\ access' = access \cup {c} /\ refresh' = refresh \cup {c}
  /\ UNCHANGED <<people, picker, requests, edits, crossfire>>

\* refresh_access reads the row again.
RefreshAccess(c) ==
  /\ c \in refresh /\ Active(c)
  /\ access' = access \cup {c}
  /\ UNCHANGED <<refresh, people, picker, requests, edits, crossfire>>

Expire(c) ==
  /\ \/ access' = access \ {c} /\ c \in access /\ UNCHANGED refresh
     \/ refresh' = refresh \ {c} /\ c \in refresh /\ UNCHANGED access
  /\ UNCHANGED <<people, picker, requests, edits, crossfire>>

\* OpsLeadAuth: the row behind the token is active, and is_staff.
OpsLead(c) == c \in access /\ Active(c) /\ member[c].lead

Authenticate(s) ==
  /\ pc[s] = "idle"
  /\ \E c \in Code, j \in Job :
       /\ OpsLead(c)
       /\ actor' = [actor EXCEPT ![s] = c]
       /\ job' = [job EXCEPT ![s] = j]
  /\ pc' = [pc EXCEPT ![s] = "admitted"]
  /\ UNCHANGED <<people, tokens, picker, seen, minted, place, edits, crossfire>>

-----------------------------------------------------------------------------
(* Requests. *)

End(s) ==
  /\ pc' = [pc EXCEPT ![s] = "idle"]
  /\ actor' = [actor EXCEPT ![s] = None]
  /\ job' = [job EXCEPT ![s] = None]
  /\ seen' = [seen EXCEPT ![s] = None]
  /\ minted' = [minted EXCEPT ![s] = None]
  /\ place' = [place EXCEPT ![s] = None]

\* Any error: nothing of the transaction stays.
RolledBack(s) ==
  /\ End(s)
  /\ UNCHANGED <<people, tokens, picker, edits, crossfire>>

Committed(s) ==
  /\ edits < EditLimit
  /\ edits' = edits + 1
  /\ crossfire' = (crossfire \/ ~Active(actor[s]))
  /\ End(s)

Created == {r \in Role : order[r] # None}

Known(r) == r \in {None} \cup Created

\* allocate_code: the stem, or the stem with the lowest free number.
FreeCodes(label) == {c \in Code : c[1] = Stem[label] /\ ~Exists(c)}

AllocateCode(s) ==
  /\ pc[s] = "admitted" /\ job[s].op = "create"
  /\ \E c \in FreeCodes(job[s].row.label) :
       /\ \A d \in FreeCodes(job[s].row.label) : c[2] <= d[2]
       /\ minted' = [minted EXCEPT ![s] = c]
  /\ pc' = [pc EXCEPT ![s] = "minted"]
  /\ UNCHANGED <<people, tokens, picker, actor, job, seen, place, edits, crossfire>>

\* Another request took the code meanwhile, or the role is not there.
CreationFails(s) ==
  /\ pc[s] = "minted" /\ job[s].op = "create"
  /\ Exists(minted[s]) \/ ~Known(job[s].row.role)
  /\ RolledBack(s)

CreateMember(s) ==
  /\ pc[s] = "minted" /\ job[s].op = "create"
  /\ LET c == minted[s]
         row == job[s].row
         new == [label |-> row.label, role |-> row.role, capacity |-> row.capacity,
                 active |-> TRUE, lead |-> FALSE, password |-> row.password]
     IN  /\ ~Exists(c) /\ Known(row.role)
         /\ member' = [member EXCEPT ![c] = new]
         /\ trail' = [trail EXCEPT ![c] =
                        Append(@, Entry("all", None, Attributes(new)))]
         /\ news' = [news EXCEPT ![c] = Attributes(new)]
  /\ Committed(s)
  /\ UNCHANGED <<tokens, picker>>

\* Mutant: the row is read without FOR UPDATE.
Unlocked(c) == TRUE

\* No other transaction holds the row of the person.
Lockable(c) == \A s \in Session : pc[s] = "locked" => job[s].code # c

\* select_for_update, and what is read under the lock.
LockMember(s) ==
  /\ pc[s] = "admitted" /\ job[s].op \in {"update", "password"}
  /\ Exists(job[s].code) /\ Lockable(job[s].code)
  /\ seen' = [seen EXCEPT ![s] = member[job[s].code]]
  /\ pc' = [pc EXCEPT ![s] = "locked"]
  /\ UNCHANGED <<people, tokens, picker, actor, job, minted, place, edits, crossfire>>

MemberNotFound(s) ==
  /\ pc[s] = "admitted" /\ job[s].op \in {"update", "password"}
  /\ ~Exists(job[s].code)
  /\ RolledBack(s)

\* Mutant: people may retire themselves.
Tolerated(s) == FALSE

\* CannotDeactivateSelf
RetiresSelf(s) == job[s].change.active = FALSE /\ job[s].code = actor[s]

\* The fields a PATCH moves: sent, and not what the row says already.
Moves(s) == {f \in Field : /\ job[s].change[f] # Absent
                           /\ job[s].change[f] # seen[s][f]}

UpdateRefused(s) ==
  /\ pc[s] = "locked" /\ job[s].op = "update"
  /\ RetiresSelf(s) \/ (job[s].change.role # Absent /\ ~Known(job[s].change.role))
  /\ RolledBack(s)

\* Sending what the row says already is a success that writes nothing.
NothingMoves(s) ==
  /\ pc[s] = "locked" /\ job[s].op = "update"
  /\ ~RetiresSelf(s) /\ Moves(s) = {}
  /\ RolledBack(s)

\* member.save() writes every column; one record is written per field, in
\* the order of the fields, and the events carry the row after the edit.
UpdateMember(s) ==
  /\ pc[s] = "locked" /\ job[s].op = "update"
  /\ ~RetiresSelf(s) /\ Moves(s) # {}
  /\ job[s].change.role = Absent \/ Known(job[s].change.role)
  /\ LET c == job[s].code
         new == [f \in DOMAIN seen[s] |->
                   IF f \in Moves(s) THEN job[s].change[f] ELSE seen[s][f]]
         Record(f) == IF f \in Moves(s) THEN <<Entry(f, seen[s][f], new[f])>> ELSE <<>>
         told == (IF Moves(s) \ {"active"} # {} THEN {"label", "role", "capacity"} ELSE {})
                 \cup (IF "active" \in Moves(s) THEN {"label", "active"} ELSE {})
     IN  /\ member' = [member EXCEPT ![c] = new]
         /\ trail' = [trail EXCEPT ![c] = @ \o Record("label") \o Record("role")
                                            \o Record("capacity") \o Record("active")]
         /\ news' = [news EXCEPT ![c] =
                       [f \in Field |-> IF f \in told THEN new[f] ELSE @[f]]]
  /\ Committed(s)
  /\ UNCHANGED <<tokens, picker>>

\* Only the password is saved; there is a record and no event.
SetMemberPassword(s) ==
  /\ pc[s] = "locked" /\ job[s].op = "password"
  /\ LET c == job[s].code IN
       /\ member' = [member EXCEPT ![c].password = TRUE]
       /\ trail' = [trail EXCEPT ![c] = Append(@, Entry("password", None, None))]
  /\ Committed(s)
  /\ UNCHANGED <<news, tokens, picker>>

-----------------------------------------------------------------------------
(* Roles. *)

\* Mutant: retired roles do not count.
LastOfPicker == {order[r] : r \in inService}

\* The orders a new role comes after.
Places == {order[r] : r \in Created}

\* create_role reads the last order without a lock; a taken code, a retired
\* role's too, is a conflict.
ReadPicker(s) ==
  /\ pc[s] = "admitted" /\ job[s].op = "role"
  /\ order[job[s].code] = None
  /\ \E n \in 0..Cardinality(Role) :
       /\ \A m \in Places : m < n
       /\ n = 0 \/ n - 1 \in Places
       /\ place' = [place EXCEPT ![s] = [order |-> n, after |-> Created]]
  /\ pc' = [pc EXCEPT ![s] = "minted"]
  /\ UNCHANGED <<people, tokens, picker, actor, job, seen, minted, edits, crossfire>>

DuplicateCode(s) ==
  /\ job[s] # None /\ job[s].op = "role"
  /\ order[job[s].code] # None
  /\ RolledBack(s)

CreateRole(s) ==
  /\ pc[s] = "minted" /\ job[s].op = "role"
  /\ LET r == job[s].code IN
       /\ order[r] = None
       /\ order' = [order EXCEPT ![r] = place[s].order]
       /\ inService' = inService \cup {r}
       /\ before' = before \cup (place[s].after \X {r})
  /\ Committed(s)
  /\ UNCHANGED <<people, tokens>>

\* Mutant: TaxonomyRowNotFound is never raised.
AnyCode(r) == TRUE

RoleFound(r) == order[r] # None

\* The row is locked from its reading to its saving.
UpdateRole(r) ==
  /\ edits < EditLimit /\ edits' = edits + 1
  /\ RoleFound(r)
  /\ inService' = IF r \in inService THEN inService \ {r} ELSE inService \cup {r}
  /\ UNCHANGED <<people, tokens, order, before, requests, crossfire>>

-----------------------------------------------------------------------------
\* Bound: the commits made and those of the requests that were begun.
Room == edits + Cardinality({s \in Session : pc[s] # "idle"}) < EditLimit

Next ==
  \/ \E c \in Code : SignIn(c) \/ RefreshAccess(c) \/ Expire(c)
  \/ Room /\ \/ \E r \in Role : UpdateRole(r)
             \/ \E s \in Session : Authenticate(s)
  \/ \E s \in Session :
       \/ AllocateCode(s) \/ CreationFails(s) \/ CreateMember(s)
       \/ LockMember(s) \/ MemberNotFound(s)
       \/ UpdateRefused(s) \/ NothingMoves(s) \/ UpdateMember(s)
       \/ SetMemberPassword(s)
       \/ ReadPicker(s) \/ DuplicateCode(s) \/ CreateRole(s)

Spec == Init /\ [][Next]_vars

-----------------------------------------------------------------------------
(* Properties. *)

TypeOK ==
  /\ member \in [Code -> Member \cup {None}]
  /\ access \subseteq Code /\ refresh \subseteq Code
  /\ order \in [Role -> Nat \cup {None}]
  /\ inService \subseteq Created
  /\ pc \in [Session -> {"idle", "admitted", "minted", "locked"}]
  /\ actor \in [Session -> Code \cup {None}]
  /\ job \in [Session -> Job \cup {None}]
  /\ seen \in [Session -> Member \cup {None}]
  /\ minted \in [Session -> Code \cup {None}]
  /\ place \in [Session -> [order : Nat, after : SUBSET Role] \cup {None}]
  /\ edits \in 0..EditLimit /\ crossfire \in BOOLEAN
  /\ before \subseteq Role \X Role

\* Somebody can still administer the roster, unless two ops leads retired one
\* another at once: an actor may not retire their own account, but is read
\* before the transaction (accounts/domain/errors.py, CannotDeactivateSelf).
LockoutNeedsARace ==
  (\E c \in Code : SeedMember[c] # None /\ SeedMember[c].lead /\ SeedMember[c].active) =>
    (\E c \in Code : Active(c) /\ member[c].lead) \/ crossfire

\* What the trail says of a field of a person after its first n records.
Told(c, f, n) ==
  LET about == {i \in 1..n : trail[c][i].field \in {f, "all"}}
      i     == CHOOSE i \in about : \A j \in about : j <= i
  IN  IF trail[c][i].field = "all" THEN trail[c][i].to[f] ELSE trail[c][i].to

\* The records about a person replay to the row, each starting where the one
\* before it ended and changing something, and so do the events: two edits of
\* one person never lose one another (update_member locks, then saves all).
RosterIsOnRecord ==
  \A c \in Code :
    IF ~Exists(c) THEN trail[c] = <<>> /\ news[c] = None
    ELSE /\ \A f \in Field : Told(c, f, Len(trail[c])) = member[c][f]
         /\ \A i \in 2..Len(trail[c]) :
              LET e == trail[c][i] IN
                e.field \in Field => /\ e.from = Told(c, e.field, i - 1)
                                     /\ e.from # e.to
         /\ \A i \in 2..Len(trail[c]) : trail[c][i].field # "all"
         /\ news[c] = Attributes(member[c])

\* A role stays behind those that were in the picker when it was created
\* ("goes last in the picker", docs/API.md), whatever is retired between.
RolesKeepTheirPlace == \A p \in before : order[p[1]] < order[p[2]]
=============================================================================
