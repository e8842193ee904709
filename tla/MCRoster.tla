------------------------------ MODULE MCRoster ------------------------------
(***************************************************************************)
(* Small instances of Roster for TLC.                                      *)
(***************************************************************************)
EXTENDS Roster, TLC

\* Three names, two of which share a stem.
Slug == ("Ana Gil" :> "ana.gil") @@ ("Ana Maria Gil" :> "ana.gil")
        @@ ("Leo Paz" :> "leo.paz")

\* Two ops leads.
Leads == [c \in Code |->
  IF c[2] = 1
  THEN [label |-> IF c[1] = "ana.gil" THEN "Ana Gil" ELSE "Leo Paz",
        role |-> None, capacity |-> 20, active |-> TRUE, lead |-> TRUE,
        password |-> TRUE]
  ELSE None]

Nothing == [label |-> Absent, role |-> Absent, capacity |-> Absent,
            active |-> Absent]

\* One filed under a role somebody may be creating meanwhile, without a password.
Sheets == {[label |-> "Ana Maria Gil", role |-> None, capacity |-> 20, password |-> TRUE],
           [label |-> "Ana Gil", role |-> "dev", capacity |-> 10, password |-> FALSE]}

\* Renaming, filing under a role with a new capacity, retiring, restoring.
Patches == {[Nothing EXCEPT !.label = "Ana Maria Gil"],
            [Nothing EXCEPT !.role = "ops", !.capacity = 10],
            [Nothing EXCEPT !.active = FALSE],
            [Nothing EXCEPT !.active = TRUE, !.role = None]}

Installed == <<"ops">>

Symmetric == Permutations(Session)
=============================================================================
