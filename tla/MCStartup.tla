----------------------------- MODULE MCStartup -----------------------------
(***************************************************************************)
(* Small instances of Startup: one project of the fixtures and one an      *)
(* operator creates; a sheet of two tasks, and two lines it may grow by.   *)
(***************************************************************************)
EXTENDS Startup, TLC

CONSTANTS p1, p2, a, b, gone, v1, v2, plan, build, ship, w1, w2,
          seeder

TwoProjects == p1 :> a @@ p2 :> None

\* build waits for plan; plan waits for something the sheet does not name.
TwoTasks == << [project |-> p1, title |-> plan, needs |-> ship],
               [project |-> p1, title |-> build, needs |-> plan] >>
MoreTasks == {[project |-> p1, title |-> plan, needs |-> build],
              [project |-> p1, title |-> ship, needs |-> ship]}

Workers == Permutations({w1, w2})
=============================================================================
