---------------------------- MODULE MCLifecycle ----------------------------
(***************************************************************************)
(* Small instances of Lifecycle for TLC.                                   *)
(***************************************************************************)
EXTENDS Lifecycle, TLC

Flows == {"default", "second", "projects"}

\* Two lifecycles for tasks and one for projects, installed but for the last.
KindOfFlow == [w \in Flows |-> IF w = "projects" THEN "project" ELSE "task"]
DefaultFlow == [k \in Kinds |-> IF k = "task" THEN "default" ELSE "projects"]

Installed == {<<"default", "a">>, <<"default", "b">>, <<"second", "a">>}
Entries   == {<<"default", "a">>, <<"second", "a">>}
Drawn     == {<<<<"default", "a">>, <<"default", "b">>>>}

Requesters == Permutations(Session)
=============================================================================
