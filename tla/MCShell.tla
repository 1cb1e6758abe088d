------------------------------ MODULE MCShell ------------------------------
(***************************************************************************)
(* Two users and a name that register refuses, a password with a colon,    *)
(* and a tree whose deepest path does not fit into the prompt and one of   *)
(* whose names has a slash.                                                *)
(***************************************************************************)
EXTENDS Shell

MCDirectories == {<<>>, <<"a">>, <<"a", "b">>, <<"a", "b", "c">>, <<"a", "b", "c", "a">>, <<"d/e">>}
MCPieces == [d \in {"a", "b", "c", "d/e"} |-> IF d = "d/e" THEN 2 ELSE 1]
=============================================================================
