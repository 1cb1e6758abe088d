------------------------------- MODULE Trees -------------------------------
(***************************************************************************)
(* Directory trees as sets of entries: each is in one directory (dir) and  *)
(* may be another (sub, which is Root for a file).                         *)
(***************************************************************************)
CONSTANTS Ids,   \* what directories are known by
          Root   \* the one that is always there

Closed(S, T) == \A e \in T : e.dir \in S => e.sub \in S
Reach(T) == {d \in Ids : \A S \in SUBSET Ids : Root \in S /\ Closed(S, T) => d \in S}
Rooted(T) == UNION {{e \in T : e.dir = d} : d \in Reach(T)}
=============================================================================
