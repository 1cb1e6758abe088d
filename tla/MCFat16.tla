------------------------------ MODULE MCFat16 ------------------------------
(***************************************************************************)
(* Fat16 on a small volume, and that its calls return.                     *)
(***************************************************************************)
EXTENDS Fat16Promise

CONSTANTS a, u, d1
MCNames == {a, u}
MCData == {d1}

(* What the driver can still read: a free cluster's old contents do not    *)
(* tell two states apart, nor does the view of a block that is not its     *)
(* last written one.                                                       *)
Readable == <<fat, [d \in {Root} \cup dirSet |-> dirs[d]],
              [c \in {c \in Cluster : fat[c] # Free} \ dirSet |-> data[c]],
              cwd, nextHidden, pc, op, trail, damage>>

(* Bounds on the search: the runs stop where something has gone wrong that *)
(* their properties make an exception of.                                  *)
Clean == damage = {}
CleanButOrphans == damage \subseteq {"orphan"}

(* Every call returns, also on a full volume: no chain it walks is a ring.  *)
CallsReturn == pc # "idle" ~> pc = "idle"
=============================================================================
