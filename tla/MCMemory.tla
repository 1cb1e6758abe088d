------------------------------ MODULE MCMemory ------------------------------
(***************************************************************************)
(* Memory with fourteen pages: four below the back buffer, which is two,   *)
(* one before the user window of four, one of them stack, and one behind;  *)
(* sixteen are the width.  Programs of all shapes: a file shorter than its *)
(* header says, sizes too large for the window, and sizes whose sum wraps. *)
(***************************************************************************)
EXTENDS Memory

MCBack == {6, 7}
MCImages == {<<1, 1, 0>>, <<1, 0, 1>>, <<1, 1, 1>>, <<1, 2, 0>>, <<3, 3, 1>>, <<3, 3, 3>>,
             <<2, 2, 15>>, <<1, 15, 2>>, <<2, 14, 2>>}

(* The fingerprint of a state has only the contents that are mapped: what  *)
(* another page holds is overwritten before a program sees it, but for the *)
(* pages of the window, which StartsClean leaves out.                      *)
Seen == <<used, freePages, userPt, [s \in Mapped |-> content[userPt[s]]],
          pc, at, size, load, bss, p1, p2, spent, lost>>
=============================================================================
