----------------------------- MODULE MCDesktop -----------------------------
(***************************************************************************)
(* A screen of two by two pixels with an icon of each kind and a close     *)
(* box, a mouse that moves along both diagonals and presses, and the       *)
(* desktop's liveness.                                                     *)
(***************************************************************************)
EXTENDS Desktop

MCReports == {<<8, 1, 255>>, <<9, 255, 1>>}
Box(left_, top, action) == [x |-> left_, y |-> top, w |-> 1, h |-> 1, action |-> action]
MCIcons == <<Box(0, 0, "launch"), Box(1, 0, "reboot")>>
MCCloseBox == [x |-> 0, y |-> 1, w |-> 1, h |-> 1]

(* The fingerprint leaves out what will be overwritten before it is read.  *)
Shown(live, v) == IF live THEN v ELSE 0
Live == <<[i \in 1 .. cycle |-> packet[i - 1]], cycle, pointerVars, installed, polls,
          Shown(sent > 0, report), sent, flowVars, mx, my, dirty,
          Shown(pc = "call_y", cx), drawn, fileVars, ints,
          Shown(pc \in {"read_y", "call_y", "test", "reset"}, still)>>

(* While no program runs, a click is taken.                                *)
InLoop == pc \in LoopSteps /\ call = "none"
ClickTaken == InLoop /\ click ~> ~click

(* In the desktop a pointer that stays where it is is drawn there.         *)
CursorFollows ==
  \A p \in (0 .. Width - 1) \X (0 .. Height - 1) :
    <>[](InLoop /\ <<x, y>> = p) => <>[](drawn = p)
=============================================================================
