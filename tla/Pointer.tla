------------------------------ MODULE Pointer ------------------------------
(***************************************************************************)
(* What a mouse promises whoever looks at it: while it is steady, pointer  *)
(* and buttons change by whole reports and by nothing else; it becomes     *)
(* unsteady only while it is being set up; unsteady, its reports may be    *)
(* anything, but the pointer stays on the screen.  A press is remembered   *)
(* until it is taken, once.                                                *)
(***************************************************************************)
EXTENDS Integers

CONSTANTS Width, Height,
          Moves     \* what a report can say: [dx, dy, left, right]

VARIABLES x, y,         \* the pointer
          left, right,  \* the buttons
          click,        \* the left button was down and nobody was told
          steady,       \* reports are understood
          setup         \* the mouse is being set up

Screen == (0 .. Width - 1) \X (0 .. Height - 1)
Within(v, n) == IF v < 0 THEN 0 ELSE IF v < n THEN v ELSE n - 1

Init == /\ <<x, y>> \in Screen /\ left = FALSE /\ right = FALSE /\ click = FALSE
        /\ steady = TRUE /\ setup = FALSE

Report ==
  /\ steady /\ steady' /\ UNCHANGED setup
  /\ \E m \in Moves :
       /\ x' = Within(x + m.dx, Width) /\ y' = Within(y - m.dy, Height)
       /\ left' = m.left /\ right' = m.right /\ click' = (click \/ m.left)

(* A report that is not understood; and how steadiness changes hands.      *)
Noise ==
  /\ ~steady \/ setup
  /\ <<x', y'>> \in Screen /\ <<left', right'>> \in BOOLEAN \X BOOLEAN
  /\ click' \in BOOLEAN /\ (click => click') /\ (click' => click \/ left')
  /\ steady' \in BOOLEAN /\ UNCHANGED setup

SetUp ==
  /\ setup' = ~setup /\ UNCHANGED <<left, right, click>>
  /\ <<x', y'>> \in Screen /\ (steady' <=> steady)
  /\ setup' => UNCHANGED <<x, y>>

Take == click /\ click' = FALSE /\ UNCHANGED <<x, y, left, right, steady, setup>>

Next == Report \/ Noise \/ SetUp \/ Take
Spec == Init /\ [][Next]_<<x, y, left, right, click, steady, setup>>
=============================================================================
