----------------------------- MODULE TypeAhead -----------------------------
(***************************************************************************)
(* What the keyboard promises its readers: the characters of the keys, in  *)
(* the order of the key presses, each given out once; a character is lost  *)
(* only while Capacity others wait.                                        *)
(***************************************************************************)
EXTENDS Naturals, Sequences

CONSTANTS Keys, Shifts, Plain, Shifted, None, Capacity

VARIABLES shift,    \* whether capitals are typed
          waiting,  \* the characters nobody has read yet
          answer,   \* what the last read returned
          key, beat \* the last key pressed, and a bit that each press flips

CharOf(k) == IF shift THEN Shifted[k] ELSE Plain[k]

Init == shift = FALSE /\ waiting = <<>> /\ answer = None /\ key = None /\ beat = FALSE

Press(k) ==
  /\ key' = k /\ beat' = ~beat /\ shift' = (shift \/ k \in Shifts)
  /\ waiting' = IF k \in Shifts \/ CharOf(k) = None \/ Len(waiting) = Capacity
                  THEN waiting
                  ELSE Append(waiting, CharOf(k))
  /\ UNCHANGED answer

Lift == shift' = FALSE /\ UNCHANGED <<waiting, answer, key, beat>>

Answer ==
  /\ waiting # <<>> /\ answer' = Head(waiting) /\ waiting' = Tail(waiting)
  /\ UNCHANGED <<shift, key, beat>>

NothingTyped ==
  /\ waiting = <<>> /\ answer' = None /\ UNCHANGED <<shift, waiting, key, beat>>

Next == (\E k \in Keys : Press(k)) \/ Lift \/ Answer \/ NothingTyped

Spec == Init /\ [][Next]_<<shift, waiting, answer, key, beat>>
=============================================================================
