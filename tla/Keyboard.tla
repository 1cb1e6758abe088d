------------------------------ MODULE Keyboard ------------------------------
(***************************************************************************)
(* The keyboard driver of kernel/kernel/keyboard.c: interrupts put         *)
(* characters into a ring while a reader, between any two of its accesses  *)
(* to the ring's indices, takes them out.                                  *)
(***************************************************************************)
EXTENDS Naturals, Sequences

CONSTANTS Slots,         \* KEYBOARD_BUFFER_SIZE
          Keys, Shifts,  \* the keys, and which of them shift
          Plain, Shifted, None  \* kbd_us and kbd_us_shift; None is character 0

ASSUME SlotsAssumption == Slots \in Nat /\ Slots > 1
ASSUME KeysAssumption == Shifts \subseteq Keys /\ None \notin Keys

Char == {Plain[k] : k \in Keys} \cup {Shifted[k] : k \in Keys} \cup {None}
ASSUME TablesAssumption == DOMAIN Plain = Keys /\ DOMAIN Shifted = Keys

VARIABLES ring, head, tail, shift,   \* kb_buffer, kb_head, kb_tail, kb_shift
          pc, c,                     \* where the reader is, and its local c
          answer,                    \* what the last read returned (history)
          key, beat                  \* the last key pressed; flips (history)

vars == <<ring, head, tail, shift, pc, c, answer, key, beat>>
readerVars == <<tail, pc, c, answer>>
Index == 0 .. Slots - 1

Init ==
  /\ ring = [i \in Index |-> None] /\ head = 0 /\ tail = 0 /\ shift = FALSE
  /\ pc = "away" /\ c = None /\ answer = None /\ key = None /\ beat = FALSE

After(i) == (i + 1) % Slots

-----------------------------------------------------------------------------
(* The interrupt: keyboard_handle of a scancode without, and with, bit 7.  *)
CharOf(k) == IF shift THEN Shifted[k] ELSE Plain[k]

(* (A mutant: the ring is never full.)                                     *)
AlwaysRoom == TRUE
Room == After(head) # tail
Entered(ch) ==
  IF ch # None /\ Room THEN ring' = [ring EXCEPT ![head] = ch] /\ head' = After(head)
  ELSE UNCHANGED <<ring, head>>

Press(k) ==
  /\ key' = k /\ beat' = ~beat /\ UNCHANGED readerVars
  /\ \/ k \in Shifts /\ shift' = TRUE /\ UNCHANGED <<ring, head>>
     \/ k \notin Shifts /\ Entered(CharOf(k)) /\ UNCHANGED shift

Lift(k) ==
  /\ k \in Shifts /\ shift' = FALSE
  /\ UNCHANGED <<ring, head, key, beat, readerVars>>

-----------------------------------------------------------------------------
(* The reader: keyboard_getchar and keyboard_getchar_nonblock.             *)
At(from, to) == pc = from /\ pc' = to
Typed == head # tail

Getchar == At("away", "waits") /\ UNCHANGED <<ring, head, tail, shift, c, answer, key, beat>>
Sees == At("waits", "reads") /\ Typed /\ UNCHANGED <<ring, head, tail, shift, c, answer, key, beat>>
Reads == At("reads", "frees") /\ c' = ring[tail] /\ UNCHANGED <<ring, head, tail, shift, answer, key, beat>>
(* Line 90 or 99: the slot is free, and c is returned.                     *)
Frees ==
  /\ At("frees", "away") /\ tail' = After(tail) /\ answer' = c
  /\ UNCHANGED <<ring, head, shift, c, key, beat>>

GetcharNonblock ==
  /\ At("away", IF Typed THEN "reads" ELSE "away")
  /\ answer' = IF Typed THEN answer ELSE None
  /\ UNCHANGED <<ring, head, tail, shift, c, key, beat>>

Interrupt == \E k \in Keys : Press(k) \/ Lift(k)
Reader == Getchar \/ GetcharNonblock \/ Sees \/ Reads \/ Frees

Next == Interrupt \/ Reader
Spec == Init /\ [][Next]_vars

-----------------------------------------------------------------------------
(* Every value that the driver keeps is in its range.                      *)
TypeOK ==
  /\ ring \in [Index -> Char] /\ head \in Index /\ tail \in Index
  /\ shift \in BOOLEAN /\ beat \in BOOLEAN /\ key \in Keys \cup {None}
  /\ pc \in {"away", "waits", "reads", "frees"} /\ c \in Char /\ answer \in Char

(* The characters in the ring, oldest first.                               *)
Count == IF tail <= head THEN head - tail ELSE head - tail + Slots
SlotOf(i) == IF tail + i - 1 < Slots THEN tail + i - 1 ELSE tail + i - 1 - Slots
Contents == [i \in 1 .. Count |-> ring[SlotOf(i)]]

(* The driver keeps the keyboard's promise: interrupts between a reader's  *)
(* look at a slot and its freeing neither lose, double nor reorder keys,   *)
(* and only a full ring drops one.                                         *)
Promise == INSTANCE TypeAhead WITH waiting <- Contents, Capacity <- Slots - 1
KeepsPromise == Promise!Spec
=============================================================================
