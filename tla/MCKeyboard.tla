----------------------------- MODULE MCKeyboard -----------------------------
(***************************************************************************)
(* A ring of four slots, and keys that have two characters, one, or none.  *)
(***************************************************************************)
EXTENDS Keyboard

MCKeys == {"lshift", "a", "esc", "up"}
MCShifts == {"lshift"}
Table(a) ==
  [k \in MCKeys |-> CASE k = "a" -> a [] k = "esc" -> "ESC" [] OTHER -> "0"]
MCPlain == Table("a")
MCShifted == Table("A")
=============================================================================
