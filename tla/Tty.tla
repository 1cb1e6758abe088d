-------------------------------- MODULE Tty --------------------------------
(***************************************************************************)
(* The text screen of kernel/kernel/tty.c: what each character does to the *)
(* cells and the cursor.  A screen is a record of the cursor's row and     *)
(* column and of the rows of cells.                                        *)
(***************************************************************************)
EXTENDS Naturals, SequencesExt

CONSTANTS Width, Height   \* VGA_WIDTH, VGA_HEIGHT

ASSUME ScreenAssumption == {Width, Height} \subseteq Nat \ {0}

Space == " "
BlankRow == [x \in 0 .. Width - 1 |-> Space]
(* tty_clear.                                                              *)
Cleared == [row |-> 0, col |-> 0, cells |-> [y \in 0 .. Height - 1 |-> BlankRow]]

(* tty_scroll.                                                             *)
Scrolled(cells) ==
  [y \in 0 .. Height - 1 |-> IF y + 1 < Height THEN cells[y + 1] ELSE BlankRow]

NewLine(s) ==
  IF s.row + 1 < Height THEN [s EXCEPT !.row = @ + 1, !.col = 0]
  ELSE [s EXCEPT !.cells = Scrolled(@), !.col = 0]

(* '\b' stays in its row.                                                  *)
Back(s) == [s EXCEPT !.col = IF @ > 0 THEN @ - 1 ELSE 0]

(* A column past the last is left only when the next character comes.      *)
PutChar(s, c) ==
  LET t == IF s.col >= Width THEN NewLine(s) ELSE s
  IN  [t EXCEPT !.cells[t.row][t.col] = c, !.col = @ + 1]

Puts(s, str) == FoldLeft(PutChar, s, str)

(* The shell's "\b \b", n times.                                           *)
Erase(s, n) == FoldLeft(LAMBDA t, i : Back(PutChar(Back(t), Space)), s, [i \in 1 .. n |-> i])
=============================================================================
