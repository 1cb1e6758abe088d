----------------------------- MODULE LineEditor -----------------------------
(***************************************************************************)
(* sh_read_line and sh_hist_add of shell.c: the line that is typed, what   *)
(* the screen shows of it, and the ring of earlier lines that escape       *)
(* sequences walk through.                                                 *)
(***************************************************************************)
EXTENDS Tty

CONSTANTS LineMax, HistMax,  \* SHELL_LINE_MAX, SHELL_HIST_MAX
          Letters,           \* the printable characters that are typed
          Prompt             \* what sh_prompt prints

ASSUME HistAssumption == {LineMax, HistMax} \subseteq Nat \ {0, 1}
ASSUME LettersAssumption == {"[", "A", "B"} \subseteq Letters /\ Space \notin Letters
ASSUME PromptAssumption == Prompt \in Seq(Range(Prompt)) /\ Len(Prompt) < Width

VARIABLES out,               \* the characters before pos
          nav,               \* hist_nav
          escape,            \* how much of an escape sequence has come
          hist, count, next, \* sh_hist, sh_hist_count, sh_hist_head
          screen,
          log,               \* the last HistMax lines entered (history)
          wrapped            \* whether the line left its row (history)

lineVars == <<out, nav, escape, hist, count, next, screen, log, wrapped>>
histVars == <<hist, count, next, log>>
HistSlot == 0 .. HistMax - 1

LineInit ==
  /\ out = <<>> /\ nav = 0 /\ escape = "none" /\ count = 0 /\ next = 0
  /\ hist = [i \in HistSlot |-> <<>>] /\ log = <<>>
  /\ screen = Puts(Cleared, Prompt) /\ wrapped = FALSE

-----------------------------------------------------------------------------
Wraps(line) == Len(Prompt) + Len(line) > Width

HasRoom == Len(out) < LineMax - 1
Letter(c) ==
  /\ escape = "none"
  /\ IF HasRoom THEN out' = Append(out, c) /\ screen' = PutChar(screen, c)
     ELSE UNCHANGED <<out, screen>>
  /\ wrapped' = (wrapped \/ Wraps(out'))
  /\ UNCHANGED <<nav, escape, histVars>>

Backspace ==
  /\ escape = "none" /\ out # <<>>
  /\ out' = Front(out) /\ screen' = Erase(screen, 1)
  /\ UNCHANGED <<nav, escape, histVars, wrapped>>

-----------------------------------------------------------------------------
(* The slot of the entry that nav names, oldest first.  (A mutant: it      *)
(* forgets that the ring turns.)                                           *)
SlotFromStart(n) == n % HistMax
SlotOf(n) == (next + HistMax * 2 - count + n) % HistMax

(* (A mutant: what stood there is not erased.)                             *)
ShownOver(line) == Puts(screen, line)
ShownInstead(line) == Puts(Erase(screen, Len(out)), line)
Show(line) ==
  /\ out' = line /\ screen' = ShownInstead(line)
  /\ wrapped' = (wrapped \/ Wraps(line))

Up ==
  IF count > 0 /\ nav > 0 THEN nav' = nav - 1 /\ Show(hist[SlotOf(nav - 1)])
  ELSE UNCHANGED <<nav, out, screen, wrapped>>
Down ==
  IF nav < count
    THEN nav' = nav + 1 /\ Show(IF nav + 1 = count THEN <<>> ELSE hist[SlotOf(nav + 1)])
    ELSE UNCHANGED <<nav, out, screen, wrapped>>

(* ESC takes the two characters after it, whatever they are.               *)
Escape ==
  /\ escape = "none" /\ escape' = "ESC"
  /\ UNCHANGED <<out, nav, histVars, screen, wrapped>>
AfterEscape(c) ==
  /\ escape = "ESC" /\ escape' = IF c = "[" THEN "ESC [" ELSE "ESC ?"
  /\ UNCHANGED <<out, nav, histVars, screen, wrapped>>
EndEscape(c) ==
  /\ escape \in {"ESC [", "ESC ?"} /\ escape' = "none"
  /\ CASE escape = "ESC [" /\ c = "A" -> Up
       [] escape = "ESC [" /\ c = "B" -> Down
       [] OTHER -> UNCHANGED <<nav, out, screen, wrapped>>
  /\ UNCHANGED histVars

-----------------------------------------------------------------------------
(* sh_hist_add passes over a line that repeats the one before.  (A mutant: *)
(* it compares with the slot to be written.)                               *)
LastSlotWritten == next
LastSlot == (next + HistMax - 1) % HistMax
Repeats(line) == count > 0 /\ hist[LastSlot] = line
HistAdd(line) ==
  IF line = <<>> \/ Repeats(line) THEN UNCHANGED <<hist, count, next>>
  ELSE /\ hist' = [hist EXCEPT ![next] = line]
       /\ next' = (next + 1) % HistMax
       /\ count' = IF count < HistMax THEN count + 1 ELSE count

Logged(line) ==
  LET all == Append(log, line)
  IN  IF line = <<>> \/ (log # <<>> /\ Last(log) = line) THEN log
      ELSE IF Len(all) > HistMax THEN Tail(all) ELSE all

(* '\n': the line is remembered and run, and the next prompt comes, on the *)
(* next row or, after the command clear, on the first.                     *)
Enter ==
  /\ escape = "none" /\ HistAdd(out) /\ log' = Logged(out)
  /\ out' = <<>> /\ nav' = count' /\ wrapped' = FALSE
  /\ screen' \in {Puts(NewLine(screen), Prompt)} \cup IF out # <<>> THEN {Puts(Cleared, Prompt)} ELSE {}
  /\ UNCHANGED escape

Keys == Letters \cup {"BS", "NL", "ESC"}
LineNext ==
  \/ \E c \in Letters : Letter(c)
  \/ \E c \in Keys : AfterEscape(c) \/ EndEscape(c)
  \/ Backspace \/ Escape \/ Enter

LineSpec == LineInit /\ [][LineNext]_lineVars

-----------------------------------------------------------------------------
Line == UNION {[1 .. n -> Letters] : n \in 0 .. LineMax - 1}

(* Lines leave room for their zero and indices stay in the history.        *)
LineTypeOK ==
  /\ out \in Line /\ hist \in [HistSlot -> Line]
  /\ count \in 0 .. HistMax /\ nav \in 0 .. count /\ next \in HistSlot
  /\ escape \in {"none", "ESC", "ESC [", "ESC ?"} /\ wrapped \in BOOLEAN
  /\ screen.row \in 0 .. Height - 1 /\ screen.col \in 0 .. Width

(* However often the ring has turned, it holds the last lines, in order.   *)
HistoryIsLog ==
  /\ count = Len(log)
  /\ \A n \in 0 .. count - 1 : hist[SlotOf(n)] = log[n + 1]

(* Line and history stay in their buffers, and the history is the log.     *)
HistorySound == LineTypeOK /\ HistoryIsLog

(* Walking through the history shows its lines one by one, and past the    *)
(* last an empty one.                                                      *)
WalksTheLog ==
  [][escape # "none" /\ nav' # nav =>
       /\ nav' \in {nav - 1, nav + 1}
       /\ out' = IF nav' = Len(log) THEN <<>> ELSE log[nav' + 1]]_lineVars

(* The line that will run is the line on the screen, whatever was typed,   *)
(* erased and recalled, unless it left the row: '\b' does not go back.     *)
ShownRow == screen.cells[screen.row]
WhatYouSee ==
  ~wrapped =>
    /\ screen.col = Len(Prompt) + Len(out)
    /\ \A x \in 0 .. Width - 1 :
         ShownRow[x] = IF x < screen.col THEN (Prompt \o out)[x + 1] ELSE Space
=============================================================================
