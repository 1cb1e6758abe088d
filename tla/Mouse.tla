------------------------------- MODULE Mouse -------------------------------
(***************************************************************************)
(* The mouse driver of kernel/kernel/mouse.c, and the mouse, which sends   *)
(* reports of three bytes.  mouse_callback gets one byte an interrupt;     *)
(* mouse_init, which every run and ui command calls again, reads the same  *)
(* port and can take a report's byte, or leave the mouse's answer 0xFA to  *)
(* the interrupt.                                                          *)
(***************************************************************************)
EXTENDS Integers, Sequences

CONSTANTS Width, Height,    \* of the screen, 800 and 600
          Reports,          \* BOUND: the reports that the mouse sends
          Ack               \* 0xFA

Byte == 0 .. 255
ASSUME ScreenAssumption == {Width, Height} \subseteq Nat \ {0}
ASSUME AckAssumption == Ack \in Byte
(* Bit 3 of the first byte is set in every report of the mouse.            *)
ASSUME ReportsAssumption ==
  Reports \subseteq [1 .. 3 -> Byte] /\ \A r \in Reports : (r[1] \div 8) % 2 = 1

VARIABLES packet, cycle,    \* of mouse_callback
          x, y,             \* mouse_pos_x, mouse_pos_y
          left, right,      \* mouse_btn_left, mouse_btn_right
          click,            \* mouse_click_left
          installed,        \* mouse_callback is the handler of IRQ 12
          polls,            \* how often mouse_init still reads the port
          report, sent      \* the report on its way, and its bytes sent

pointerVars == <<x, y, left, right, click>>
mouseVars == <<packet, cycle, pointerVars, installed, polls, report, sent>>

InitPolls == 4    \* lines 70, 75, and line 34 for each of two commands
AckPolls == 2     \* the last ones, which the mouse answers

MouseInit ==
  /\ packet = [i \in 0 .. 2 |-> 0] /\ cycle = 0
  /\ x = 0 /\ y = 0 /\ left = FALSE /\ right = FALSE /\ click = FALSE
  /\ installed = FALSE /\ polls = 0 /\ report = [i \in 1 .. 3 |-> 0] /\ sent = 0

-----------------------------------------------------------------------------
Signed(b) == IF b < 128 THEN b ELSE b - 256
LeftBit(b) == b % 2 = 1
RightBit(b) == (b \div 2) % 2 = 1
SyncBit(b) == (b \div 8) % 2 = 1

Clamped(v, n) == IF v < 0 THEN 0 ELSE IF v > n - 1 THEN n - 1 ELSE v

(* What a report of flags f and moves dx, dy does.  (A mutant: a released  *)
(* button takes the click back.)                                           *)
UnderstandForgetful(f, dx, dy) ==
  /\ x' = Clamped(x + dx, Width) /\ y' = Clamped(y - dy, Height)
  /\ left' = LeftBit(f) /\ right' = RightBit(f)
  /\ click' = LeftBit(f)
Understand(f, dx, dy) ==
  /\ x' = Clamped(x + dx, Width) /\ y' = Clamped(y - dy, Height)
  /\ left' = LeftBit(f) /\ right' = RightBit(f)
  /\ click' = (click \/ LeftBit(f))

(* mouse_callback, given the byte b.                                       *)
Callback(b) ==
  /\ packet' = [packet EXCEPT ![cycle] = b]
  /\ cycle' = (cycle + 1) % 3
  /\ IF cycle = 2 /\ SyncBit(packet[0])
       THEN Understand(packet[0], Signed(packet[1]), Signed(b))
       ELSE UNCHANGED pointerVars

(* The mouse sends the next byte, which someone reads.                     *)
SendByte == sent' = (sent + 1) % 3 /\ report' \in Reports /\ (sent = 0 \/ report' = report)
MouseByte ==
  /\ installed /\ SendByte /\ Callback(report'[sent + 1])
  /\ UNCHANGED <<installed, polls>>

-----------------------------------------------------------------------------
(* mouse_init: it reads the port, sets the position (nobody reads it       *)
(* before) and installs the handler.                                       *)
MouseInitBegin ==
  /\ polls = 0 /\ polls' = InitPolls + 1
  /\ UNCHANGED <<packet, cycle, pointerVars, installed, report, sent>>

PollDone == polls > 1 /\ polls' = polls - 1
PollReadsAnswer ==
  /\ PollDone /\ UNCHANGED <<packet, cycle, pointerVars, installed, report, sent>>
PollSwallowsByte ==
  /\ PollDone /\ installed /\ SendByte
  /\ UNCHANGED <<packet, cycle, pointerVars, installed>>
InterruptReadsAnswer ==
  /\ PollDone /\ polls <= AckPolls + 1 /\ installed /\ Callback(Ack)
  /\ UNCHANGED <<installed, report, sent>>
MouseInitEnd ==
  /\ polls = 1 /\ polls' = 0 /\ installed' = TRUE
  /\ x' = Width \div 2 /\ y' = Height \div 2
  /\ UNCHANGED <<packet, cycle, left, right, click, report, sent>>
MouseInitStep(ints) ==
  \/ PollReadsAnswer \/ PollSwallowsByte \/ MouseInitEnd
  \/ ints /\ InterruptReadsAnswer

-----------------------------------------------------------------------------
(* mouse_click_consume's second half, its first having found the click.    *)
ResetClick ==
  /\ click' = FALSE
  /\ UNCHANGED <<packet, cycle, x, y, left, right, installed, polls, report, sent>>

-----------------------------------------------------------------------------
MouseTypeOK ==
  /\ packet \in [0 .. 2 -> Byte] /\ cycle \in 0 .. 2
  /\ x \in 0 .. Width - 1 /\ y \in 0 .. Height - 1
  /\ left \in BOOLEAN /\ right \in BOOLEAN /\ click \in BOOLEAN /\ installed \in BOOLEAN
  /\ polls \in 0 .. InitPolls + 1
  /\ report \in [1 .. 3 -> Byte] /\ sent \in 0 .. 2

(* The bytes that the driver has put together are those that were sent.    *)
Synced == cycle = sent /\ \A i \in 0 .. 2 : i < cycle => packet[i] = report[i + 1]

Moves == {[dx |-> Signed(r[2]), dy |-> Signed(r[3]),
           left |-> LeftBit(r[1]), right |-> RightBit(r[1])] : r \in Reports}
Promise == INSTANCE Pointer WITH steady <- Synced, setup <- (polls > 0)
=============================================================================
