--------------------------- MODULE DesktopProofs ---------------------------
(***************************************************************************)
(* The mouse keeps the promise of Pointer under the desktop and its        *)
(* programs, clicks land where they belong, and a file asked for is        *)
(* offered to NOTEPAD: for every screen, every set of reports and every    *)
(* arrangement of icons.                                                   *)
(***************************************************************************)
EXTENDS Desktop, TLAPS

USE ScreenAssumption, AckAssumption

-----------------------------------------------------------------------------
(* The driver.                                                             *)

LEMMA ClampedType ==
  ASSUME NEW n \in Nat \ {0}, NEW v \in Int
  PROVE  Clamped(v, n) \in 0 .. n - 1
BY DEF Clamped

LEMMA SignedType == \A b \in Byte : Signed(b) \in Int
BY DEF Signed, Byte

LEMMA CallbackType ==
  ASSUME MouseTypeOK, NEW b \in Byte, Callback(b),
         UNCHANGED installed, polls' \in 0 .. InitPolls + 1,
         report' \in [1 .. 3 -> Byte], sent' \in 0 .. 2
  PROVE  MouseTypeOK'
<1>1. packet' \in [0 .. 2 -> Byte] /\ cycle' \in 0 .. 2
  BY DEF Callback, MouseTypeOK
<1>2. CASE cycle = 2 /\ SyncBit(packet[0])
  <2>1. packet[0] \in Byte /\ packet[1] \in Byte
    BY DEF MouseTypeOK
  <2>2. x + Signed(packet[1]) \in Int /\ y - Signed(b) \in Int
    BY <2>1, SignedType DEF MouseTypeOK
  <2>3. x' \in 0 .. Width - 1 /\ y' \in 0 .. Height - 1
    BY <1>2, <2>2, ClampedType DEF Callback, Understand
  <2>4. left' \in BOOLEAN /\ right' \in BOOLEAN /\ click' \in BOOLEAN
    BY <1>2, Zenon DEF Callback, Understand, LeftBit, RightBit, MouseTypeOK
  <2>. QED
    BY <1>1, <2>3, <2>4 DEF MouseTypeOK
<1>3. CASE ~(cycle = 2 /\ SyncBit(packet[0]))
  BY <1>1, <1>3 DEF Callback, pointerVars, MouseTypeOK
<1>. QED
  BY <1>2, <1>3

LEMMA SendByteType ==
  ASSUME MouseTypeOK, SendByte
  PROVE  /\ report' \in [1 .. 3 -> Byte] /\ sent' \in 0 .. 2
         /\ sent + 1 \in 1 .. 3 /\ report'[sent + 1] \in Byte
BY ReportsAssumption DEF SendByte, MouseTypeOK

(* What a step does to the mouse.                                          *)
MouseStep ==
  \/ UNCHANGED mouseVars
  \/ MouseByte
  \/ MouseInitBegin
  \/ MouseInitStep(ints)
  \/ pc = "reset" /\ ResetClick

LEMMA StepIsMouseStep == [Next]_vars => MouseStep
BY Zenon DEF Next, Kernel, Loop, Systemcall, MouseStep, vars, mouseVars, MouseIRQ, DoRun, DoUi, Command,
   Initialise, ReadX, LoopX, LoopY, TestClick, LoopReset, ConsumeClick, Draw, PrepareWin, Enter, Leave,
   LoadFails, Exit, Preempted, Launched, OpenFile, GetOpenFile, Cursor, Peek, MouseClick, WinShouldClose,
   CallX, CallY, CallReset, Goto

LEMMA MouseStepType == MouseTypeOK /\ MouseStep => MouseTypeOK'
<1>. SUFFICES ASSUME MouseTypeOK, MouseStep PROVE MouseTypeOK'
  OBVIOUS
<1>1. CASE UNCHANGED mouseVars
  BY <1>1 DEF mouseVars, pointerVars, MouseTypeOK
<1>2. CASE MouseByte
  <2>1. UNCHANGED <<installed, polls>> /\ Callback(report'[sent + 1]) /\ SendByte
    BY <1>2 DEF MouseByte
  <2>. QED
    BY <2>1, SendByteType, CallbackType DEF MouseTypeOK
<1>3. CASE MouseInitBegin
  BY <1>3 DEF MouseInitBegin, InitPolls, pointerVars, MouseTypeOK
<1>4. CASE PollReadsAnswer
  BY <1>4 DEF PollReadsAnswer, PollDone, InitPolls, pointerVars, MouseTypeOK
<1>5. CASE PollSwallowsByte
  BY <1>5, SendByteType DEF PollSwallowsByte, PollDone, InitPolls, pointerVars, MouseTypeOK
<1>6. CASE InterruptReadsAnswer
  <2>1. /\ polls' \in 0 .. InitPolls + 1 /\ UNCHANGED <<installed, report, sent>>
        /\ Callback(Ack)
    BY <1>6 DEF InterruptReadsAnswer, PollDone, InitPolls, MouseTypeOK
  <2>. QED
    BY <2>1, CallbackType DEF MouseTypeOK
<1>7. CASE MouseInitEnd
  BY <1>7 DEF MouseInitEnd, InitPolls, MouseTypeOK
<1>8. CASE ResetClick
  BY <1>8 DEF ResetClick, MouseTypeOK
<1>. QED
  BY <1>1, <1>2, <1>3, <1>4, <1>5, <1>6, <1>7, <1>8 DEF MouseStep, MouseInitStep

-----------------------------------------------------------------------------
(* The desktop and its programs.                                           *)

(* What main flow has read, and what it is about to do with it.            *)
Reading ==
  /\ pc = "reset" => click
  /\ pc \in {"call_x", "call_y"} => call # "none"
  /\ call # "none" => pc \in CallSteps
  /\ pc = "read_y" /\ still => mx = x
  /\ pc = "call_y" /\ still => cx = x
  /\ pc \in {"test", "reset"} /\ still =>
       IF call = "none" THEN mx = x /\ my = y ELSE cx = x /\ cy = y
  /\ pc \in {"test", "reset"} /\ call # "none" => ((call = "close") = PointIn(cx, cy, CloseBox))

(* Who has the CPU, and who asked for the file that waits.                 *)
Programs ==
  /\ pc \in {"load", "program", "call_x", "call_y"} \/ call # "none" => program # "none"
  /\ pc \in {"prepare", "launched"} => program \in {"app", "notepad"}
  /\ pc = "launched" => program = "app"
Requests ==
  /\ asked = "nobody" <=> pending \in {NoFile, ""}
  /\ asked = "app" =>
       /\ program \in {"app", "notepad"}
       /\ pc \in {"prepare", "load", "program", "launched", "call_x", "call_y"} \/ call # "none"

Pcs == LoopSteps \cup CallSteps \cup
         {"shell", "init_run", "init_ui", "load", "program", "prepare", "launched", "off"}

(* TypeOK without the driver's part: where control is, what the locals     *)
(* hold, and the rest.                                                     *)
PcTypeOK == pc \in Pcs /\ (polls > 0 <=> pc \in {"init_run", "init_ui"})
ScreenTypeOK ==
  /\ mx \in 0 .. Width - 1 /\ my \in 0 .. Height - 1
  /\ cx \in 0 .. Width - 1 /\ cy \in 0 .. Height - 1
  /\ drawn \in (0 .. Width - 1) \X (0 .. Height - 1)
RestTypeOK ==
  /\ dirty \in BOOLEAN /\ ints \in BOOLEAN /\ still \in BOOLEAN
  /\ program \in {"none", "run", "app", "notepad"} /\ call \in {"none", "click", "close"}
  /\ pending \in {NoFile, "f", ""}
  /\ asked \in {"nobody", "run", "app", "notepad", "unserved"}
FlowTypeOK == PcTypeOK /\ ScreenTypeOK /\ RestTypeOK

FlowInv == FlowTypeOK /\ Reading /\ Programs /\ Requests
IInv == MouseTypeOK /\ FlowInv
LEMMA TypeParts == TypeOK <=> MouseTypeOK /\ FlowTypeOK
BY Zenon DEF TypeOK, FlowTypeOK, PcTypeOK, ScreenTypeOK, RestTypeOK, Pcs

LEMMA InitInvariant == Init => IInv
<1>. SUFFICES ASSUME Init PROVE IInv
  OBVIOUS
<1>1. MouseTypeOK
  <2>1. packet \in [0 .. 2 -> Byte] /\ report \in [1 .. 3 -> Byte]
    BY DEF Init, MouseInit, Byte
  <2>2. 0 \in 0 .. Width - 1 /\ 0 \in 0 .. Height - 1
    OBVIOUS
  <2>3. left \in BOOLEAN /\ right \in BOOLEAN /\ click \in BOOLEAN /\ installed \in BOOLEAN
    BY Zenon DEF Init, MouseInit
  <2>4. cycle \in 0 .. 2 /\ sent \in 0 .. 2 /\ polls \in 0 .. InitPolls + 1
    BY DEF Init, MouseInit, InitPolls
  <2>. QED
    BY <2>1, <2>2, <2>3, <2>4, Zenon DEF Init, MouseInit, MouseTypeOK
<1>2. FlowTypeOK
  <2>1. 0 \in 0 .. Width - 1 /\ 0 \in 0 .. Height - 1
    OBVIOUS
  <2>2. dirty \in BOOLEAN /\ ints \in BOOLEAN /\ still \in BOOLEAN
    BY Zenon DEF Init
  <2>3. ~ polls > 0 /\ pc = "shell"
    BY DEF Init, MouseInit
  <2>4. drawn \in (0 .. Width - 1) \X (0 .. Height - 1)
    BY <2>1 DEF Init
  <2>. QED
    BY <2>1, <2>2, <2>3, <2>4, Zenon DEF Init, FlowTypeOK, PcTypeOK, ScreenTypeOK, RestTypeOK, Pcs, NoFile
<1>3. Reading /\ Programs /\ Requests
  BY DEF Init, Reading, Programs, Requests, NoFile
<1>. QED
  BY <1>1, <1>2, <1>3 DEF IInv, FlowInv

LEMMA StillMeans ==
  ASSUME MouseTypeOK, still \in BOOLEAN, MouseIRQ
  PROVE  still' \in BOOLEAN /\ (still' => still /\ x' = x /\ y' = y /\ click' = click)
BY DEF MouseIRQ

LEMMA MouseIRQInvariant == IInv /\ MouseIRQ => FlowInv'
<1>. SUFFICES ASSUME IInv, MouseIRQ PROVE FlowInv'
  OBVIOUS
<1>1. FlowTypeOK /\ MouseTypeOK
  BY DEF IInv, FlowInv
<1>2. still' \in BOOLEAN /\ (still' => still /\ x' = x /\ y' = y)
  BY <1>1, StillMeans DEF FlowTypeOK, RestTypeOK
<1>3. click => click'
  BY <1>1 DEF MouseIRQ, MouseByte, Callback, Understand, pointerVars, MouseTypeOK
<1>4. UNCHANGED <<flowVars, screenVars, fileVars, ints, polls>>
  BY DEF MouseIRQ, MouseByte
<1>5. FlowTypeOK'
  BY <1>1, <1>2, <1>4, ZenonT(40) DEF FlowTypeOK, PcTypeOK, ScreenTypeOK, RestTypeOK, flowVars, screenVars, loopVars, callVars, fileVars
<1>6. Reading'
  BY <1>2, <1>3, <1>4 DEF IInv, FlowInv, Reading, flowVars, screenVars, loopVars, callVars, PointIn
<1>7. Programs' /\ Requests'
  BY <1>4 DEF IInv, FlowInv, Programs, Requests, flowVars, fileVars
<1>. QED
  BY <1>5, <1>6, <1>7 DEF FlowInv

(* A step that leaves what Reading is about, and the CPU's owner, alone.   *)
LEMMA CommandInvariant ==
  IInv /\ (DoRun \/ DoUi) => FlowInv'
<1>. SUFFICES ASSUME IInv, DoRun \/ DoUi PROVE FlowInv'
  OBVIOUS
<1>1. FlowTypeOK
  BY DEF IInv, FlowInv
<1>. USE DEF DoRun, DoUi, Command, Goto, MouseInitBegin, pointerVars, screenVars, loopVars, callVars, fileVars
<1>2. pc = "shell" /\ pc' \in {"init_run", "init_ui"} /\ polls' = InitPolls + 1
  BY Zenon
<1>3. UNCHANGED <<program, call, screenVars, fileVars, ints, still>>
  BY Zenon
<1>4. FlowTypeOK'
  <2>1. PcTypeOK'
    BY ONLY <1>2 DEF PcTypeOK, Pcs, InitPolls
  <2>2. ScreenTypeOK' /\ RestTypeOK'
    BY ONLY <1>1, <1>3, Zenon DEF FlowTypeOK, ScreenTypeOK, RestTypeOK, screenVars, loopVars, callVars, fileVars
  <2>. QED
    BY ONLY <2>1, <2>2 DEF FlowTypeOK
<1>5. Reading'
  BY ONLY <1>2, <1>3, IInv DEF IInv, FlowInv, Reading, CallSteps
<1>6. Programs' /\ Requests'
  BY ONLY <1>2, <1>3, IInv DEF IInv, FlowInv, Reading, CallSteps, Programs, Requests, fileVars
<1>. QED
  BY <1>4, <1>5, <1>6 DEF FlowInv

LEMMA InitialiseInvariant ==
  IInv /\ Initialise => FlowInv'
<1>. SUFFICES ASSUME IInv, Initialise PROVE FlowInv'
  OBVIOUS
<1>1. FlowTypeOK /\ MouseTypeOK
  BY DEF IInv, FlowInv
<1>2. polls' \in Nat
  BY <1>1 DEF Initialise, MouseInitStep, PollReadsAnswer, PollSwallowsByte, InterruptReadsAnswer,
              MouseInitEnd, PollDone, MouseTypeOK, InitPolls
<1>3. /\ \/ polls' > 0 /\ UNCHANGED <<pc, program, dirty>>
         \/ polls' = 0 /\ pc = "init_run" /\ pc' = "load" /\ program' = "run" /\ UNCHANGED dirty
         \/ polls' = 0 /\ pc = "init_ui" /\ pc' = "loop" /\ dirty' = TRUE /\ UNCHANGED program
      /\ UNCHANGED <<call, mx, my, callVars, drawn, fileVars, ints, still>>
      /\ pc \in {"init_run", "init_ui"}
  BY Zenon DEF Initialise
<1>4. FlowTypeOK'
  <2>1. PcTypeOK'
    BY ONLY <1>1, <1>2, <1>3 DEF FlowTypeOK, PcTypeOK, Pcs, LoopSteps
  <2>2. ScreenTypeOK' /\ RestTypeOK'
    BY ONLY <1>1, <1>3, ZenonT(40) DEF FlowTypeOK, ScreenTypeOK, RestTypeOK, callVars, fileVars
  <2>. QED
    BY ONLY <2>1, <2>2 DEF FlowTypeOK
<1>5. call = "none"
  BY ONLY <1>3, IInv DEF IInv, FlowInv, Reading, CallSteps
<1>6. Reading'
  BY ONLY <1>3, <1>5, IInv DEF IInv, FlowInv, Reading, CallSteps
<1>7. Programs' /\ Requests'
  BY ONLY <1>3, <1>5, IInv DEF IInv, FlowInv, Programs, Requests, fileVars
<1>. QED
  BY <1>4, <1>6, <1>7 DEF FlowInv

LEMMA LoopXInvariant == IInv /\ LoopX => FlowInv'
<1>. SUFFICES ASSUME IInv, LoopX PROVE FlowInv'
  OBVIOUS
<1>. USE DEF LoopX, Goto
<1>1. PcTypeOK'
  BY Zenon DEF IInv, FlowInv, FlowTypeOK, PcTypeOK, Pcs, LoopSteps, CallSteps, mouseVars, ReadX
<1>2. ScreenTypeOK'
  BY Zenon DEF IInv, FlowInv, FlowTypeOK, ScreenTypeOK, screenVars, loopVars, callVars, MouseTypeOK, ReadX
<1>3. RestTypeOK'
  BY Zenon DEF IInv, FlowInv, FlowTypeOK, RestTypeOK, screenVars, loopVars, fileVars, ReadX
<1>4. Reading'
  BY DEF IInv, FlowInv, Reading, CallSteps, PointIn, mouseVars, pointerVars, screenVars, loopVars, callVars, ReadX
<1>5. Programs' /\ Requests'
  BY DEF IInv, FlowInv, FlowTypeOK, RestTypeOK, Reading, CallSteps, Programs, Requests, fileVars, ReadX
<1>. QED
  BY <1>1, <1>2, <1>3, <1>4, <1>5 DEF FlowInv, FlowTypeOK

LEMMA LoopYInvariant == IInv /\ LoopY => FlowInv'
<1>. SUFFICES ASSUME IInv, LoopY PROVE FlowInv'
  OBVIOUS
<1>. USE DEF LoopY, Goto
<1>1. PcTypeOK'
  BY Zenon DEF IInv, FlowInv, FlowTypeOK, PcTypeOK, Pcs, LoopSteps, CallSteps, mouseVars
<1>2. ScreenTypeOK'
  BY Zenon DEF IInv, FlowInv, FlowTypeOK, ScreenTypeOK, screenVars, loopVars, callVars, MouseTypeOK
<1>3. RestTypeOK'
  BY Zenon DEF IInv, FlowInv, FlowTypeOK, RestTypeOK, screenVars, loopVars, fileVars, DirtyNow
<1>4. Reading'
  BY DEF IInv, FlowInv, Reading, CallSteps, PointIn, mouseVars, pointerVars, screenVars, loopVars, callVars
<1>5. Programs' /\ Requests'
  BY DEF IInv, FlowInv, FlowTypeOK, RestTypeOK, Reading, CallSteps, Programs, Requests, fileVars
<1>. QED
  BY <1>1, <1>2, <1>3, <1>4, <1>5 DEF FlowInv, FlowTypeOK

LEMMA TestClickInvariant == IInv /\ TestClick => FlowInv'
<1>. SUFFICES ASSUME IInv, TestClick PROVE FlowInv'
  OBVIOUS
<1>. USE DEF TestClick, Goto
<1>1. PcTypeOK'
  BY Zenon DEF IInv, FlowInv, FlowTypeOK, PcTypeOK, Pcs, LoopSteps, CallSteps, mouseVars, TestFails
<1>2. ScreenTypeOK'
  BY Zenon DEF IInv, FlowInv, FlowTypeOK, ScreenTypeOK, screenVars, loopVars, callVars, MouseTypeOK
<1>3. RestTypeOK'
  BY Zenon DEF IInv, FlowInv, FlowTypeOK, RestTypeOK, screenVars, loopVars, fileVars
<1>4. Reading'
  BY DEF IInv, FlowInv, Reading, CallSteps, PointIn, mouseVars, pointerVars, screenVars, loopVars, callVars, TestFails
<1>5. Programs' /\ Requests'
  BY DEF IInv, FlowInv, FlowTypeOK, RestTypeOK, Reading, CallSteps, Programs, Requests, fileVars, TestFails
<1>. QED
  BY <1>1, <1>2, <1>3, <1>4, <1>5 DEF FlowInv, FlowTypeOK

LEMMA DrawInvariant == IInv /\ Draw => FlowInv'
<1>. SUFFICES ASSUME IInv, Draw PROVE FlowInv'
  OBVIOUS
<1>. USE DEF Draw, Goto
<1>1. PcTypeOK'
  BY Zenon DEF IInv, FlowInv, FlowTypeOK, PcTypeOK, Pcs, LoopSteps, CallSteps, mouseVars
<1>2. ScreenTypeOK'
  BY Zenon DEF IInv, FlowInv, FlowTypeOK, ScreenTypeOK, screenVars, loopVars, callVars, MouseTypeOK
<1>3. RestTypeOK'
  BY Zenon DEF IInv, FlowInv, FlowTypeOK, RestTypeOK, screenVars, loopVars, fileVars
<1>4. Reading'
  BY DEF IInv, FlowInv, Reading, CallSteps, PointIn, mouseVars, pointerVars, screenVars, loopVars, callVars
<1>5. Programs' /\ Requests'
  BY DEF IInv, FlowInv, FlowTypeOK, RestTypeOK, Reading, CallSteps, Programs, Requests, fileVars
<1>. QED
  BY <1>1, <1>2, <1>3, <1>4, <1>5 DEF FlowInv, FlowTypeOK

LEMMA PrepareWinInvariant == IInv /\ PrepareWin => FlowInv'
<1>. SUFFICES ASSUME IInv, PrepareWin PROVE FlowInv'
  OBVIOUS
<1>. USE DEF PrepareWin, Goto
<1>1. PcTypeOK'
  BY Zenon DEF IInv, FlowInv, FlowTypeOK, PcTypeOK, Pcs, LoopSteps, CallSteps, mouseVars
<1>2. ScreenTypeOK'
  BY Zenon DEF IInv, FlowInv, FlowTypeOK, ScreenTypeOK, screenVars, loopVars, callVars, MouseTypeOK
<1>3. RestTypeOK'
  BY Zenon DEF IInv, FlowInv, FlowTypeOK, RestTypeOK, screenVars, loopVars, fileVars
<1>4. Reading'
  BY DEF IInv, FlowInv, Reading, CallSteps, PointIn, mouseVars, pointerVars, screenVars, loopVars, callVars
<1>5. Programs' /\ Requests'
  BY DEF IInv, FlowInv, FlowTypeOK, RestTypeOK, Reading, CallSteps, Programs, Requests, fileVars
<1>. QED
  BY <1>1, <1>2, <1>3, <1>4, <1>5 DEF FlowInv, FlowTypeOK

LEMMA EnterInvariant == IInv /\ Enter => FlowInv'
<1>. SUFFICES ASSUME IInv, Enter PROVE FlowInv'
  OBVIOUS
<1>. USE DEF Enter, Goto
<1>1. PcTypeOK'
  BY Zenon DEF IInv, FlowInv, FlowTypeOK, PcTypeOK, Pcs, LoopSteps, CallSteps, mouseVars
<1>2. ScreenTypeOK'
  BY Zenon DEF IInv, FlowInv, FlowTypeOK, ScreenTypeOK, screenVars, loopVars, callVars, MouseTypeOK
<1>3. RestTypeOK'
  BY Zenon DEF IInv, FlowInv, FlowTypeOK, RestTypeOK, screenVars, loopVars, fileVars
<1>4. Reading'
  BY DEF IInv, FlowInv, Reading, CallSteps, PointIn, mouseVars, pointerVars, screenVars, loopVars, callVars
<1>5. Programs' /\ Requests'
  BY DEF IInv, FlowInv, FlowTypeOK, RestTypeOK, Reading, CallSteps, Programs, Requests, fileVars
<1>. QED
  BY <1>1, <1>2, <1>3, <1>4, <1>5 DEF FlowInv, FlowTypeOK

LEMMA LaunchedInvariant == IInv /\ Launched => FlowInv'
<1>. SUFFICES ASSUME IInv, Launched PROVE FlowInv'
  OBVIOUS
<1>. USE DEF Launched, Goto
<1>1. PcTypeOK'
  BY Zenon DEF IInv, FlowInv, FlowTypeOK, PcTypeOK, Pcs, LoopSteps, CallSteps, mouseVars
<1>2. ScreenTypeOK'
  BY Zenon DEF IInv, FlowInv, FlowTypeOK, ScreenTypeOK, screenVars, loopVars, callVars, MouseTypeOK
<1>3. RestTypeOK'
  BY Zenon DEF IInv, FlowInv, FlowTypeOK, RestTypeOK, screenVars, loopVars, fileVars
<1>4. Reading'
  BY DEF IInv, FlowInv, Reading, CallSteps, PointIn, mouseVars, pointerVars, screenVars, loopVars, callVars
<1>5. Programs' /\ Requests'
  BY DEF IInv, FlowInv, FlowTypeOK, RestTypeOK, Reading, CallSteps, Programs, Requests, fileVars, FileWaits
<1>. QED
  BY <1>1, <1>2, <1>3, <1>4, <1>5 DEF FlowInv, FlowTypeOK

LEMMA GetOpenFileInvariant == IInv /\ GetOpenFile => FlowInv'
<1>. SUFFICES ASSUME IInv, GetOpenFile PROVE FlowInv'
  OBVIOUS
<1>. USE DEF GetOpenFile, Goto
<1>1. PcTypeOK'
  BY Zenon DEF IInv, FlowInv, FlowTypeOK, PcTypeOK, Pcs, LoopSteps, CallSteps, mouseVars, flowVars
<1>2. ScreenTypeOK'
  BY Zenon DEF IInv, FlowInv, FlowTypeOK, ScreenTypeOK, screenVars, loopVars, callVars, MouseTypeOK
<1>3. RestTypeOK'
  BY Zenon DEF IInv, FlowInv, FlowTypeOK, RestTypeOK, screenVars, loopVars, fileVars, Fetched, flowVars
<1>4. Reading'
  BY DEF IInv, FlowInv, Reading, CallSteps, PointIn, mouseVars, pointerVars, screenVars, loopVars, callVars, flowVars
<1>5. Programs' /\ Requests'
  BY DEF IInv, FlowInv, FlowTypeOK, RestTypeOK, Reading, CallSteps, Programs, Requests, fileVars, Fetched, NoFile, flowVars
<1>. QED
  BY <1>1, <1>2, <1>3, <1>4, <1>5 DEF FlowInv, FlowTypeOK

LEMMA CursorInvariant == IInv /\ Cursor => FlowInv'
<1>. SUFFICES ASSUME IInv, Cursor PROVE FlowInv'
  OBVIOUS
<1>. USE DEF Cursor, Goto
<1>1. PcTypeOK'
  BY Zenon DEF IInv, FlowInv, FlowTypeOK, PcTypeOK, Pcs, LoopSteps, CallSteps, mouseVars, flowVars
<1>2. ScreenTypeOK'
  BY Zenon DEF IInv, FlowInv, FlowTypeOK, ScreenTypeOK, screenVars, loopVars, callVars, MouseTypeOK, flowVars
<1>3. RestTypeOK'
  BY Zenon DEF IInv, FlowInv, FlowTypeOK, RestTypeOK, screenVars, loopVars, fileVars, flowVars
<1>4. Reading'
  BY DEF IInv, FlowInv, Reading, CallSteps, PointIn, mouseVars, pointerVars, screenVars, loopVars, callVars, flowVars
<1>5. Programs' /\ Requests'
  BY DEF IInv, FlowInv, FlowTypeOK, RestTypeOK, Reading, CallSteps, Programs, Requests, fileVars, flowVars
<1>. QED
  BY <1>1, <1>2, <1>3, <1>4, <1>5 DEF FlowInv, FlowTypeOK

LEMMA CallXInvariant == IInv /\ CallX => FlowInv'
<1>. SUFFICES ASSUME IInv, CallX PROVE FlowInv'
  OBVIOUS
<1>. USE DEF CallX, Goto
<1>1. PcTypeOK'
  BY Zenon DEF IInv, FlowInv, FlowTypeOK, PcTypeOK, Pcs, LoopSteps, CallSteps, mouseVars, ReadX
<1>2. ScreenTypeOK'
  BY Zenon DEF IInv, FlowInv, FlowTypeOK, ScreenTypeOK, screenVars, loopVars, callVars, MouseTypeOK, ReadX
<1>3. RestTypeOK'
  BY Zenon DEF IInv, FlowInv, FlowTypeOK, RestTypeOK, screenVars, loopVars, fileVars, ReadX
<1>4. Reading'
  BY DEF IInv, FlowInv, Reading, CallSteps, PointIn, mouseVars, pointerVars, screenVars, loopVars, callVars, ReadX
<1>5. Programs' /\ Requests'
  BY DEF IInv, FlowInv, FlowTypeOK, RestTypeOK, Reading, CallSteps, Programs, Requests, fileVars, ReadX
<1>. QED
  BY <1>1, <1>2, <1>3, <1>4, <1>5 DEF FlowInv, FlowTypeOK

LEMMA CallYInvariant == IInv /\ CallY => FlowInv'
<1>. SUFFICES ASSUME IInv, CallY PROVE FlowInv'
  OBVIOUS
<1>. USE DEF CallY, Goto
<1>1. PcTypeOK'
  BY Zenon DEF IInv, FlowInv, FlowTypeOK, PcTypeOK, Pcs, LoopSteps, CallSteps, mouseVars
<1>2. ScreenTypeOK'
  BY Zenon DEF IInv, FlowInv, FlowTypeOK, ScreenTypeOK, screenVars, loopVars, callVars, MouseTypeOK
<1>3. RestTypeOK'
  BY Zenon DEF IInv, FlowInv, FlowTypeOK, RestTypeOK, screenVars, loopVars, fileVars
<1>4. Reading'
  BY DEF IInv, FlowInv, Reading, CallSteps, PointIn, mouseVars, pointerVars, screenVars, loopVars, callVars, Mine
<1>5. Programs' /\ Requests'
  BY DEF IInv, FlowInv, FlowTypeOK, RestTypeOK, Reading, CallSteps, Programs, Requests, fileVars
<1>. QED
  BY <1>1, <1>2, <1>3, <1>4, <1>5 DEF FlowInv, FlowTypeOK

LEMMA LoopResetInvariant == IInv /\ LoopReset => FlowInv'
<1>. SUFFICES ASSUME IInv, LoopReset PROVE FlowInv'
  OBVIOUS
<1>. USE DEF LoopReset
<1>1. PcTypeOK'
  BY Zenon DEF IInv, FlowInv, FlowTypeOK, PcTypeOK, Pcs, LoopSteps, CallSteps, ConsumeClick, ResetClick
<1>2. ScreenTypeOK'
  BY Zenon DEF IInv, FlowInv, FlowTypeOK, ScreenTypeOK, callVars
<1>3. RestTypeOK'
  BY Zenon DEF IInv, FlowInv, FlowTypeOK, RestTypeOK, fileVars
<1>4. Reading'
  BY DEF IInv, FlowInv, Reading, CallSteps
<1>5. Programs' /\ Requests'
  BY DEF IInv, FlowInv, FlowTypeOK, RestTypeOK, Reading, CallSteps, Programs, Requests, fileVars
<1>. QED
  BY <1>1, <1>2, <1>3, <1>4, <1>5 DEF FlowInv, FlowTypeOK

LEMMA CallResetInvariant == IInv /\ CallReset => FlowInv'
<1>. SUFFICES ASSUME IInv, CallReset PROVE FlowInv'
  OBVIOUS
<1>. USE DEF CallReset
<1>1. PcTypeOK'
  BY Zenon DEF IInv, FlowInv, FlowTypeOK, PcTypeOK, Pcs, ConsumeClick, ResetClick
<1>2. ScreenTypeOK'
  BY Zenon DEF IInv, FlowInv, FlowTypeOK, ScreenTypeOK, screenVars, loopVars, callVars
<1>3. RestTypeOK'
  BY Zenon DEF IInv, FlowInv, FlowTypeOK, RestTypeOK, screenVars, loopVars, fileVars
<1>4. Reading'
  BY DEF IInv, FlowInv, Reading
<1>5. Programs' /\ Requests'
  BY DEF IInv, FlowInv, Programs, Requests, fileVars
<1>. QED
  BY <1>1, <1>2, <1>3, <1>4, <1>5 DEF FlowInv, FlowTypeOK

LEMMA LeaveInvariant ==
  ASSUME IInv, NEW from \in {"load", "program"}, NEW flag \in BOOLEAN, Leave(from, flag)
  PROVE  FlowInv'
<1>. USE DEF Leave, Goto
<1>0. call = "none" /\ program \in {"run", "app", "notepad"}
  BY DEF IInv, FlowInv, FlowTypeOK, RestTypeOK, Reading, Programs, CallSteps
<1>1. PcTypeOK'
  BY Zenon DEF IInv, FlowInv, FlowTypeOK, PcTypeOK, Pcs, LoopSteps, Returned, mouseVars
<1>2. ScreenTypeOK'
  BY Zenon DEF IInv, FlowInv, FlowTypeOK, ScreenTypeOK, screenVars, loopVars, callVars
<1>3. RestTypeOK'
  BY Zenon DEF IInv, FlowInv, FlowTypeOK, RestTypeOK, Unserved, screenVars, loopVars
<1>4. Reading'
  BY <1>0 DEF IInv, FlowInv, Reading, Returned
<1>5. Programs' /\ Requests'
  BY <1>0 DEF IInv, FlowInv, Programs, Requests, Returned, Unserved
<1>. QED
  BY <1>1, <1>2, <1>3, <1>4, <1>5 DEF FlowInv, FlowTypeOK

LEMMA OpenFileInvariant == ASSUME IInv, NEW name \in {"f", ""}, OpenFile(name) PROVE FlowInv'
<1>. USE DEF OpenFile
<1>0. program \in {"run", "app", "notepad"} /\ call = "none"
  BY DEF IInv, FlowInv, FlowTypeOK, RestTypeOK, Programs, Reading, CallSteps
<1>1. PcTypeOK'
  BY Zenon DEF IInv, FlowInv, FlowTypeOK, PcTypeOK, mouseVars, flowVars
<1>2. ScreenTypeOK'
  BY Zenon DEF IInv, FlowInv, FlowTypeOK, ScreenTypeOK, screenVars, loopVars, callVars
<1>3. RestTypeOK'
  BY <1>0, Zenon DEF IInv, FlowInv, FlowTypeOK, RestTypeOK, flowVars, screenVars, loopVars
<1>4. Reading'
  BY DEF IInv, FlowInv, Reading, flowVars
<1>5. Programs' /\ Requests'
  BY <1>0 DEF IInv, FlowInv, Programs, Requests, NoFile, flowVars
<1>. QED
  BY <1>1, <1>2, <1>3, <1>4, <1>5 DEF FlowInv, FlowTypeOK

LEMMA PeekInvariant == ASSUME IInv, NEW name \in {"click", "close"}, Peek(name) PROVE FlowInv'
<1>. USE DEF Peek
<1>1. PcTypeOK'
  BY Zenon DEF IInv, FlowInv, FlowTypeOK, PcTypeOK, Pcs, CallSteps, mouseVars
<1>2. ScreenTypeOK'
  BY Zenon DEF IInv, FlowInv, FlowTypeOK, ScreenTypeOK, screenVars, loopVars, callVars
<1>3. RestTypeOK'
  BY Zenon DEF IInv, FlowInv, FlowTypeOK, RestTypeOK, screenVars, loopVars, fileVars
<1>4. Reading'
  BY DEF IInv, FlowInv, Reading, CallSteps
<1>5. Programs' /\ Requests'
  BY DEF IInv, FlowInv, Programs, Requests, fileVars
<1>. QED
  BY <1>1, <1>2, <1>3, <1>4, <1>5 DEF FlowInv, FlowTypeOK

LEMMA StutterInvariant == IInv /\ UNCHANGED vars => FlowInv'
<1>. SUFFICES ASSUME IInv, UNCHANGED vars PROVE FlowInv'
  OBVIOUS
<1>1. UNCHANGED <<x, y, click, polls, pc, program, call, mx, my, dirty, cx, cy, drawn, pending, asked, ints, still>>
  BY DEF vars, mouseVars, pointerVars, flowVars, screenVars, loopVars, callVars, fileVars
<1>2. FlowTypeOK'
  BY <1>1, ZenonT(40) DEF IInv, FlowInv, FlowTypeOK, PcTypeOK, ScreenTypeOK, RestTypeOK
<1>3. Reading' /\ Programs' /\ Requests'
  BY <1>1 DEF IInv, FlowInv, Reading, Programs, Requests, PointIn
<1>. QED
  BY <1>2, <1>3 DEF FlowInv

LEMMA NextInvariant == IInv /\ [Next]_vars => IInv'
<1>. SUFFICES ASSUME IInv, [Next]_vars PROVE IInv'
  OBVIOUS
<1>1. MouseTypeOK'
  BY StepIsMouseStep, MouseStepType DEF IInv
<1>2. CASE MouseIRQ
  BY <1>2, MouseIRQInvariant, <1>1 DEF IInv
<1>3. CASE DoRun \/ DoUi
  BY <1>3, CommandInvariant, <1>1 DEF IInv
<1>4. CASE Initialise \/ Loop
  BY <1>4, InitialiseInvariant, LoopXInvariant, LoopYInvariant, TestClickInvariant, LoopResetInvariant,
     DrawInvariant, <1>1 DEF IInv, Loop
<1>5. CASE PrepareWin \/ Enter \/ Launched \/ CallX \/ CallY \/ CallReset
  BY <1>5, PrepareWinInvariant, EnterInvariant, LaunchedInvariant, CallXInvariant, CallYInvariant,
     CallResetInvariant, <1>1 DEF IInv
<1>6. CASE LoadFails \/ Exit \/ Preempted
  <2>1. ints \in BOOLEAN
    BY DEF IInv, FlowInv, FlowTypeOK, RestTypeOK
  <2>. QED
    BY <1>6, <2>1, LeaveInvariant, <1>1 DEF IInv, LoadFails, Exit, Preempted
<1>7. CASE Systemcall
  <2>1. CASE \E name \in {"f", ""} : OpenFile(name)
    BY <2>1, OpenFileInvariant, <1>1 DEF IInv
  <2>2. CASE GetOpenFile \/ Cursor
    BY <2>2, GetOpenFileInvariant, CursorInvariant, <1>1 DEF IInv
  <2>3. CASE MouseClick \/ WinShouldClose
    BY <2>3, PeekInvariant, <1>1 DEF IInv, MouseClick, WinShouldClose
  <2>. QED
    BY <1>7, <2>1, <2>2, <2>3 DEF Systemcall
<1>8. CASE UNCHANGED vars
  BY <1>8, StutterInvariant, <1>1 DEF IInv
<1>. QED
  BY <1>2, <1>3, <1>4, <1>5, <1>6, <1>7, <1>8 DEF Next, Kernel

-----------------------------------------------------------------------------
(* The driver's values, the desktop's and the control points stay in range *)
(* for every screen and every set of reports.                              *)
THEOREM Invariance == Spec => []IInv
BY InitInvariant, NextInvariant, PTL DEF Spec

THEOREM TypeCorrect == Spec => []TypeOK
<1>1. IInv => TypeOK
  BY TypeParts DEF IInv, FlowInv
<1>. QED
  BY <1>1, Invariance, PTL

(* NOTEPAD is offered every file that a program of the desktop asked for   *)
(* before the desktop goes on.                                             *)
THEOREM Offered == Spec => []RequestOffered
<1>1. IInv => RequestOffered
  BY DEF IInv, FlowInv, Requests, RequestOffered, LoopSteps
<1>. QED
  BY <1>1, Invariance, PTL

(* NOTEPAD is started exactly for files that nobody fetched.               *)
THEOREM StartedWhenAsked == Spec => NotepadWhenAsked
<1>1. ASSUME IInv, [Next]_vars, pc = "launched", pc' # "launched"
      PROVE  program' = "notepad" <=> asked # "nobody"
  <2>1. Launched
    BY <1>1 DEF Next, Kernel, Loop, Systemcall, vars, flowVars, MouseIRQ, DoRun, DoUi, Command, Initialise,
       ReadX, LoopX, LoopY, TestClick, LoopReset, Draw, PrepareWin, Enter, Leave, LoadFails, Exit, Preempted,
       OpenFile, GetOpenFile, Cursor, Peek, MouseClick, WinShouldClose, CallX, CallY, CallReset, Goto
  <2>. QED
    BY <1>1, <2>1 DEF Launched, FileWaits, IInv, FlowInv, Requests
<1>2. IInv /\ [Next]_vars => [pc = "launched" /\ pc' # "launched" => (program' = "notepad" <=> asked # "nobody")]_vars
  BY <1>1
<1>. QED
  BY <1>2, Invariance, PTL DEF Spec, NotepadWhenAsked

-----------------------------------------------------------------------------
(* The pixels that dt_point_in takes are the rectangle's.                  *)
LEMMA PointInArea ==
  ASSUME NEW px \in Nat, NEW py \in Nat, NEW r,
         r.x \in Nat, r.y \in Nat, r.w \in Nat, r.h \in Nat
  PROVE  PointIn(px, py, r) <=> <<px, py>> \in Area(r)
BY DEF PointIn, Area

(* No pixel has two icons.                                                 *)
LEMMA OneIcon ==
  ASSUME NEW px \in Nat, NEW py \in Nat, NEW i \in At(px, py), NEW j \in At(px, py)
  PROVE  i = j
<1>1. i \in DOMAIN Icons /\ j \in DOMAIN Icons /\ PointIn(px, py, Icons[i]) /\ PointIn(px, py, Icons[j])
  BY DEF At
<1>2. ~ Apart(Icons[i], Icons[j])
  BY <1>1, IconsAssumption DEF PointIn, Apart
<1>. QED
  BY <1>1, <1>2, IconsAssumption

LEMMA HitIsUnder ==
  ASSUME MouseTypeOK, mx = x, my = y
  PROVE  /\ IconsUnder = {} => Hit = "none"
         /\ \A i \in IconsUnder : Hit = Icons[i].action
<1>1. x \in Nat /\ y \in Nat
  BY DEF MouseTypeOK
<1>2. IconsUnder = At(x, y)
  BY <1>1, PointInArea, IconsAssumption DEF IconsUnder, At
<1>3. ASSUME NEW i \in At(x, y) PROVE Hit = Icons[i].action
  <2>1. \A j \in At(x, y) : j = i
    BY <1>1, OneIcon
  <2>2. At(mx, my) = {i}
    BY <2>1, <1>3
  <2>3. i <= i
    BY IconsAssumption DEF At
  <2>. QED
    BY <2>2, <2>3 DEF Hit
<1>4. IconsUnder = {} => Hit = "none"
  BY <1>2 DEF Hit
<1>. QED
  BY <1>2, <1>3, <1>4

(* A click does what is under the pointer.                                 *)
Lands ==
  /\ click
  /\ call = "none" =>
       IF IconsUnder = {} THEN pc' = "draw"
       ELSE pc' = IF \E i \in IconsUnder : Icons[i].action = "launch" THEN "prepare" ELSE "off"
  /\ call # "none" => (call = "close" <=> <<x, y>> \in Area(CloseBox))

THEOREM ClicksLandUnderPointer == Spec => ClicksLand
<1>1. ASSUME IInv, [Next]_vars, pc = "reset", pc' # "reset", still
      PROVE  Lands
  <2>1. LoopReset \/ CallReset
    BY <1>1 DEF Next, Kernel, Loop, Systemcall, vars, flowVars, MouseIRQ, DoRun, DoUi, Command, Initialise,
       ReadX, LoopX, LoopY, TestClick, Draw, PrepareWin, Enter, Launched, Leave, LoadFails, Exit, Preempted,
       OpenFile, GetOpenFile, Cursor, Peek, MouseClick, WinShouldClose, CallX, CallY, Goto
  <2>2. click /\ MouseTypeOK
    BY <1>1 DEF IInv, FlowInv, Reading
  <2>3. CASE call = "none"
    <3>1. mx = x /\ my = y /\ LoopReset
      BY <1>1, <2>1, <2>3 DEF IInv, FlowInv, Reading, CallReset
    <3>2. CASE IconsUnder = {}
      BY <2>2, <2>3, <3>1, <3>2, HitIsUnder DEF Lands, LoopReset
    <3>3. CASE IconsUnder # {}
      <4>1. PICK i \in IconsUnder : TRUE
        BY <3>3
      <4>2. \A j \in IconsUnder : Icons[j].action = Hit
        BY <2>2, <3>1, HitIsUnder
      <4>3. Hit \in {"launch", "reboot", "halt"}
        BY <4>1, <4>2, IconsAssumption DEF IconsUnder
      <4>4. pc' = IF Hit = "launch" THEN "prepare" ELSE "off"
        BY <3>1, <4>3 DEF LoopReset
      <4>. QED
        BY <2>2, <2>3, <3>3, <4>1, <4>2, <4>4 DEF Lands
    <3>. QED
      BY <3>2, <3>3
  <2>4. CASE call # "none"
    <3>1. (call = "close") = PointIn(x, y, CloseBox)
      BY <1>1, <2>4 DEF IInv, FlowInv, Reading
    <3>2. PointIn(x, y, CloseBox) <=> <<x, y>> \in Area(CloseBox)
      BY <2>2, PointInArea, CloseBoxAssumption DEF MouseTypeOK
    <3>. QED
      BY <2>2, <2>4, <3>1, <3>2, Zenon DEF Lands
  <2>. QED
    BY <2>3, <2>4
<1>2. IInv /\ [Next]_vars => [pc = "reset" /\ pc' # "reset" /\ still => Lands]_vars
  BY <1>1
<1>3. Spec => [][pc = "reset" /\ pc' # "reset" /\ still => Lands]_vars
  BY <1>2, Invariance, PTL DEF Spec
<1>. QED
  BY <1>3 DEF ClicksLand, Lands

-----------------------------------------------------------------------------
(* The driver implements Pointer.                                          *)
pointed == <<x, y, left, right, click, Synced, polls > 0>>

LEMMA WithinIsClamped ==
  ASSUME NEW n \in Nat \ {0}, NEW v \in Int
  PROVE  Clamped(v, n) = Promise!Within(v, n)
BY DEF Clamped, Promise!Within

(* A byte of a report that arrives whole, and any other byte.              *)
LEMMA ByteInStep ==
  ASSUME MouseTypeOK, Synced, MouseByte
  PROVE  Synced' /\ (Promise!Report \/ UNCHANGED pointed)
<1>1. /\ SendByte /\ Callback(report'[sent + 1]) /\ UNCHANGED <<installed, polls>> /\ cycle = sent
  BY DEF MouseByte, Synced
<1>2. cycle' = sent' /\ cycle \in 0 .. 2
  BY <1>1 DEF Callback, SendByte, MouseTypeOK
<1>3. \A i \in 0 .. 2 : i < cycle => packet[i] = report'[i + 1]
  BY <1>1, <1>2 DEF SendByte, Synced
<1>4. packet' = [packet EXCEPT ![cycle] = report'[cycle + 1]]
  BY <1>1 DEF Callback
<1>5. Synced'
  <2>1. ASSUME NEW i \in 0 .. 2, i < cycle' PROVE packet'[i] = report'[i + 1]
    <3>1. i <= cycle
      BY <2>1, <1>1, <1>2 DEF Callback
    <3>2. packet'[i] = IF i = cycle THEN report'[cycle + 1] ELSE packet[i]
      BY <1>4 DEF MouseTypeOK
    <3>. QED
      BY <1>2, <1>3, <3>1, <3>2
  <2>. QED
    BY <1>2, <2>1 DEF Synced
<1>6. CASE cycle = 2
  <2>1. packet[0] = report'[1] /\ packet[1] = report'[2]
    BY <1>3, <1>6
  <2>2. report' \in Reports /\ SyncBit(report'[1])
    BY <1>1, ReportsAssumption DEF SendByte, SyncBit
  <2>3. report'[1] \in Byte /\ report'[2] \in Byte /\ report'[3] \in Byte
    BY <2>2, ReportsAssumption
  <2>4. Understand(report'[1], Signed(report'[2]), Signed(report'[3]))
    BY <1>1, <1>6, <2>1, <2>2 DEF Callback
  <2> DEFINE m == [dx |-> Signed(report'[2]), dy |-> Signed(report'[3]),
                   left |-> LeftBit(report'[1]), right |-> RightBit(report'[1])]
  <2>5. m \in Moves
    BY <2>2 DEF Moves
  <2>6. x + m.dx \in Int /\ y - m.dy \in Int
    BY <2>3, SignedType DEF MouseTypeOK
  <2>7. x' = Promise!Within(x + m.dx, Width) /\ y' = Promise!Within(y - m.dy, Height)
    BY <2>4, <2>6, WithinIsClamped DEF Understand
  <2>8. left' = m.left /\ right' = m.right /\ click' = (click \/ m.left)
    BY <2>4 DEF Understand
  <2>9. (polls' > 0) = (polls > 0)
    BY <1>1
  <2>. QED
    BY <1>5, <2>5, <2>7, <2>8, <2>9, Zenon DEF Promise!Report
<1>7. CASE cycle # 2
  <2>1. UNCHANGED pointerVars
    BY <1>1, <1>7 DEF Callback
  <2>2. Synced' = Synced
    BY <1>5 DEF Synced
  <2>. QED
    BY <1>1, <1>5, <2>1, <2>2 DEF pointed, pointerVars
<1>. QED
  BY <1>6, <1>7

(* A byte that the driver is given out of step, or that is not the mouse's.*)
LEMMA NoiseIn ==
  ASSUME MouseTypeOK, NEW b \in Byte, Callback(b), ~Synced \/ polls > 0, (polls' > 0) = (polls > 0)
  PROVE  Promise!Noise
<1>1. <<x', y'>> \in Promise!Screen /\ <<left', right'>> \in BOOLEAN \X BOOLEAN
      /\ click' \in BOOLEAN /\ (click => click') /\ (click' => click \/ left')
  <2>1. CASE cycle = 2 /\ SyncBit(packet[0])
    <3>1. packet[0] \in Byte /\ packet[1] \in Byte
      BY DEF MouseTypeOK
    <3>2. x + Signed(packet[1]) \in Int /\ y - Signed(b) \in Int
      BY <3>1, SignedType DEF MouseTypeOK
    <3>3. x' \in 0 .. Width - 1 /\ y' \in 0 .. Height - 1
      BY <2>1, <3>2, ClampedType DEF Callback, Understand
    <3>4. left' \in BOOLEAN /\ right' \in BOOLEAN /\ click' \in BOOLEAN
      BY <2>1, Zenon DEF Callback, Understand, LeftBit, RightBit, MouseTypeOK
    <3>5. left' = LeftBit(packet[0]) /\ click' = (click \/ LeftBit(packet[0]))
      BY <2>1, Zenon DEF Callback, Understand
    <3>. QED
      BY <3>3, <3>4, <3>5, Zenon DEF Promise!Screen
  <2>2. CASE ~(cycle = 2 /\ SyncBit(packet[0]))
    <3>1. UNCHANGED <<x, y, left, right, click>>
      BY <2>2 DEF Callback, pointerVars
    <3>. QED
      BY <3>1, Zenon DEF MouseTypeOK, Promise!Screen
  <2>. QED
    BY <2>1, <2>2
<1>2. Synced' \in BOOLEAN
  BY DEF Synced
<1>. QED
  BY <1>1, <1>2, Zenon DEF Promise!Noise

(* mouse_init begins, takes a byte, leaves one to the interrupt, ends.     *)
LEMMA InitialisesAsPromised ==
  ASSUME MouseTypeOK, MouseTypeOK', MouseInitBegin \/ MouseInitStep(ints)
  PROVE  Promise!Next \/ UNCHANGED pointed
<1>1. CASE MouseInitBegin
  <2>1. UNCHANGED <<x, y, left, right, click, packet, cycle, report, sent>> /\ ~ polls > 0 /\ polls' > 0
    BY <1>1 DEF MouseInitBegin, InitPolls, pointerVars
  <2>2. (polls' > 0) = ~(polls > 0) /\ (Synced' <=> Synced)
    BY <2>1 DEF Synced
  <2>. QED
    BY <2>1, <2>2, Zenon DEF Promise!SetUp, Promise!Next, Promise!Screen, MouseTypeOK
<1>2. CASE PollReadsAnswer
  <2>1. UNCHANGED <<x, y, left, right, click, packet, cycle, report, sent>> /\ polls > 0 /\ polls' > 0
    BY <1>2 DEF PollReadsAnswer, PollDone, pointerVars, MouseTypeOK
  <2>2. (polls' > 0) = (polls > 0) /\ Synced' = Synced
    BY <2>1 DEF Synced
  <2>. QED
    BY <2>1, <2>2 DEF pointed
<1>3. CASE PollSwallowsByte
  <2>1. UNCHANGED <<x, y, left, right, click>> /\ polls > 0 /\ polls' > 0
    BY <1>3 DEF PollSwallowsByte, PollDone, pointerVars, MouseTypeOK
  <2>2. (polls' > 0) = (polls > 0) /\ Synced' \in BOOLEAN
    BY <2>1 DEF Synced
  <2>. QED
    BY <2>1, <2>2, Zenon DEF Promise!Noise, Promise!Next, Promise!Screen, MouseTypeOK
<1>4. CASE InterruptReadsAnswer
  <2>1. polls > 0 /\ polls' > 0 /\ Callback(Ack)
    BY <1>4 DEF InterruptReadsAnswer, PollDone, MouseTypeOK
  <2>2. (polls' > 0) = (polls > 0)
    BY <2>1
  <2>. QED
    BY <2>1, <2>2, NoiseIn DEF Promise!Next
<1>5. CASE MouseInitEnd
  <2>1. UNCHANGED <<left, right, click, packet, cycle, report, sent>> /\ polls > 0 /\ ~ polls' > 0
    BY <1>5 DEF MouseInitEnd
  <2>2. (polls' > 0) = ~(polls > 0) /\ (Synced' <=> Synced)
    BY <2>1 DEF Synced
  <2>. QED
    BY <2>1, <2>2, Zenon DEF Promise!SetUp, Promise!Next, Promise!Screen, MouseTypeOK
<1>. QED
  BY <1>1, <1>2, <1>3, <1>4, <1>5 DEF MouseInitStep

LEMMA StepAsPromised ==
  ASSUME IInv, IInv', [Next]_vars
  PROVE  Promise!Next \/ UNCHANGED pointed
<1>1. MouseTypeOK /\ MouseTypeOK' /\ MouseStep
  BY StepIsMouseStep DEF IInv
<1>2. CASE UNCHANGED mouseVars
  <2>1. UNCHANGED <<x, y, left, right, click, packet, cycle, report, sent, polls>>
    BY <1>2 DEF mouseVars, pointerVars
  <2>2. (polls' > 0) = (polls > 0) /\ Synced' = Synced
    BY <2>1 DEF Synced
  <2>. QED
    BY <2>1, <2>2 DEF pointed
<1>3. CASE MouseByte /\ Synced
  BY <1>1, <1>3, ByteInStep DEF Promise!Next
<1>4. CASE MouseByte /\ ~Synced
  <2>1. SendByte /\ Callback(report'[sent + 1]) /\ polls' = polls
    BY <1>4 DEF MouseByte
  <2>. QED
    BY <1>1, <1>4, <2>1, SendByteType, NoiseIn DEF Promise!Next
<1>5. CASE MouseInitBegin \/ MouseInitStep(ints)
  BY <1>1, <1>5, InitialisesAsPromised
<1>6. CASE pc = "reset" /\ ResetClick
  <2>1. click /\ click' = FALSE /\ UNCHANGED <<x, y, left, right, packet, cycle, report, sent, polls>>
    BY <1>6, Zenon DEF ResetClick, IInv, FlowInv, Reading
  <2>2. (polls' > 0) = (polls > 0) /\ Synced' = Synced
    BY <2>1 DEF Synced
  <2>. QED
    BY <2>1, <2>2, Zenon DEF Promise!Take, Promise!Next
<1>. QED
  BY <1>1, <1>2, <1>3, <1>4, <1>5, <1>6 DEF MouseStep

(* No report is torn and no press is dropped or used twice, for every      *)
(* screen, every set of reports and every interleaving of the interrupts   *)
(* with mouse_init, the desktop and its programs.                          *)
THEOREM Implements == Spec => KeepsPointer
<1>1. Init => Promise!Init
  <2>1. ASSUME Init PROVE Synced /\ ~ polls > 0
    BY <2>1 DEF Init, MouseInit, Synced
  <2>2. ASSUME Init PROVE Synced = TRUE /\ (polls > 0) = FALSE
    BY <2>1, <2>2 DEF Synced
  <2>3. <<0, 0>> \in Promise!Screen
    BY DEF Promise!Screen
  <2>. QED
    BY <2>2, <2>3, Zenon DEF Init, MouseInit, Promise!Init
<1>2. IInv /\ IInv' /\ [Next]_vars => [Promise!Next]_pointed
  BY StepAsPromised
<1>3. Spec => Promise!Init /\ [][Promise!Next]_pointed
  BY <1>1, <1>2, Invariance, PTL DEF Spec
<1>. QED
  BY <1>3 DEF KeepsPointer, Promise!Spec, pointed

(* The desktop keeps its variables in order and loses no request.          *)
THEOREM Sound == Spec => []DesktopSound
BY TypeCorrect, Offered, PTL DEF DesktopSound
=============================================================================
