------------------------------ MODULE Desktop ------------------------------
(***************************************************************************)
(* The desktop of kernel/kernel/desktop.c, the programs that it and the    *)
(* shell's run start, and the system calls by which they read the mouse,   *)
(* ask whether to close, draw the cursor and hand a file name to NOTEPAD   *)
(* (syscall.c).  The mouse's interrupts come between any two reads of the  *)
(* mouse's variables.  What is drawn is where the cursor is drawn.         *)
(***************************************************************************)
EXTENDS Mouse

CONSTANTS Icons,      \* icons: [x, y, w, h, action], h with the label
          CloseBox    \* the [x, y, w, h] that desktop_win_info gives

(* Icons are apart from one another, as their cells are.                   *)
Apart(r, s) == \/ r.x + r.w <= s.x \/ s.x + s.w <= r.x
               \/ r.y + r.h <= s.y \/ s.y + s.h <= r.y
ASSUME IconsAssumption ==
  /\ DOMAIN Icons \subseteq Nat
  /\ \A i \in DOMAIN Icons :
       /\ Icons[i].x \in Nat /\ Icons[i].y \in Nat /\ Icons[i].w \in Nat /\ Icons[i].h \in Nat
       /\ Icons[i].action \in {"launch", "reboot", "halt"}
  /\ \A i, j \in DOMAIN Icons : i # j => Apart(Icons[i], Icons[j])
ASSUME CloseBoxAssumption ==
  CloseBox.x \in Nat /\ CloseBox.y \in Nat /\ CloseBox.w \in Nat /\ CloseBox.h \in Nat

VARIABLES pc,               \* where the CPU's main flow is
          mx, my, dirty,    \* the locals of desktop_run; prev_x, prev_y too
          cx, cy,           \* the locals mx, my of a system call
          drawn,            \* where the cursor was last drawn
          program,          \* the program that has the CPU
          call,             \* the mouse's system call being served
          pending,          \* g_open_file while g_has_open_file, or NoFile
          ints,             \* the interrupt flag
          \* History, which no guard reads:
          still,            \* nothing changed since mx, or cx, was read
          asked             \* who asked for the pending file

loopVars == <<mx, my, dirty>>
callVars == <<cx, cy>>
screenVars == <<loopVars, callVars, drawn>>
fileVars == <<pending, asked>>
flowVars == <<pc, program, call>>
vars == <<mouseVars, flowVars, screenVars, fileVars, ints, still>>

NoFile == "no file"
LoopSteps == {"loop", "read_y", "test", "reset", "draw"}
CallSteps == {"call_x", "call_y", "test", "reset"}

Init ==
  /\ MouseInit /\ pc = "shell" /\ mx = 0 /\ my = 0 /\ cx = 0 /\ cy = 0 /\ dirty = FALSE /\ drawn = <<0, 0>>
  /\ program = "none" /\ call = "none" /\ pending = NoFile
  /\ ints = TRUE /\ still = TRUE /\ asked = "nobody"

Goto(from, to) == pc = from /\ pc' = to

-----------------------------------------------------------------------------
(* The interrupt.                                                          *)
MouseIRQ ==
  /\ ints /\ MouseByte
  /\ still' = (still /\ UNCHANGED <<x, y, click>>)
  /\ UNCHANGED <<flowVars, screenVars, fileVars, ints>>

-----------------------------------------------------------------------------
(* The shell: do_run and do_ui begin with mouse_init.                      *)
Command(to) ==
  /\ Goto("shell", to) /\ MouseInitBegin
  /\ UNCHANGED <<program, call, screenVars, fileVars, ints, still>>
DoRun == Command("init_run")
DoUi == Command("init_ui")

Initialise ==
  /\ pc \in {"init_run", "init_ui"} /\ MouseInitStep(ints)
  /\ \/ polls' > 0 /\ UNCHANGED <<pc, program, dirty>>
     \/ polls' = 0 /\ pc = "init_run" /\ pc' = "load" /\ program' = "run" /\ UNCHANGED dirty
     \/ polls' = 0 /\ pc = "init_ui" /\ pc' = "loop" /\ dirty' = TRUE /\ UNCHANGED program
  /\ UNCHANGED <<call, mx, my, callVars, drawn, fileVars, ints, still>>

-----------------------------------------------------------------------------
(* The reads of the mouse that begin a round of the loop, or follow the    *)
(* test of the click in a system call.                                     *)
ReadX(from, to) ==
  /\ Goto(from, to) /\ still' = TRUE
  /\ UNCHANGED <<mouseVars, program, call, drawn, fileVars, ints>>

(* desktop_run, lines 233 to 239.                                          *)
LoopX ==
  /\ ReadX("loop", "read_y")
  /\ mx' = x /\ dirty' = (dirty \/ x # mx) /\ UNCHANGED <<my, callVars>>
(* (A mutant: a move up or down does not count.)                           *)
DirtySideways == dirty
DirtyNow == dirty \/ y # my
LoopY ==
  /\ Goto("read_y", "test") /\ my' = y /\ dirty' = DirtyNow
  /\ UNCHANGED <<mouseVars, program, call, mx, callVars, drawn, fileVars, ints, still>>

(* mouse_click_consume: the test, then the reset.                          *)
TestFails == IF call = "none" THEN "draw" ELSE "program"
TestClick ==
  /\ Goto("test", IF click THEN "reset" ELSE TestFails)
  /\ call' = IF click THEN call ELSE "none"
  /\ UNCHANGED <<mouseVars, program, screenVars, fileVars, ints, still>>

(* dt_point_in.  (A mutant: it takes the right edge in.)                   *)
PointInOrOn(px, py, r) == px >= r.x /\ px <= r.x + r.w /\ py >= r.y /\ py < r.y + r.h
PointIn(px, py, r) == px >= r.x /\ px < r.x + r.w /\ py >= r.y /\ py < r.y + r.h

(* The first icon with the position has its action done.                   *)
At(px, py) == {i \in DOMAIN Icons : PointIn(px, py, Icons[i])}
Hit == IF At(mx, my) = {} THEN "none"
       ELSE Icons[CHOOSE i \in At(mx, my) : \A j \in At(mx, my) : i <= j].action
(* (A mutant: the click stays.)                                            *)
KeepClick == UNCHANGED mouseVars
ConsumeClick == ResetClick
LoopReset ==
  /\ pc = "reset" /\ call = "none" /\ ConsumeClick
  /\ \/ Hit = "none" /\ pc' = "draw" /\ UNCHANGED <<program, dirty, ints>>
     \/ Hit \in {"reboot", "halt"} /\ pc' = "off" /\ ints' = FALSE /\ UNCHANGED <<program, dirty>>
     \/ Hit = "launch" /\ pc' = "prepare" /\ program' = "app" /\ dirty' = TRUE /\ UNCHANGED ints
  /\ UNCHANGED <<call, mx, my, callVars, drawn, fileVars, still>>

(* Lines 258 to 271.                                                       *)
Draw ==
  /\ Goto("draw", "loop") /\ dirty' = FALSE
  /\ drawn' = IF dirty THEN <<mx, my>> ELSE drawn
  /\ UNCHANGED <<mouseVars, program, call, mx, my, callVars, fileVars, ints, still>>
Loop == LoopX \/ LoopY \/ TestClick \/ LoopReset \/ Draw

-----------------------------------------------------------------------------
(* dt_run_app, which reads the mouse for dt_prepare_win, loads the program *)
(* and, when that has ended, looks for a pending file.                     *)
PrepareWin ==
  /\ Goto("prepare", "load") /\ drawn' = <<x, y>>
  /\ UNCHANGED <<mouseVars, program, call, loopVars, callVars, fileVars, ints, still>>
Enter ==
  /\ Goto("load", "program") /\ ints' = TRUE
  /\ UNCHANGED <<mouseVars, program, call, screenVars, fileVars, still>>

(* Where a program that ended was called from.                             *)
Returned == IF program = "run" THEN "shell" ELSE IF program = "app" THEN "launched" ELSE "draw"
(* NOTEPAD had its chance (history).                                       *)
Unserved == asked' = IF program = "notepad" /\ asked = "app" THEN "unserved" ELSE asked
Leave(from, flag) ==
  /\ Goto(from, Returned) /\ ints' = flag /\ Unserved
  /\ program' = IF program = "app" THEN "app" ELSE "none"
  /\ call' = "none" /\ UNCHANGED <<mouseVars, screenVars, pending, still>>
LoadFails == Leave("load", ints)
Exit == Leave("program", ints)
(* The timer takes the CPU: back in the caller, interrupts stay off.       *)
Preempted == Leave("program", FALSE)

(* syscall_pending_file returns a length.  (A mutant: it is not called.)   *)
FileIgnored == FALSE
FileWaits == pending \notin {NoFile, ""}
Launched ==
  /\ pc = "launched"
  /\ IF FileWaits THEN pc' = "prepare" /\ program' = "notepad" ELSE pc' = "draw" /\ program' = "none"
  /\ UNCHANGED <<mouseVars, call, screenVars, fileVars, ints, still>>

-----------------------------------------------------------------------------
(* sc_open_file, of a name that may be empty, and sc_get_open_file.        *)
OpenFile(name) ==
  /\ pc = "program" /\ pending' = name /\ asked' = IF name = "" THEN "nobody" ELSE program
  /\ UNCHANGED <<mouseVars, flowVars, screenVars, ints, still>>
Fetched == NoFile
GetOpenFile ==
  /\ pc = "program" /\ pending' = Fetched /\ asked' = "nobody"
  /\ UNCHANGED <<mouseVars, flowVars, screenVars, ints, still>>

(* sc_cursor.                                                              *)
Cursor ==
  /\ pc = "program" /\ drawn' = <<x, y>>
  /\ UNCHANGED <<mouseVars, flowVars, loopVars, callVars, fileVars, ints, still>>

(* sc_mouse_click, and sc_win_should_close, which first takes a key from   *)
(* the keyboard's ring and returns 1, without a look at the mouse, for ESC.*)
Peek(name) ==
  /\ pc = "program" /\ click /\ pc' = "call_x" /\ call' = name
  /\ UNCHANGED <<mouseVars, program, screenVars, fileVars, ints, still>>
MouseClick == Peek("click")
WinShouldClose == Peek("close")

CallX == ReadX("call_x", "call_y") /\ cx' = x /\ UNCHANGED <<loopVars, cy>>
(* A click in the close box is for sc_win_should_close, any other for      *)
(* sc_mouse_click.                                                         *)
Mine == (call = "close") = PointIn(cx, cy', CloseBox)
CallY ==
  /\ pc = "call_y" /\ cy' = y
  /\ IF Mine THEN pc' = "test" /\ UNCHANGED call ELSE pc' = "program" /\ call' = "none"
  /\ UNCHANGED <<mouseVars, program, loopVars, cx, drawn, fileVars, ints, still>>
CallReset ==
  /\ pc = "reset" /\ call # "none" /\ ConsumeClick /\ pc' = "program" /\ call' = "none"
  /\ UNCHANGED <<program, screenVars, fileVars, ints, still>>

Systemcall ==
  \/ \E name \in {"f", ""} : OpenFile(name)
  \/ GetOpenFile \/ Cursor \/ MouseClick \/ WinShouldClose
Kernel == \/ Initialise \/ Loop \/ PrepareWin \/ Enter \/ LoadFails \/ Launched
          \/ CallX \/ CallY \/ CallReset

Next == \/ MouseIRQ \/ DoRun \/ DoUi \/ Kernel \/ Exit \/ Preempted \/ Systemcall
Spec == Init /\ [][Next]_vars
(* The CPU goes on with kernel code.  Of programs nothing is asked.        *)
FairSpec == Spec /\ WF_vars(Kernel)

-----------------------------------------------------------------------------
(* Bytes, positions and control points are those of the code, and          *)
(* mouse_init has the CPU only where the shell calls it.                   *)
TypeOK ==
  /\ MouseTypeOK
  /\ pc \in LoopSteps \cup CallSteps \cup
       {"shell", "init_run", "init_ui", "load", "program", "prepare", "launched", "off"}
  /\ mx \in 0 .. Width - 1 /\ my \in 0 .. Height - 1
  /\ cx \in 0 .. Width - 1 /\ cy \in 0 .. Height - 1
  /\ drawn \in (0 .. Width - 1) \X (0 .. Height - 1)
  /\ dirty \in BOOLEAN /\ ints \in BOOLEAN /\ still \in BOOLEAN
  /\ program \in {"none", "run", "app", "notepad"} /\ call \in {"none", "click", "close"}
  /\ pending \in {NoFile, "f", ""}
  /\ asked \in {"nobody", "run", "app", "notepad", "unserved"}
  /\ polls > 0 <=> pc \in {"init_run", "init_ui"}

(* The mouse keeps the promise of Pointer: the driver's bytes, whole or    *)
(* out of step, never tear a report, never leave the screen, and a press   *)
(* is neither dropped nor used twice by the desktop and the programs,      *)
(* whose tests and resets of the click the interrupts come between.        *)
KeepsPointer == Promise!Spec

(* Unless a report came since the position was read, a click does what is  *)
(* under the pointer: the icon's action in the desktop; in a program, only *)
(* sc_win_should_close gets a click in the close box, and no other.        *)
Area(r) == (r.x .. r.x + r.w - 1) \X (r.y .. r.y + r.h - 1)
IconsUnder == {i \in DOMAIN Icons : <<x, y>> \in Area(Icons[i])}
ClicksLand ==
  [][pc = "reset" /\ pc' # "reset" /\ still =>
       /\ click
       /\ call = "none" =>
            IF IconsUnder = {} THEN pc' = "draw"
            ELSE pc' = IF \E i \in IconsUnder : Icons[i].action = "launch" THEN "prepare" ELSE "off"
       /\ call # "none" => (call = "close" <=> <<x, y>> \in Area(CloseBox))]_vars

(* dt_run_app starts NOTEPAD behind a program exactly when a file is asked *)
(* for that nobody fetched.                                                *)
NotepadWhenAsked ==
  [][pc = "launched" /\ pc' # "launched" => (program' = "notepad" <=> asked # "nobody")]_vars

(* The desktop does not go on before NOTEPAD was offered the file that its *)
(* program asked for: a request that is still there was NOTEPAD's to       *)
(* fetch, NOTEPAD's own, or a program's that the shell ran.                *)
RequestOffered == pc \in LoopSteps /\ call = "none" => asked # "app"

(* Whoever has the CPU, the driver's and the desktop's variables are those *)
(* of one of its control points, and no request is lost on the way there.  *)
DesktopSound == TypeOK /\ RequestOffered
=============================================================================
