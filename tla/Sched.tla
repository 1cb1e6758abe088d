------------------------------- MODULE Sched -------------------------------
(***************************************************************************)
(* The one CPU of the system: the kernel's shell, which starts a program   *)
(* in ring 3 and waits for it (lsp.c, usermode.asm), the system calls by   *)
(* which the program comes back (syscall.asm, syscall.c), and the timer    *)
(* interrupt, which takes the CPU from a program that does not             *)
(* (sched.c, timer.c, irq.c).  An interrupt comes between any two          *)
(* statements while the interrupt flag is set; its handler runs with the   *)
(* flag clear and is one step.                                             *)
(***************************************************************************)
EXTENDS Naturals

CONSTANTS Wrap,       \* 2^32: tick_count and its copies are uint32_t
          Quantum,    \* SCHED_QUANTUM_MS
          Hz,         \* TIMER_HZ, and the 1000 that timer_wait divides by
          MaxSleep,   \* BOUND on the milliseconds a program asks to sleep
          MaxKeys     \* BOUND on the characters typed ahead

ASSUME QuantumAssumption == Quantum \in Nat /\ Wrap \in Nat /\ 0 < Quantum /\ Quantum < Wrap
ASSUME HzAssumption == Hz \in Nat /\ 0 < Hz
ASSUME SleepAssumption == MaxSleep \in Nat /\ MaxKeys \in Nat

VARIABLES ticks,      \* tick_count
          active,     \* user_active
          start,      \* user_start_tick
          pending,    \* preempt_pending
          IFlag,      \* the interrupt flag of EFLAGS
          pc,         \* the next statement of the CPU's main flow
          reg,        \* timer_ticks() read, not yet stored
          call,       \* the system call being served
          ms, target, \* what timer_wait was asked for, and its end
          latched,    \* the keyboard controller holds a scancode
          keys,       \* characters in the keyboard ring
          \* History, which no guard reads:
          since,      \* ticks since the program last entered the kernel
          ran,        \* ticks that found the program running since then
          slept,      \* ticks since the running timer_wait began
          killed      \* a program was preempted

timeVars == <<ticks, since, ran, slept>>
keyVars == <<latched, keys>>
schedVars == <<active, start, pending>>
vars == <<ticks, active, start, pending, IFlag, pc, reg, call, ms, target,
          latched, keys, since, ran, slept, killed>>

Tick == 0 .. Wrap - 1
NextTick(t) == IF t + 1 = Wrap THEN 0 ELSE t + 1
(* timer_ticks() - user_start_tick in 32 bits.                             *)
Elapsed(now, from) == IF now >= from THEN now - from ELSE now + Wrap - from
(* Histories stop counting where no property tells values apart.           *)
UpTo(bound, n) == IF n < bound THEN n ELSE bound

Init ==
  /\ ticks = 0 /\ active = FALSE /\ start = 0 /\ pending = FALSE
  /\ IFlag = TRUE /\ pc = "shell" /\ reg = 0 /\ call = "none"
  /\ ms = 0 /\ target = 0
  /\ latched = FALSE /\ keys = 0
  /\ since = 0 /\ ran = 0 /\ slept = 0 /\ killed = FALSE

Goto(step) == pc' = step

-----------------------------------------------------------------------------
(* The shell waits in keyboard_getchar; a character may end a command that *)
(* runs a program.                                                         *)
ShellReads ==
  /\ pc = "shell" /\ keys > 0 /\ keys' = keys - 1
  /\ Goto("shell") \/ Goto("enter_active")
  /\ UNCHANGED <<timeVars, schedVars, IFlag, reg, call, ms, target, latched, killed>>

(* sched_user_enter, called by enter_user_mode with interrupts on.         *)
EnterActive ==
  /\ pc = "enter_active" /\ active' = TRUE /\ Goto("enter_read")
  /\ UNCHANGED <<timeVars, start, pending, IFlag, reg, call, ms, target, keyVars, killed>>
EnterRead ==
  /\ pc = "enter_read" /\ reg' = ticks /\ since' = 0 /\ ran' = 0 /\ Goto("enter_start")
  /\ UNCHANGED <<ticks, slept, schedVars, IFlag, call, ms, target, keyVars, killed>>
EnterStart ==
  /\ pc = "enter_start" /\ start' = reg /\ reg' = 0 /\ Goto("enter_clear")
  /\ UNCHANGED <<timeVars, active, pending, IFlag, call, ms, target, keyVars, killed>>
EnterClear ==
  /\ pc = "enter_clear" /\ pending' = FALSE /\ Goto("enter_iret")
  /\ UNCHANGED <<timeVars, active, start, IFlag, reg, call, ms, target, keyVars, killed>>
(* iret with EFLAGS = 0x202.  (A mutant: 0x002.)                            *)
UserFlagClear == FALSE
UserFlag == TRUE
EnterIret ==
  /\ pc = "enter_iret" /\ IFlag' = UserFlag /\ Goto("user")
  /\ UNCHANGED <<timeVars, schedVars, reg, call, ms, target, keyVars, killed>>

-----------------------------------------------------------------------------
(* int 0x80.  The gate is a trap gate: the flag stays as it was.  (A       *)
(* mutant: an interrupt gate, like those of the IRQs.)                     *)
SyscallFlagCleared == FALSE
SyscallFlag == IFlag

Syscall(kind) ==
  /\ pc = "user" /\ call' = kind /\ IFlag' = SyscallFlag /\ Goto("yield_read")
  /\ UNCHANGED <<timeVars, schedVars, reg, ms, target, keyVars, killed>>

(* sched_note_yield, called by syscall_dispatch and again by sc_sleep.     *)
YieldRead ==
  /\ pc = "yield_read"
  /\ IF active THEN reg' = ticks /\ since' = 0 /\ ran' = 0 /\ Goto("yield_start")
     ELSE Goto("dispatch") /\ UNCHANGED <<reg, since, ran>>
  /\ UNCHANGED <<ticks, slept, schedVars, IFlag, call, ms, target, keyVars, killed>>
YieldStart ==
  /\ pc = "yield_start" /\ start' = reg /\ reg' = 0 /\ Goto("yield_clear")
  /\ UNCHANGED <<timeVars, active, pending, IFlag, call, ms, target, keyVars, killed>>
(* A mutant: the request is left as it is.                                 *)
YieldNoClear ==
  /\ pc = "yield_clear" /\ Goto("dispatch")
  /\ UNCHANGED <<timeVars, schedVars, IFlag, reg, call, ms, target, keyVars, killed>>
YieldClear ==
  /\ pc = "yield_clear" /\ pending' = FALSE /\ Goto("dispatch")
  /\ UNCHANGED <<timeVars, active, start, IFlag, reg, call, ms, target, keyVars, killed>>

(* kernel_resume: back to the shell behind enter_user_mode, with the flag  *)
(* it was called with.                                                     *)
KernelResume(flag) ==
  /\ active' = FALSE /\ pending' = FALSE /\ UNCHANGED start
  /\ IFlag' = flag /\ Goto("shell") /\ call' = "none"

SysExit ==
  /\ pc = "dispatch" /\ call = "exit"
  /\ KernelResume(IFlag)
  /\ UNCHANGED <<timeVars, reg, ms, target, keyVars, killed>>

SysReturn ==
  /\ Goto("user") /\ call' = "none" /\ ms' = 0 /\ target' = 0 /\ slept' = 0
  /\ UNCHANGED <<ticks, since, ran, schedVars, IFlag, reg, killed>>

(* A call that does its work at once.                                      *)
SysOther == pc = "dispatch" /\ call = "other" /\ SysReturn /\ UNCHANGED keyVars

(* sc_getchar, waiting in keyboard_getchar until there is a character.     *)
SysGetchar ==
  /\ pc = "dispatch" /\ call = "getchar" /\ keys > 0
  /\ keys' = keys - 1 /\ UNCHANGED latched /\ SysReturn

(* sc_sleep yields a second time, then calls timer_wait.                   *)
SysSleep ==
  /\ pc = "dispatch" /\ call = "sleep" /\ call' = "sleeping" /\ Goto("yield_read")
  /\ UNCHANGED <<timeVars, schedVars, IFlag, reg, ms, target, keyVars, killed>>

(* (ms * TIMER_HZ) / 1000 and its sum with tick_count, in 32 bits.         *)
TicksFor(m) == ((m * Hz) % Wrap) \div Hz
WaitBegin(m) ==
  /\ pc = "dispatch" /\ call = "sleeping"
  /\ ms' = m /\ target' = (ticks + TicksFor(m)) % Wrap /\ slept' = 0
  /\ Goto("wait")
  /\ UNCHANGED <<ticks, since, ran, schedVars, IFlag, reg, call, keyVars, killed>>

(* A mutant: the wait ends one tick early.                                 *)
WaitOverEarly == ticks + 1 >= target
WaitOver == ticks >= target

WaitHalts ==
  /\ pc = "wait" /\ ~WaitOver /\ IFlag' = TRUE /\ Goto("hlt")
  /\ UNCHANGED <<timeVars, schedVars, reg, call, ms, target, keyVars, killed>>
WaitEnds == pc = "wait" /\ WaitOver /\ SysReturn /\ UNCHANGED keyVars

-----------------------------------------------------------------------------
(* irq_handler(32, cs): timer_handler counts and calls sched_tick; then,   *)
(* if the interrupt came from ring 3, a program out of time is abandoned.  *)

(* A mutant: the quantum is compared with "greater than".                  *)
QuantumOverLate(e) == e > Quantum
QuantumOver(e) == e >= Quantum

PendingAfterTick ==
  pending \/ (active /\ QuantumOver(Elapsed(NextTick(ticks), start)))

TimerIRQ ==
  /\ IFlag
  /\ ticks' = NextTick(ticks)
  /\ since' = UpTo(Wrap, since + 1)
  /\ slept' = IF pc \in {"wait", "hlt"} THEN UpTo(MaxSleep, slept + 1) ELSE slept
  /\ ran' = IF pc = "user" THEN UpTo(Quantum, ran + 1) ELSE ran
  /\ IF PendingAfterTick /\ pc = "user"
       THEN KernelResume(FALSE) /\ killed' = TRUE
       ELSE /\ pending' = PendingAfterTick
            /\ Goto(IF pc = "hlt" THEN "wait" ELSE pc)
            /\ UNCHANGED <<active, start, IFlag, call, killed>>
  /\ UNCHANGED <<reg, ms, target, keyVars>>

(* irq_handler(33, cs): keyboard_callback.                                 *)
KeyIRQ ==
  /\ IFlag /\ latched /\ latched' = FALSE
  /\ keys' = UpTo(MaxKeys, keys + 1)
  /\ Goto(IF pc = "hlt" THEN "wait" ELSE pc)
  /\ UNCHANGED <<timeVars, schedVars, IFlag, reg, call, ms, target, killed>>

KeyPress ==
  /\ ~latched /\ latched' = TRUE
  /\ UNCHANGED <<timeVars, schedVars, IFlag, pc, reg, call, ms, target, keys, killed>>

-----------------------------------------------------------------------------
Kernel == \/ ShellReads \/ EnterActive \/ EnterRead \/ EnterStart \/ EnterClear \/ EnterIret
          \/ YieldRead \/ YieldStart \/ YieldClear
          \/ SysExit \/ SysOther \/ SysGetchar \/ SysSleep
          \/ \E m \in 0 .. MaxSleep : WaitBegin(m)
          \/ WaitHalts \/ WaitEnds
Program == \E kind \in {"exit", "other", "getchar", "sleep"} : Syscall(kind)

Next == Kernel \/ Program \/ TimerIRQ \/ KeyIRQ \/ KeyPress

Spec == Init /\ [][Next]_vars
(* The CPU goes on executing kernel code, and the interrupt controller     *)
(* delivers what is raised while the flag is set.  A program may loop.     *)
FairSpec == Spec /\ WF_vars(Kernel) /\ WF_vars(TimerIRQ) /\ WF_vars(KeyIRQ)

-----------------------------------------------------------------------------
EnterSteps == {"enter_active", "enter_read", "enter_start", "enter_clear", "enter_iret"}
YieldSteps == {"yield_read", "yield_start", "yield_clear"}
SyscallSteps == YieldSteps \cup {"dispatch", "wait", "hlt"}

(* The tick counts stay in 32 bits, and every control point is one of the  *)
(* code's.                                                                 *)
TypeOK ==
  /\ ticks \in Tick /\ start \in Tick /\ reg \in Tick /\ target \in Tick
  /\ active \in BOOLEAN /\ pending \in BOOLEAN /\ IFlag \in BOOLEAN
  /\ pc \in {"shell", "user"} \cup EnterSteps \cup SyscallSteps
  /\ call \in {"none", "exit", "other", "getchar", "sleep", "sleeping"}
  /\ ms \in 0 .. MaxSleep
  /\ latched \in BOOLEAN /\ keys \in 0 .. MaxKeys
  /\ since \in 0 .. Wrap /\ ran \in 0 .. Quantum /\ slept \in 0 .. MaxSleep
  /\ killed \in BOOLEAN

(* A program loses the CPU only if a whole quantum has passed since it     *)
(* last entered the kernel or was started: a request left over from before *)
(* the call, or from the program before, never kills it.  The statements   *)
(* of sched_user_enter and sched_note_yield are in the order that makes it *)
(* so although the timer interrupt comes between any two of them.          *)
KillOnlyAfterQuantum ==
  [][pc = "user" /\ active /\ ~active' => since + 1 >= Quantum]_vars

(* The kernel knows of a program exactly while there is one: user_active   *)
(* is set before ring 3 and the request is dropped behind it.              *)
ActiveWithProgram ==
  /\ pc \in {"user"} \cup SyscallSteps => active /\ IFlag
  /\ pc \in EnterSteps \ {"enter_active"} => active
  /\ pc = "shell" => ~active /\ ~pending

(* A program that never calls the kernel is taken off the CPU by the last  *)
(* tick of its quantum, unless it spent all 2^32 ticks in its last call.   *)
NoRunaway == pc = "user" /\ since < Wrap => ran < Quantum

(* What the scheduler knows of the program is true, and in time: counts,   *)
(* the record of the program, and the end of its quantum.                  *)
SchedSound == TypeOK /\ ActiveWithProgram /\ NoRunaway

(* timer_wait returns no earlier than asked, unless 32 bits do not hold    *)
(* ms * TIMER_HZ or the tick count it waits for.                           *)
SleepNotShort ==
  [][pc = "wait" /\ pc' = "user" =>
       slept >= ms \/ ms * Hz >= Wrap \/ target < ms]_vars
=============================================================================
