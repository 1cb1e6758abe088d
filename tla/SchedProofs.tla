----------------------------- MODULE SchedProofs -----------------------------
(***************************************************************************)
(* What TLC checks of Sched with small numbers, proved for every quantum,  *)
(* every width of the tick counter and every sequence of programs.         *)
(***************************************************************************)
EXTENDS Sched, TLAPS

(* Where a program has been started and has not been left.                 *)
InProgram == {"enter_start", "enter_clear", "enter_iret", "user"} \cup SyscallSteps

(* The counter measures the ticks since the time that was read last: from  *)
(* the register first, then from user_start_tick.                          *)
SinceSound ==
  since < Wrap =>
    /\ pc \in {"enter_start", "yield_start"} => Elapsed(ticks, reg) = since
    /\ pc \in InProgram \ {"enter_start", "yield_start"} => Elapsed(ticks, start) = since

(* A request outlives the clearing statement only if it was earned.        *)
PendingEarned ==
  pending /\ pc \in {"enter_iret", "user", "yield_read", "dispatch", "wait", "hlt"}
    => since >= Quantum

RanSound == pc \in InProgram /\ since < Wrap => ran <= since /\ ran < Quantum

IInv == TypeOK /\ ActiveWithProgram /\ SinceSound /\ PendingEarned /\ RanSound

USE QuantumAssumption, HzAssumption, SleepAssumption

LEMMA ModDiv ==
  ASSUME NEW x \in Nat, NEW n \in Nat \ {0}
  PROVE  x % n \in 0 .. n - 1 /\ x \div n \in Nat
OBVIOUS

LEMMA TicksForType ==
  ASSUME NEW m \in 0 .. MaxSleep
  PROVE  TicksFor(m) \in Nat
<1>1. m * Hz \in Nat
  OBVIOUS
<1>2. (m * Hz) % Wrap \in Nat
  BY <1>1, ModDiv
<1>. QED
  BY <1>2, ModDiv DEF TicksFor

(* The tick counter stays in range, and one tick more is one tick more     *)
(* elapsed, as long as the width of the counter is not reached.            *)
LEMMA TickElapsed ==
  ASSUME NEW t \in Tick, NEW from \in Tick
  PROVE  /\ NextTick(t) \in Tick
         /\ Elapsed(t, from) \in Tick
         /\ Elapsed(t, t) = 0
         /\ Elapsed(t, from) + 1 < Wrap
              => Elapsed(NextTick(t), from) = Elapsed(t, from) + 1
BY DEF Tick, NextTick, Elapsed

-----------------------------------------------------------------------------
LEMMA InitIInv == Init => IInv
<1>. SUFFICES ASSUME Init PROVE IInv
  OBVIOUS
<1>. USE DEF Init
<1>1. TypeOK
  <2>1. /\ active \in BOOLEAN /\ pending \in BOOLEAN /\ IFlag \in BOOLEAN
        /\ latched \in BOOLEAN /\ killed \in BOOLEAN
    BY Zenon
  <2>2. /\ ticks \in Tick /\ start \in Tick /\ reg \in Tick /\ target \in Tick
        /\ ms \in 0 .. MaxSleep /\ keys \in 0 .. MaxKeys /\ since \in 0 .. Wrap
        /\ ran \in 0 .. Quantum /\ slept \in 0 .. MaxSleep
    BY DEF Tick
  <2>. QED
    BY <2>1, <2>2 DEF TypeOK
<1>2. ActiveWithProgram /\ PendingEarned
  BY DEF ActiveWithProgram, PendingEarned, EnterSteps, SyscallSteps, YieldSteps
<1>3. SinceSound /\ RanSound
  BY DEF SinceSound, RanSound, InProgram, SyscallSteps, YieldSteps
<1>. QED
  BY <1>1, <1>2, <1>3 DEF IInv

(* One tick of the timer: the only step of the proof that does arithmetic. *)
LEMMA TimerStep ==
  ASSUME IInv, TimerIRQ
  PROVE  /\ IInv'
         /\ pc = "user" /\ active /\ ~active' => since + 1 >= Quantum
<1>. USE DEF IInv
<1>t. /\ ticks \in Tick /\ start \in Tick /\ reg \in Tick
      /\ since \in 0 .. Wrap /\ ran \in 0 .. Quantum
      /\ ticks' = NextTick(ticks) /\ reg' = reg /\ start' = start
      /\ since' = (IF since + 1 < Wrap THEN since + 1 ELSE Wrap)
      /\ ran' = IF pc = "user" THEN (IF ran + 1 < Quantum THEN ran + 1 ELSE Quantum) ELSE ran
  BY DEF TypeOK, TimerIRQ, UpTo, KernelResume
<1>p. /\ pc' \in {"shell", "wait", pc}
      /\ pc' # pc => pc' = "shell" \/ pc = "hlt"
  BY DEF TimerIRQ, KernelResume, Goto
<1>a. active \in BOOLEAN /\ pending \in BOOLEAN
  BY DEF TypeOK
<1>k. CASE PendingAfterTick /\ pc = "user"
  <2>1. active' = FALSE /\ pending' = FALSE /\ IFlag' = FALSE /\ pc' = "shell" /\ call' = "none"
    BY <1>k DEF TimerIRQ, KernelResume, Goto
  <2>2. TypeOK'
    <3>1. active' \in BOOLEAN /\ pending' \in BOOLEAN /\ IFlag' \in BOOLEAN
      BY <2>1, Zenon
    <3>2. latched' \in BOOLEAN /\ killed' \in BOOLEAN
      BY <1>k, Zenon DEF TypeOK, TimerIRQ, keyVars
    <3>3. /\ ticks' \in Tick /\ start' \in Tick /\ reg' \in Tick /\ target' \in Tick
          /\ ms' \in 0 .. MaxSleep /\ keys' \in 0 .. MaxKeys /\ since' \in 0 .. Wrap
          /\ ran' \in 0 .. Quantum /\ slept' \in 0 .. MaxSleep
      BY <1>t, TickElapsed DEF TypeOK, TimerIRQ, UpTo, keyVars
    <3>. QED
      BY <2>1, <3>1, <3>2, <3>3 DEF TypeOK
  <2>3. ActiveWithProgram' /\ SinceSound' /\ PendingEarned' /\ RanSound'
    BY <2>1 DEF ActiveWithProgram, SinceSound, PendingEarned, RanSound, InProgram,
                EnterSteps, SyscallSteps, YieldSteps
  <2>4. since + 1 >= Quantum
    <3>1. CASE pending
      BY <1>k, <3>1, <1>t DEF PendingEarned
    <3>2. CASE ~pending
      <4>1. Elapsed(NextTick(ticks), start) >= Quantum
        BY <1>k, <3>2 DEF PendingAfterTick, QuantumOver
      <4>2. CASE since + 1 < Wrap
        <5>1. Elapsed(ticks, start) = since
          BY <1>k, <4>2, <1>t DEF SinceSound, InProgram
        <5>. QED
          BY <5>1, <4>1, <4>2, <1>t, TickElapsed
      <4>. QED
        BY <4>2, <1>t
    <3>. QED
      BY <3>1, <3>2
  <2>. QED
    BY <2>2, <2>3, <2>4
<1>n. CASE ~(PendingAfterTick /\ pc = "user")
  <2>1. /\ active' = active /\ IFlag' = IFlag /\ call' = call /\ killed' = killed
        /\ pending' = PendingAfterTick
        /\ pc' = IF pc = "hlt" THEN "wait" ELSE pc
    BY <1>n DEF TimerIRQ, Goto
  <2>2. PendingAfterTick \in BOOLEAN
    BY DEF PendingAfterTick
  <2>3. TypeOK'
    BY <2>1, <2>2, <1>t, TickElapsed
       DEF TypeOK, TimerIRQ, UpTo, keyVars, EnterSteps, SyscallSteps, YieldSteps
  <2>4. ActiveWithProgram'
    BY <2>1 DEF ActiveWithProgram, PendingAfterTick, EnterSteps, SyscallSteps, YieldSteps
  <2>5. SinceSound'
    <3>1. SUFFICES ASSUME since + 1 < Wrap
                   PROVE  /\ pc' \in {"enter_start", "yield_start"} => Elapsed(ticks', reg') = since'
                          /\ pc' \in InProgram \ {"enter_start", "yield_start"}
                               => Elapsed(ticks', start') = since'
      BY <1>t DEF SinceSound
    <3>2. since' = since + 1 /\ since < Wrap
      BY <3>1, <1>t
    <3>3. pc' \in {"enter_start", "yield_start"} => Elapsed(ticks, reg) = since
      BY <3>2, <2>1 DEF SinceSound
    <3>4. pc' \in InProgram \ {"enter_start", "yield_start"} => Elapsed(ticks, start) = since
      BY <3>2, <2>1 DEF SinceSound, InProgram, SyscallSteps, YieldSteps
    <3>. QED
      BY <3>1, <3>2, <3>3, <3>4, <1>t, TickElapsed
  <2>6. PendingEarned'
    <3>1. SUFFICES ASSUME PendingAfterTick,
                          pc' \in {"enter_iret", "user", "yield_read", "dispatch", "wait", "hlt"}
                   PROVE  since' >= Quantum
      BY <2>1 DEF PendingEarned
    <3>2. pc \in {"enter_iret", "user", "yield_read", "dispatch", "wait", "hlt"}
      BY <3>1, <2>1
    <3>3. CASE pending
      BY <3>2, <3>3, <1>t DEF PendingEarned
    <3>4. CASE ~pending
      <4>1. Elapsed(NextTick(ticks), start) >= Quantum
        BY <3>1, <3>4 DEF PendingAfterTick, QuantumOver
      <4>2. CASE since + 1 < Wrap
        <5>1. Elapsed(ticks, start) = since
          BY <3>2, <4>2, <1>t DEF SinceSound, InProgram, SyscallSteps, YieldSteps
        <5>. QED
          BY <5>1, <4>1, <4>2, <1>t, TickElapsed
      <4>. QED
        BY <4>2, <1>t
    <3>. QED
      BY <3>3, <3>4
  <2>7. RanSound'
    <3>1. SUFFICES ASSUME pc' \in InProgram, since + 1 < Wrap
                   PROVE  ran' <= since' /\ ran' < Quantum
      BY <1>t DEF RanSound
    <3>2. pc \in InProgram /\ since < Wrap /\ ran <= since /\ ran < Quantum
      BY <3>1, <2>1, <1>t DEF RanSound, InProgram, SyscallSteps, YieldSteps
    <3>3. CASE pc # "user"
      BY <3>1, <3>2, <3>3, <1>t
    <3>4. CASE pc = "user"
      <4>1. Elapsed(NextTick(ticks), start) = since + 1
        BY <3>1, <3>2, <3>4, <1>t, TickElapsed DEF SinceSound, InProgram
      <4>2. active
        BY <3>4 DEF ActiveWithProgram
      <4>3. ~(since + 1 >= Quantum)
        BY <4>1, <4>2, <3>4, <1>n DEF PendingAfterTick, QuantumOver
      <4>. QED
        BY <4>3, <3>1, <3>2, <3>4, <1>t
    <3>. QED
      BY <3>3, <3>4
  <2>8. pc = "user" /\ active => active'
    BY <2>1
  <2>. QED
    BY <2>3, <2>4, <2>5, <2>6, <2>7, <2>8
<1>. QED
  BY <1>k, <1>n

LEMMA TargetType ==
  ASSUME NEW t \in Tick, NEW m \in 0 .. MaxSleep
  PROVE  (t + TicksFor(m)) % Wrap \in Tick
<1>1. t + TicksFor(m) \in Nat
  BY TicksForType DEF Tick
<1>2. Wrap \in Nat \ {0}
  OBVIOUS
<1>. QED
  BY <1>1, <1>2, ModDiv DEF Tick

(* Every other step leaves the clock alone and measures from it at most.   *)
LEMMA OtherSteps ==
  ASSUME IInv, [Next]_vars, ~TimerIRQ
  PROVE  IInv'
<1>. USE DEF IInv, TypeOK, ActiveWithProgram, SinceSound, PendingEarned, RanSound, InProgram,
             EnterSteps, SyscallSteps, YieldSteps
<1>0. /\ Elapsed(ticks, ticks) = 0 /\ 0 < Wrap /\ 0 < Quantum
      /\ 0 \in Tick /\ 0 \in 0 .. MaxSleep
  BY TickElapsed DEF Tick
<1>1. CASE ShellReads
  BY <1>0, <1>1 DEF ShellReads, Goto, timeVars, schedVars
<1>2. CASE EnterActive
  BY <1>0, <1>2 DEF EnterActive, Goto, timeVars, keyVars
<1>3. CASE EnterRead
  BY <1>0, <1>3 DEF EnterRead, Goto, schedVars, keyVars
<1>4. CASE EnterStart
  BY <1>0, <1>4 DEF EnterStart, Goto, timeVars, keyVars
<1>5. CASE EnterClear
  BY <1>0, <1>5 DEF EnterClear, Goto, timeVars, keyVars
<1>6. CASE EnterIret
  <2>1. IFlag' \in BOOLEAN
    BY <1>6, Zenon DEF EnterIret, UserFlag
  <2>2. pc = "enter_iret" /\ pc' = "user" /\ IFlag' = TRUE /\ active' = active
    BY <1>6, Zenon DEF EnterIret, UserFlag, Goto, schedVars
  <2>3. active
    BY <2>2, Zenon
  <2>4. TypeOK'
    BY <1>6, <2>1, <2>2 DEF EnterIret, timeVars, schedVars, keyVars
  <2>. QED
    BY <1>6, <2>2, <2>3, <2>4 DEF EnterIret, timeVars, schedVars, keyVars
<1>7. CASE YieldRead
  BY <1>0, <1>7 DEF YieldRead, Goto, schedVars, keyVars
<1>8. CASE YieldStart
  BY <1>0, <1>8 DEF YieldStart, Goto, timeVars, keyVars
<1>9. CASE YieldClear
  BY <1>0, <1>9 DEF YieldClear, Goto, timeVars, keyVars
<1>10. CASE SysExit
  BY <1>0, <1>10 DEF SysExit, KernelResume, Goto, timeVars, keyVars
<1>11. CASE SysOther
  BY <1>0, <1>11 DEF SysOther, SysReturn, Goto, schedVars, keyVars
<1>12. CASE SysGetchar
  BY <1>0, <1>12 DEF SysGetchar, SysReturn, Goto, schedVars
<1>13. CASE SysSleep
  BY <1>0, <1>13 DEF SysSleep, Goto, timeVars, schedVars, keyVars
<1>14. CASE WaitHalts
  BY <1>0, <1>14 DEF WaitHalts, Goto, timeVars, schedVars, keyVars
<1>15. CASE WaitEnds
  BY <1>0, <1>15 DEF WaitEnds, SysReturn, Goto, schedVars, keyVars
<1>16. CASE KeyIRQ
  <2>1. keys' \in 0 .. MaxKeys
    BY <1>16 DEF KeyIRQ, UpTo
  <2>2. latched' \in BOOLEAN
    BY <1>16, Zenon DEF KeyIRQ
  <2>. QED
    BY <1>0, <1>16, <2>1, <2>2 DEF KeyIRQ, Goto, timeVars, schedVars
<1>17. CASE KeyPress
  BY <1>0, <1>17 DEF KeyPress, timeVars, schedVars
<1>18. ASSUME NEW m \in 0 .. MaxSleep, WaitBegin(m) PROVE IInv'
  <2>1. target' \in Tick
    BY <1>18, TargetType DEF WaitBegin
  <2>. QED
    BY <1>18, <2>1 DEF WaitBegin, Goto, schedVars, keyVars
<1>19. ASSUME NEW kind \in {"exit", "other", "getchar", "sleep"}, Syscall(kind) PROVE IInv'
  BY <1>19 DEF Syscall, SyscallFlag, Goto, timeVars, schedVars, keyVars
<1>20. CASE UNCHANGED vars
  BY <1>20 DEF vars
<1>. QED
  BY <1>1, <1>2, <1>3, <1>4, <1>5, <1>6, <1>7, <1>8, <1>9, <1>10, <1>11, <1>12, <1>13, <1>14, <1>15, <1>16, <1>17, <1>18, <1>19, <1>20 DEF Next, Kernel, Program

-----------------------------------------------------------------------------
LEMMA StepIInv == IInv /\ [Next]_vars => IInv'
BY TimerStep, OtherSteps

(* The inductive invariant: the clock, the requests and the program's time *)
(* agree at every statement of the kernel.                                 *)
THEOREM Invariance == Spec => []IInv
<1>1. Init => IInv
  BY InitIInv
<1>2. IInv /\ [Next]_vars => IInv'
  BY StepIInv
<1>. QED
  BY <1>1, <1>2, PTL DEF Spec

(* Every variable keeps its type; the tick counts stay in 32 bits.         *)
THEOREM TypeCorrect == Spec => []TypeOK
<1>1. IInv => TypeOK
  BY DEF IInv
<1>. QED
  BY <1>1, Invariance, PTL

(* The scheduler's record of the program agrees with where the CPU is.     *)
THEOREM ActiveCorrect == Spec => []ActiveWithProgram
<1>1. IInv => ActiveWithProgram
  BY DEF IInv
<1>. QED
  BY <1>1, Invariance, PTL

(* A program that loops is off the CPU by the last tick of its quantum.    *)
THEOREM RunawayStopped == Spec => []NoRunaway
<1>1. IInv => NoRunaway
  BY DEF IInv, RanSound, NoRunaway, InProgram
<1>. QED
  BY <1>1, Invariance, PTL

(* Only the timer takes the CPU from a program in ring 3.                  *)
LEMMA OnlyTimerKills ==
  ASSUME [Next]_vars, ~TimerIRQ, pc = "user", active
  PROVE  active'
<1>1. CASE Kernel
  BY <1>1 DEF Kernel, ShellReads, EnterActive, EnterRead, EnterStart, EnterClear, EnterIret,
              YieldRead, YieldStart, YieldClear, SysExit, SysOther, SysGetchar, SysSleep,
              WaitBegin, WaitHalts, WaitEnds
<1>2. CASE Program
  BY <1>2 DEF Program, Syscall, schedVars
<1>3. CASE KeyIRQ \/ KeyPress
  BY <1>3 DEF KeyIRQ, KeyPress, schedVars
<1>4. CASE UNCHANGED vars
  BY <1>4 DEF vars
<1>. QED
  BY <1>1, <1>2, <1>3, <1>4 DEF Next

(* No request left over from before kills a program: when the timer takes  *)
(* the CPU, a quantum has passed since the kernel was last entered.        *)
THEOREM KillEarned == Spec => KillOnlyAfterQuantum
<1>1. IInv /\ [Next]_vars => [pc = "user" /\ active /\ ~active' => since + 1 >= Quantum]_vars
  <2>. SUFFICES ASSUME IInv, [Next]_vars, pc = "user", active, ~active'
                PROVE  since + 1 >= Quantum
    OBVIOUS
  <2>1. TimerIRQ
    BY OnlyTimerKills
  <2>. QED
    BY <2>1, TimerStep
<1>. QED
  BY <1>1, Invariance, PTL DEF Spec, KillOnlyAfterQuantum

(* What the scheduler keeps of the program is true and in time.            *)
THEOREM Sound == Spec => []SchedSound
BY TypeCorrect, ActiveCorrect, RunawayStopped, PTL DEF SchedSound

-----------------------------------------------------------------------------
(* While a sleeper's time is not over, the clock is as far from the target *)
(* as the sleeper from what it asked for: neither has wrapped.             *)
SleepSound ==
  pc \in {"wait", "hlt"} /\ ms * Hz < Wrap /\ target >= ms /\ slept < ms
    => ticks + ms = target + slept

LEMMA TicksForExact ==
  ASSUME NEW m \in 0 .. MaxSleep, m * Hz < Wrap
  PROVE  TicksFor(m) = m
<1>1. m * Hz \in Nat /\ (m * Hz) % Wrap = m * Hz
  OBVIOUS
<1>2. (m * Hz) \div Hz = m
  OBVIOUS
<1>. QED
  BY <1>1, <1>2 DEF TicksFor

LEMMA SleepBegins ==
  ASSUME TypeOK, NEW m \in 0 .. MaxSleep, WaitBegin(m)
  PROVE  SleepSound'
<1>1. ticks \in Nat /\ ticks < Wrap /\ ticks' = ticks /\ slept' = 0 /\ ms' = m /\ m \in Nat
  BY DEF TypeOK, Tick, WaitBegin
<1>2. SUFFICES ASSUME m * Hz < Wrap, target' >= m
               PROVE  ticks + m = target'
  BY <1>1 DEF SleepSound
<1>3. target' = (ticks + m) % Wrap
  BY <1>2, TicksForExact DEF WaitBegin
<1>4. CASE ticks + m < Wrap
  BY <1>1, <1>3, <1>4
<1>5. CASE ticks + m >= Wrap
  <2>1. (ticks + m) % Wrap < m
    <3>1. CASE m < Wrap
      <4>1. (ticks + m) % Wrap = ticks + m - Wrap
        BY <1>1, <1>5, <3>1
      <4>. QED
        BY <1>1, <4>1
    <3>2. CASE m >= Wrap
      BY <1>1, <3>2
    <3>. QED
      BY <1>1, <3>1, <3>2
  <2>. QED
    BY <1>1, <1>2, <1>3, <2>1
<1>. QED
  BY <1>1, <1>4, <1>5

LEMMA SleepStep ==
  ASSUME TypeOK, SleepSound, [Next]_vars
  PROVE  SleepSound'
<1>1. ASSUME NEW m \in 0 .. MaxSleep, WaitBegin(m) PROVE SleepSound'
  BY <1>1, SleepBegins
<1>2. CASE TimerIRQ
  <2>1. /\ ms' = ms /\ target' = target /\ ticks' = NextTick(ticks)
        /\ pc' \in {"wait", "hlt"} => pc \in {"wait", "hlt"}
        /\ pc \in {"wait", "hlt"} => slept' = IF slept + 1 < MaxSleep THEN slept + 1 ELSE MaxSleep
    BY <1>2 DEF TimerIRQ, KernelResume, Goto, UpTo
  <2>2. /\ ticks \in 0 .. Wrap - 1 /\ target \in 0 .. Wrap - 1
        /\ ms \in 0 .. MaxSleep /\ slept \in 0 .. MaxSleep
    BY DEF TypeOK, Tick
  <2>3. SUFFICES ASSUME pc \in {"wait", "hlt"}, ms * Hz < Wrap, target >= ms, slept' < ms
                 PROVE  ticks' + ms = target + slept'
    BY <2>1 DEF SleepSound
  <2>4. slept < ms /\ slept' = slept + 1
    BY <2>1, <2>2, <2>3
  <2>5. ticks + ms = target + slept
    BY <2>3, <2>4 DEF SleepSound
  <2>6. ticks' = ticks + 1
    BY <2>1, <2>2, <2>4, <2>5 DEF NextTick
  <2>. QED
    BY <2>2, <2>4, <2>5, <2>6
<1>3. CASE UNCHANGED vars
  BY <1>3 DEF vars, SleepSound
<1>4. ASSUME NEW kind \in {"exit", "other", "getchar", "sleep"}, Syscall(kind) PROVE SleepSound'
  BY <1>4 DEF Syscall, Goto, SleepSound
<1>5. CASE WaitHalts \/ KeyIRQ \/ KeyPress
  BY <1>5 DEF WaitHalts, KeyIRQ, KeyPress, Goto, timeVars, SleepSound
<1>6. CASE \/ ShellReads \/ EnterActive \/ EnterRead \/ EnterStart \/ EnterClear \/ EnterIret
           \/ YieldRead \/ YieldStart \/ YieldClear
           \/ SysExit \/ SysOther \/ SysGetchar \/ SysSleep \/ WaitEnds
  <2>1. pc' \notin {"wait", "hlt"}
    BY <1>6 DEF ShellReads, EnterActive, EnterRead, EnterStart, EnterClear, EnterIret, YieldRead,
                YieldStart, YieldClear, SysExit, SysOther, SysGetchar, SysSleep, WaitEnds,
                KernelResume, SysReturn, Goto
  <2>. QED
    BY <2>1 DEF SleepSound
<1>. QED
  BY <1>1, <1>2, <1>3, <1>4, <1>5, <1>6 DEF Next, Kernel, Program

(* No sleep is short that 32 bits can measure.                             *)
THEOREM SleepsLong == Spec => SleepNotShort
<1>1. Init => SleepSound
  BY DEF Init, SleepSound
<1>2. TypeOK /\ SleepSound /\ [Next]_vars => SleepSound'
  BY SleepStep
<1>. DEFINE Long == pc = "wait" /\ pc' = "user" => slept >= ms \/ ms * Hz >= Wrap \/ target < ms
<1>3. TypeOK /\ SleepSound /\ [Next]_vars => [Long]_vars
  <2>1. SUFFICES ASSUME TypeOK, SleepSound, Next, pc = "wait", pc' = "user", ms * Hz < Wrap, target >= ms
                 PROVE  slept >= ms
    BY DEF TypeOK, Tick
  <2>2. WaitOver
    BY <2>1 DEF Next, Kernel, Program, ShellReads, EnterActive, EnterRead, EnterStart, EnterClear, EnterIret,
                YieldRead, YieldStart, YieldClear, SysExit, SysOther, SysGetchar, SysSleep, WaitBegin,
                WaitHalts, WaitEnds, KernelResume, SysReturn, Syscall, TimerIRQ, KeyIRQ, KeyPress, Goto
  <2>. QED
    BY <2>1, <2>2 DEF WaitOver, SleepSound, TypeOK, Tick
<1>. QED
  BY <1>1, <1>2, <1>3, TypeCorrect, PTL DEF Spec, SleepNotShort
=============================================================================
