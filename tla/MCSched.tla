------------------------------- MODULE MCSched -------------------------------
(***************************************************************************)
(* Sched with small numbers, and its liveness.                             *)
(***************************************************************************)
EXTENDS Sched

(* A program that loops without calling the kernel does not keep the CPU.  *)
ProgramLeaves == pc = "user" ~> pc # "user"

(* As long as no program had to be killed, every key press is taken from   *)
(* the controller, whatever the program and the kernel are doing.          *)
KeysHeardUntilKill == latched /\ ~killed ~> ~latched \/ killed

(* "hand off to interactive shell (never returns)", main.c:105: the shell  *)
(* hears the keyboard.  Not so after a preemption: kernel_resume, called   *)
(* in the timer's interrupt gate, puts back a clear interrupt flag, and    *)
(* the shell waits for a character that no interrupt will bring.           *)
InteractiveShell == pc = "shell" /\ latched ~> ~latched
=============================================================================
