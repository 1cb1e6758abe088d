------------------------------ MODULE FileTree ------------------------------
(***************************************************************************)
(* What the FAT16 driver promises its callers: a tree of named files and   *)
(* directories, which a call changes in one step or not at all.  A delete  *)
(* or cd fails only when there is nothing to delete or enter; a write or   *)
(* mkdir may, for space is not mentioned, nor are clusters and slots.  The *)
(* one exception is a write over a name in use: the driver gives the old   *)
(* file up before it has the new one, and if the call then fails nothing   *)
(* is promised any more.  Nor is it when the disk has reported errors or   *)
(* the machine was stopped at a bad moment (Faults).                       *)
(***************************************************************************)
EXTENDS Naturals, Trees

CONSTANTS Names, UsersDat, Data, MaxLen,
          Nothing,  \* the contents of an empty file
          Faults    \* whether the disk may report errors or the machine stop

VARIABLES tree,     \* the entries of all directories the root leads to
          cwd,      \* the current directory
          call,     \* the call that runs, and how far it is
          broken    \* whether nothing is promised any more

vars == <<cwd, call, broken, tree>>

FileOf(dir, name, val, len) ==
  [dir |-> dir, name |-> name, sub |-> Root,
   val |-> IF len = 0 THEN Nothing ELSE val, len |-> len]
DirectoryOf(dir, name, id) ==
  [dir |-> dir, name |-> name, sub |-> id, val |-> Nothing, len |-> 0]

NoCall == [kind |-> "none", dir |-> Root, name |-> UsersDat, val |-> Nothing, len |-> 0,
           state |-> "none"]
CallOf(kind, dir, name, val, len) ==
  [kind |-> kind, dir |-> dir, name |-> name, val |-> val, len |-> len, state |-> "asked"]

Init == tree = {} /\ cwd = Root /\ call = NoCall /\ broken = FALSE

-----------------------------------------------------------------------------
Asked(kind) == call.kind = kind /\ call.state = "asked"
Return == call' = NoCall
Named == {e \in tree : e.dir = call.dir /\ e.name = call.name}
Others == tree \ Named

Ask(c) == call = NoCall /\ call' = c /\ UNCHANGED <<cwd, broken, tree>>

(* cd(".."): back to the directory that names the current one.             *)
Up == /\ call = NoCall /\ cwd # Root /\ UNCHANGED <<call, broken>>
      /\ \E e \in tree : e.sub = cwd /\ cwd' = e.dir
      /\ UNCHANGED tree

Enter == /\ Asked("cd") /\ Return /\ UNCHANGED broken
         /\ \E e \in Named : e.sub # Root /\ cwd' = e.sub
         /\ UNCHANGED tree

(* The name now stands for the new file, whole; a directory that it stood  *)
(* for is gone with all that is in it.                                     *)
Put == /\ call.kind = "write" /\ Return /\ UNCHANGED <<cwd, broken>>
       /\ tree' = Rooted(Others) \cup {FileOf(call.dir, call.name, call.val, call.len)}

GiveOld == /\ Asked("write") /\ call' = [call EXCEPT !.state = "given"]
           /\ UNCHANGED <<cwd, broken>>
           /\ Named # {} /\ tree' = Rooted(Others)

Make == /\ Asked("mkdir") /\ Return /\ UNCHANGED <<cwd, broken>>
        /\ Named = {}
        /\ \E id \in Ids \ {Root} : /\ \A e \in tree : e.sub # id
                                    /\ tree' = tree \cup {DirectoryOf(call.dir, call.name, id)}

Remove == /\ Asked("delete") /\ UNCHANGED <<cwd, broken>>
          /\ call' = [call EXCEPT !.state = "done"] \/ (Faults /\ Return)
          /\ Named # {} /\ tree' = Rooted(Others)

Done == call.state = "done" /\ Return /\ UNCHANGED <<cwd, broken, tree>>

Fail == /\ call.state = "asked" /\ Return /\ UNCHANGED <<cwd, broken, tree>>
        /\ call.kind = "delete" => Named = {} \/ Faults
        /\ call.kind = "cd" => (\A e \in Named : e.sub = Root) \/ Faults

Stop == /\ Faults /\ call.state # "given"
        /\ cwd' = Root /\ Return /\ UNCHANGED <<broken, tree>>

(* Without a fault this takes a write over a name in use that fails, or    *)
(* the write of the shell's file in the root when that name is a directory *)
(* and the current directory may be below it.                              *)
Break == /\ broken' = TRUE /\ tree' = {} /\ cwd' = Root /\ Return
         /\ \/ Faults
            \/ call.state = "given"
            \/ Asked("write") /\ call.dir # cwd /\ \E e \in Named : e.sub # Root

Calls == \/ \E name \in Names, val \in Data, len \in 0 .. MaxLen :
              Ask(CallOf("write", cwd, name, val, len))
         \/ \E val \in Data, len \in 1 .. MaxLen : Ask(CallOf("write", Root, UsersDat, val, len))
         \/ \E kind \in {"delete", "mkdir", "cd"}, name \in Names :
              Ask(CallOf(kind, cwd, name, Nothing, 0))
         \/ Up

Next == ~broken /\ (\/ Calls \/ Enter \/ Put \/ GiveOld \/ Make \/ Remove \/ Done
                    \/ Fail \/ Stop \/ Break)

Spec == Init /\ [][Next]_vars
=============================================================================
