---------------------------- MODULE Fat16Promise ----------------------------
(***************************************************************************)
(* The tree of files that the FAT16 driver's volume stands for, and that   *)
(* the driver, one sector write to a step, keeps what FileTree promises.   *)
(***************************************************************************)
EXTENDS Fat16Tree

INSTANCE Trees WITH Ids <- Dirs

(* What the slot s says of the directory d.                                *)
EntryOf(d, s) ==
  [dir |-> d, name |-> s.name, sub |-> IF s.dir THEN s.first ELSE Root,
   val |-> IF s.dir \/ s.len = 0 THEN Nothing ELSE data[s.first][1],
   len |-> IF s.dir THEN 0 ELSE s.len]

(* The slots that name something, without the one given up for a new file; *)
(* a block is listed in every block that leads to it, but no name leads to *)
(* any of these but the first.                                             *)
Shown(b, i) == dirs[b][i].name \in Names /\ ~GivenUp(b, i)
Listing(d, b) == {EntryOf(d, dirs[b][i]) : i \in {i \in SlotsOf(b) : Shown(b, i)}}
Listed == UNION {UNION {Listing(d, b) : b \in {b \in DirBlocks : Linked(d, b)}} : d \in DirBlocks}

Working == Undamaged /\ "blind" \notin damage
Stage == CASE OverwriteOpen -> "given"
           [] op.kind = "delete" /\ pc = "free" -> "done"
           [] OTHER -> "asked"
NoCall == [kind |-> "none", dir |-> Root, name |-> UsersDat, val |-> Nothing, len |-> 0,
           state |-> "none"]
Running == [kind |-> op.kind, dir |-> op.dir, name |-> op.name, val |-> op.val, len |-> op.len,
            state |-> Stage]

(* What the root leads to.  (T is there so that TLC works Listed out once.) *)
Tree == IF Working THEN UNION {Rooted(T) : T \in {Listed}} ELSE {}
Here == IF Working THEN cwd ELSE Root
Calling == IF Working /\ pc # "idle" THEN Running ELSE NoCall

Promise == INSTANCE FileTree WITH
  Ids <- Dirs, Faults <- DiskErrors \/ Crashes,
  tree <- Tree, cwd <- Here, call <- Calling, broken <- ~Working

(* Every call changes the tree of files at one step or not at all, and     *)
(* fails only for a reason FileTree names, whatever it does in between and *)
(* wherever it is interrupted.                                             *)
KeepsTree == Promise!Spec

-----------------------------------------------------------------------------
(* What a call knows when it comes to the change: it has written all that  *)
(* it was asked to, the directory it made is empty, and the entry to be    *)
(* deleted is in the directory it was sought in.                           *)
ReadyToChange ==
  /\ op.n <= op.len
  /\ Undamaged =>
       /\ pc = "entry" /\ op.kind = "write" => op.n = op.len
       /\ pc = "entry" /\ op.kind = "mkdir" =>
            /\ fat[op.first] = EOF
            /\ \A i \in SlotsOf(op.first) : dirs[op.first][i].name \notin Names
       /\ pc = "mark" => Linked(op.dir, op.blk)
=============================================================================
