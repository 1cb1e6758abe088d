----------------------------- MODULE Fat16Tree -----------------------------
(***************************************************************************)
(* What the FAT16 driver keeps of the tree of directories, at every step   *)
(* of every call.  The blocks of a directory, and what can be reached from *)
(* the root, are what every set closed under the links contains, so that   *)
(* nothing is computed by following a chain.                               *)
(***************************************************************************)
EXTENDS Fat16Files

(* Block c is b or comes after it in the chain of a directory.             *)
Follows(S) == \A c \in S \cap dirSet : fat[c] \in dirSet => fat[c] \in S
Linked(b, c) == \A S \in SUBSET Dirs : b \in S /\ Follows(S) => c \in S

(* A directory never holds two entries of one name: the look-up before a   *)
(* write or mkdir and the slot it then fills stay one decision although    *)
(* the directory may grow in between.                                      *)
NamesUnique ==
  Undamaged /\ "blind" \notin damage =>
    \A d, b, c \in DirBlocks : Linked(d, b) /\ Linked(d, c) =>
      \A i \in SlotsOf(b), j \in SlotsOf(c) :
        dirs[b][i].name \in Names /\ dirs[c][j].name = dirs[b][i].name => b = c /\ i = j

(* Both of what an entry says to those who look a name up: whose it is and *)
(* who may see it.                                                         *)
EntriesSound == NamesUnique /\ OnlyUsersHidden

(* What the links of the table and the entries in use lead to from R.      *)
Grown(S) ==
  \A c \in S : /\ c \in Cluster /\ fat[c] \in Cluster => fat[c] \in S
               /\ c \in DirBlocks => \A i \in SlotsOf(c) : Live(c, i) => dirs[c][i].first \in S
Reached(R, c) == \A S \in SUBSET Dirs : R \subseteq S /\ Grown(S) => c \in S

(* The ".." slots lead back through exactly the directories cd entered,    *)
(* and all of them are still in the tree.                                  *)
TrailSound ==
  Undamaged =>
    /\ cwd = Above(Len(trail) + 1)
    /\ \A i \in 1 .. Len(trail) : /\ dirs[trail[i]][2].first = Above(i)
                                  /\ Reached({Root}, trail[i])

(* Between calls, with a disk that works and no reset, every cluster in    *)
(* use belongs to something reachable from the root, unless a directory    *)
(* was deleted with entries in it: calls that fail for want of space give  *)
(* back what they took.                                                    *)
Reliable == ~DiskErrors /\ ~Crashes
NoLeak ==
  Reliable /\ damage = {} /\ pc = "idle" =>
    \A c \in Cluster : fat[c] # Free => Reached({Root}, c)

-----------------------------------------------------------------------------
(* What keeps it so.  The block that a call searches, and the one that it  *)
(* will change, are linked from the directory it is about; so are those    *)
(* that name the directories entered.                                      *)
Placed ==
  /\ pc \in Searching => Linked(op.dir, op.at)
  /\ op.kind \in {"write", "mkdir"} /\ (pc \in Building \/ (pc = "free" /\ ~op.failed)) =>
       Linked(op.dir, op.blk)
Led == \A i \in 1 .. Len(trail) :
         \E b \in DirBlocks : \E j \in SlotsOf(b) : Linked(Above(i), b) /\ Heads(trail[i], b, j)
WalkSound == Undamaged => Placed /\ Led

(* No name is twice in blocks of which one comes after the other, and what *)
(* comes after an end mark is one.                                         *)
Unique ==
  \A b, c \in DirBlocks : Linked(b, c) =>
    \A i \in SlotsOf(b), j \in SlotsOf(c) :
      dirs[b][i].name \in Names /\ dirs[c][j].name = dirs[b][i].name => b = c /\ i = j
Ended ==
  \A b, c \in DirBlocks : Linked(b, c) =>
    \A i \in SlotsOf(b), j \in SlotsOf(c) :
      dirs[b][i].name = "end" /\ (b = c => i < j) => dirs[c][j].name = "end"

(* What a search has passed, and what it says of the slot it ended at.     *)
Lacks(b, name) == \A i \in SlotsOf(b) : dirs[b][i].name # name
Before(b, c) == Linked(b, c) /\ b # c
Absent == \A b \in DirBlocks : Linked(op.dir, b) => Lacks(b, op.name)
NoEndBefore(c) == \A b \in DirBlocks : Before(b, c) => Lacks(b, "end")
Sought ==
  /\ pc \in {"find", "slot"} => NoEndBefore(op.at)
  /\ pc = "find" => \A b \in DirBlocks : Before(b, op.at) => Lacks(b, op.name)
  /\ pc \in Searching \ {"find"} => Absent
  /\ pc \in Building /\ op.found # "hit" =>
       /\ Absent /\ NoEndBefore(op.blk)
       /\ \A j \in SlotsOf(op.blk) : j < op.idx => dirs[op.blk][j].name # "end"
NamesSound == Undamaged /\ "blind" \notin damage => Unique /\ Ended /\ Sought

(* Every cluster in use can be reached from the root or from what a call   *)
(* is freeing or building.                                                 *)
Held == {Root} \cup (IF pc = "free" THEN {op.cur} ELSE {})
               \cup (IF pc \in Building THEN {op.first} ELSE {})
               \cup (IF pc = "link" THEN {op.cl} ELSE {})
Covered == Reliable /\ damage = {} => \A c \in Cluster : fat[c] # Free => Reached(Held, c)
=============================================================================
