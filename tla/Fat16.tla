------------------------------- MODULE Fat16 -------------------------------
(***************************************************************************)
(* The FAT16 driver of kernel/kernel/fat16.c, one disk sector write to a   *)
(* step.  The driver is single threaded, so what interleaves with an       *)
(* operation is not another operation but a power cut or reset (Crash) and *)
(* an error code from the disk: any read may fail, and a failing write may *)
(* or may not have reached the disk.                                       *)
(*                                                                         *)
(* A cluster holds one block (the image is built with one sector to a      *)
(* cluster), which is read either as directory slots or as file data; both *)
(* views are kept and the one that was not written last means nothing.     *)
(* Only the first copy of the FAT is kept: the others are never read.      *)
(* Time, date, volume labels and long names never appear on the disk: the  *)
(* image is formatted empty and the driver writes none.                    *)
(***************************************************************************)
EXTENDS Naturals, Sequences, FiniteSets

CONSTANTS LastCluster,  \* fs.total_clusters + 1: clusters are 2..LastCluster
          RootSlots,    \* entries of the root directory
          BlockSlots,   \* entries of a directory cluster
          Names,        \* names that can be given to a file or directory
          UsersDat,     \* "USERS.DAT", which the shell writes in the root
          Data,         \* what a call to write a file may be asked to write
          MaxLen,       \* BOUND on the clusters a file takes
          DiskErrors,   \* whether the disk may report errors
          Crashes       \* whether the machine may stop at any step

Free == 0
EOF == 65528            \* FAT16_EOF
Cluster == 2 .. LastCluster
Root == 0               \* the cluster number that stands for the root

ASSUME ClusterAssumption == LastCluster \in Nat /\ 2 <= LastCluster /\ LastCluster < EOF
ASSUME SlotsAssumption == /\ RootSlots \in Nat /\ RootSlots >= 1
                          /\ BlockSlots \in Nat /\ BlockSlots >= 2
ASSUME LenAssumption == MaxLen \in Nat
ASSUME FaultAssumption == DiskErrors \in BOOLEAN /\ Crashes \in BOOLEAN

(* The first byte of an entry's name also says that the entry ends the     *)
(* directory (0x00) or was deleted (0xE5); "." and ".." can be the names   *)
(* of entries but fat16_build_name never makes them from a caller's name.  *)
Marks == {"end", "deleted", ".", ".."}

ASSUME NamesAssumption == Names \cap Marks = {} /\ UsersDat \in Names

Dirs == {Root} \cup Cluster
SlotsOf(d) == 1 .. (IF d = Root THEN RootSlots ELSE BlockSlots)
Slot == [name: Names \cup Marks, dir: BOOLEAN, hidden: BOOLEAN,
         first: Dirs, len: 0 .. MaxLen]
Mark(m) == [name |-> m, dir |-> FALSE, hidden |-> FALSE, first |-> 0, len |-> 0]
Nothing == <<>>
DotSlot(name, cl) == [Mark(name) EXCEPT !.dir = TRUE, !.first = cl]
EmptyBlock(d) == [i \in SlotsOf(d) |-> Mark("end")]

VARIABLES fat,         \* the table: what each cluster is followed by
          dirs,        \* blocks read as directory slots; dirs[Root] is the root
          data,        \* blocks read as file data: whose, and which part
          cwd,         \* fs.cur_cluster
          nextHidden,  \* fat16_next_attr has FAT16_ATTR_HIDDEN
          pc,          \* the step of the running call, or "idle"
          op,          \* its locals
          \* History, which no guard reads:
          trail,       \* the directories entered to reach cwd, root excluded
          dirSet,      \* clusters that hold directory slots
          damage       \* what went wrong so far that a later call may trip on

disk == <<fat, dirs, data>>
session == <<cwd, nextHidden, trail>>
vars == <<fat, dirs, data, cwd, nextHidden, pc, op, trail, dirSet, damage>>

LowestOf(S) == CHOOSE i \in S : \A j \in S : i <= j
(* A mutant: takes every cluster for free that does not end a chain.       *)
FreeClustersNotLast == {c \in Cluster : fat[c] # EOF}
FreeClusters == {c \in Cluster : fat[c] = Free}

-----------------------------------------------------------------------------
(* Disk accesses.  Any read may fail, and a write is "ok", "lost" (an      *)
(* error, nothing written) or "late" (an error although the sector was     *)
(* written).  A driver routine that reads a sector to change it and fails  *)
(* on the read is a "lost" write.                                          *)

ReadError == DiskErrors
Outcome == IF DiskErrors THEN {"ok", "lost", "late"} ELSE {"ok"}

SetFat(c, v, r) == fat' = IF r = "lost" THEN fat ELSE [fat EXCEPT ![c] = v]
SetSlot(b, i, e, r) == dirs' = IF r = "lost" THEN dirs ELSE [dirs EXCEPT ![b][i] = e]

(* The locals of a call: what it was asked (kind, dir, name, val, len), the *)
(* block it scans (at), what it found and the slot it will fill (found,    *)
(* blk, idx), the chain it replaces (old) and the rest of the one it frees *)
(* (cur), and the chain it builds (first, prev, cl, n clusters so far).    *)
NoOp == [kind |-> "none", dir |-> Root, name |-> "end", val |-> Nothing, len |-> 0,
         at |-> Root, found |-> "none", blk |-> Root, idx |-> 1, old |-> 0, cur |-> 0,
         first |-> 0, prev |-> 0, cl |-> 0, n |-> 0, extended |-> FALSE, failed |-> FALSE]

Goto(step, o) == pc' = step /\ op' = o
Return == Goto("idle", NoOp)

(* The entry being overwritten still names the chain that was given up.    *)
OverwriteOpen == /\ op.kind = "write" /\ op.found = "hit" /\ op.old \in Cluster
                 /\ pc = "free" /\ ~op.failed => op.cur # op.old

(* fat16_write_file_in or fat16_mkdir returns -1.                          *)
Abandon(causes) ==
  /\ Return
  /\ damage' = damage \cup causes
                \cup (IF OverwriteOpen THEN {"overwrite"} ELSE {})
                \cup (IF op.kind = "write" /\ nextHidden' THEN {"attr"} ELSE {})

Init ==
  /\ fat = [c \in Cluster |-> Free]
  /\ dirs = [d \in Dirs |-> EmptyBlock(d)]
  /\ data = [c \in Cluster |-> Nothing]
  /\ cwd = Root /\ nextHidden = FALSE
  /\ pc = "idle" /\ op = NoOp
  /\ trail = <<>> /\ dirSet = {} /\ damage = {}

-----------------------------------------------------------------------------
(* The calls.  Each first looks its name up (fat16_dir_find).              *)

Call(o) == /\ pc = "idle"
           /\ Goto("find", [o EXCEPT !.at = o.dir])
           /\ UNCHANGED <<disk, cwd, trail, dirSet, damage>>

(* fat16_write_file.                                                       *)
WriteFile(name, val, len) ==
  /\ Call([NoOp EXCEPT !.kind = "write", !.dir = cwd, !.name = name,
                        !.val = val, !.len = len])
  /\ UNCHANGED nextHidden

(* The shell's register: fat16_set_write_attr, then fat16_write_file_in on *)
(* the root.                                                               *)
WriteUsers(val, len) ==
  /\ Call([NoOp EXCEPT !.kind = "write", !.name = UsersDat, !.val = val, !.len = len])
  /\ nextHidden' = TRUE

DeleteFile(name) ==
  /\ Call([NoOp EXCEPT !.kind = "delete", !.dir = cwd, !.name = name])
  /\ UNCHANGED nextHidden

Mkdir(name) ==
  /\ Call([NoOp EXCEPT !.kind = "mkdir", !.dir = cwd, !.name = name])
  /\ UNCHANGED nextHidden

Cd(name) ==
  /\ Call([NoOp EXCEPT !.kind = "cd", !.dir = cwd, !.name = name])
  /\ UNCHANGED nextHidden

(* fat16_cd(".."): the second slot of a directory says what its parent is. *)
CdUp ==
  /\ pc = "idle" /\ cwd # Root
  /\ \/
        /\ cwd' = dirs[cwd][2].first
        /\ trail' = SubSeq(trail, 1, Len(trail) - 1)
     \/ ReadError /\ UNCHANGED <<cwd, trail>>
  /\ UNCHANGED <<disk, nextHidden, pc, op, dirSet, damage>>

-----------------------------------------------------------------------------
(* fat16_dir_find, one block of the directory to a step.                   *)

(* A mutant: a deleted slot ends the search like the end mark.             *)
StopsAtDeleted == {i \in SlotsOf(op.at) :
                     dirs[op.at][i].name \in {"end", "deleted", op.name}}
Stops == {i \in SlotsOf(op.at) : dirs[op.at][i].name \in {"end", op.name}}
FirstStop == LowestOf(Stops)
Found == dirs[op.at][FirstStop]
ChainGoesOn(c) == c # Root /\ fat[c] \in Cluster

(* A match: cd enters it, write will replace it, delete will mark it, and  *)
(* mkdir gives up.                                                         *)
FindHit ==
  /\ pc = "find" /\ Stops # {} /\ Found.name = op.name
  /\ LET hit == [op EXCEPT !.found = "hit", !.blk = op.at, !.idx = FirstStop,
                            !.old = Found.first, !.cur = Found.first]
     IN  CASE op.kind = "write"  -> Goto("free", hit)
           [] op.kind = "delete" -> Goto("mark", hit)
           [] OTHER              -> Return
  /\ IF op.kind = "cd" /\ Found.dir
       THEN cwd' = Found.first /\ trail' = Append(trail, Found.first)
       ELSE UNCHANGED <<cwd, trail>>
  /\ damage' = IF op.kind = "write" /\ \E i \in 1 .. Len(trail) : trail[i] = Found.first
               THEN damage \cup {"uprooted"} ELSE damage
  /\ UNCHANGED <<disk, nextHidden, dirSet>>

(* The end mark: the name is not there, and this slot is free for it.      *)
FindEnd ==
  /\ pc = "find" /\ Stops # {} /\ Found.name # op.name
  /\ IF op.kind \in {"write", "mkdir"}
       THEN Goto("alloc", [op EXCEPT !.found = "end", !.blk = op.at, !.idx = FirstStop])
       ELSE Return
  /\ UNCHANGED <<disk, session, dirSet, damage>>

FindOn ==
  /\ pc = "find" /\ Stops = {} /\ ChainGoesOn(op.at)
  /\ Goto("find", [op EXCEPT !.at = fat[op.at]])
  /\ UNCHANGED <<disk, session, dirSet, damage>>

(* No end mark in any block, or a read error: the result is -1 for both,   *)
(* and a caller that makes a file takes it for a full directory.           *)
FindNone ==
  /\ pc = "find"
  /\ \/ Stops = {} /\ ~ChainGoesOn(op.at) /\ UNCHANGED damage
     \/ ReadError /\ damage' = damage \cup {"blind"}
  /\ IF op.kind \in {"write", "mkdir"}
       THEN Goto("slot", [op EXCEPT !.at = op.dir])
       ELSE Return
  /\ UNCHANGED <<disk, session, dirSet>>

(* fat16_dir_first_free, one block to a step.                              *)
Vacant == {i \in SlotsOf(op.at) : dirs[op.at][i].name \in {"end", "deleted"}}
(* Mutants: the index within the block is lost; it is one too large.       *)
VacantSlotAtStart == 1
VacantSlotTooFar == LowestOf(Vacant) + 1
VacantSlot == LowestOf(Vacant)

SlotHit ==
  /\ pc = "slot" /\ Vacant # {}
  /\ Goto("alloc", [op EXCEPT !.blk = op.at, !.idx = VacantSlot])
  /\ UNCHANGED <<disk, session, dirSet, damage>>

SlotOn ==
  /\ pc = "slot" /\ Vacant = {} /\ ChainGoesOn(op.at)
  /\ Goto("slot", [op EXCEPT !.at = fat[op.at]])
  /\ UNCHANGED <<disk, session, dirSet, damage>>

(* Full (or a read error): a directory other than the root grows, once.    *)
SlotNone ==
  /\ pc = "slot"
  /\ \/ Vacant = {} /\ ~ChainGoesOn(op.at)
     \/ ReadError
  /\ UNCHANGED <<disk, session, dirSet>>
  /\ IF op.dir # Root /\ ~op.extended
       THEN Goto("extend", [op EXCEPT !.at = op.dir]) /\ UNCHANGED damage
       ELSE Abandon({})

-----------------------------------------------------------------------------
(* fat16_dir_extend: walk to the last cluster, link a free one behind it,  *)
(* then end the chain there, then clear it.                                *)

ExtendWalk ==
  /\ pc = "extend" /\ fat[op.at] \in Cluster
  /\ Goto("extend", [op EXCEPT !.at = fat[op.at]])
  /\ UNCHANGED <<disk, session, dirSet, damage>>

ExtendLink ==
  /\ pc = "extend" /\ fat[op.at] = EOF /\ FreeClusters # {}
  /\ UNCHANGED <<dirs, data, session, dirSet>>
  /\ LET nc == LowestOf(FreeClusters) IN
     \E r \in Outcome :
       /\ SetFat(op.at, nc, r)
       /\ CASE r = "ok"   -> Goto("xeof", [op EXCEPT !.cl = nc]) /\ UNCHANGED damage
            [] r = "lost" -> Abandon({})
            [] r = "late" -> Abandon({"extend"})

ExtendFails ==
  /\ pc = "extend"
  /\ \/ fat[op.at] \notin Cluster /\ (fat[op.at] = EOF => FreeClusters = {})
     \/ ReadError
  /\ UNCHANGED <<disk, session, dirSet>>
  /\ Abandon({})

ExtendSeal ==
  /\ pc = "xeof"
  /\ UNCHANGED <<dirs, data, session, dirSet>>
  /\ \E r \in Outcome :
       /\ SetFat(op.cl, EOF, r)
       /\ IF r = "ok" THEN Goto("xzero", op) /\ UNCHANGED damage
          ELSE Abandon({"extend"})

(* The result of this write is not looked at.                              *)
ExtendZero ==
  /\ pc = "xzero"
  /\ \E r \in Outcome :
       /\ dirs' = IF r = "lost" THEN dirs ELSE [dirs EXCEPT ![op.cl] = EmptyBlock(op.cl)]
       /\ damage' = IF r = "lost" THEN damage \cup {"extend"} ELSE damage
  /\ dirSet' = dirSet \cup {op.cl}
  /\ Goto("slot", [op EXCEPT !.at = op.dir, !.cl = 0, !.extended = TRUE])
  /\ UNCHANGED <<fat, data, session>>

-----------------------------------------------------------------------------
(* fat16_free_clusters(op.cur), one cluster to a step: read its successor, *)
(* free it (the result is not looked at), go on to the successor.          *)

(* A mutant: the walk does not go on.                                      *)
SuccessorIsItself == op.cur
Successor == IF fat[op.cur] \in Cluster THEN fat[op.cur] ELSE 0

FreeOne ==
  /\ pc = "free" /\ op.cur \in Cluster
  /\ \E r \in Outcome :
       /\ SetFat(op.cur, Free, r)
       /\ dirSet' = IF r = "lost" THEN dirSet ELSE dirSet \ {op.cur}
       /\ damage' = damage
            \cup (IF r = "lost" THEN {"stalelink"} ELSE {})
            \cup (IF op.cur \in dirSet
                      /\ \E i \in SlotsOf(op.cur) : dirs[op.cur][i].name \in Names
                    THEN {"orphan"} ELSE {})
  /\ Goto("free", [op EXCEPT !.cur = Successor])
  /\ UNCHANGED <<dirs, data, session>>

FreeReadError ==
  /\ pc = "free" /\ op.cur \in Cluster /\ ReadError
  /\ Goto("free", [op EXCEPT !.cur = 0])
  /\ UNCHANGED <<disk, session, dirSet, damage>>

(* The chain is freed: a delete is over, a write whose new chain was given *)
(* up fails, and one that freed the old chain goes on to build the new one.*)
FreeDone ==
  /\ pc = "free" /\ op.cur = 0
  /\ UNCHANGED <<disk, session, dirSet>>
  /\ CASE op.kind = "delete"              -> Return /\ UNCHANGED damage
       [] op.kind = "write" /\ op.failed -> Abandon({})
       [] OTHER                          -> Goto("alloc", op) /\ UNCHANGED damage

-----------------------------------------------------------------------------
(* The loop of fat16_write_file_in: take the lowest free cluster, link it  *)
(* behind the previous one, write its data.  Neither FAT write's result is *)
(* looked at.                                                              *)

MoreToWrite == op.kind = "write" /\ op.n < op.len

AllocCluster ==
  /\ pc = "alloc" /\ (MoreToWrite \/ op.kind = "mkdir") /\ FreeClusters # {}
  /\ LET cl == LowestOf(FreeClusters)
         o  == [op EXCEPT !.cl = cl, !.first = IF op.n = 0 THEN cl ELSE op.first]
     IN  /\ \E r \in Outcome :
              /\ SetFat(cl, EOF, r)
              /\ damage' = IF r = "lost" THEN damage \cup {"lostset"} ELSE damage
         /\ CASE op.kind = "mkdir"                 -> Goto("mkblock", o)
              [] op.kind = "write" /\ op.prev # 0 -> Goto("link", o)
              [] OTHER                            -> Goto("data", o)
  /\ UNCHANGED <<dirs, data, session, dirSet>>

(* The chain built so far is freed before the call fails.  A mutant: it is *)
(* not.                                                                    *)
GiveUpAtOnce == Goto("free", [op EXCEPT !.cur = 0, !.failed = TRUE])
GiveUp == Goto("free", [op EXCEPT !.cur = op.first, !.failed = TRUE])

(* No free cluster, which fat16_find_free_cluster also answers on an error.*)
AllocFails ==
  /\ pc = "alloc" /\ (MoreToWrite \/ op.kind = "mkdir")
  /\ \/ FreeClusters = {}
     \/ ReadError
  /\ IF op.kind = "mkdir" THEN Return ELSE GiveUp
  /\ UNCHANGED <<disk, session, dirSet, damage>>

LinkCluster ==
  /\ pc = "link"
  /\ \E r \in Outcome :
       /\ SetFat(op.prev, op.cl, r)
       /\ damage' = IF r = "lost" THEN damage \cup {"lostset"} ELSE damage
  /\ Goto("data", op)
  /\ UNCHANGED <<dirs, data, session, dirSet>>

(* A mutant: an error of the data write goes unnoticed.                    *)
BlockFailedUnseen(r) == FALSE
BlockFailed(r) == r # "ok"

WriteBlock ==
  /\ pc = "data"
  /\ \E r \in Outcome :
       /\ data' = IF r = "lost" THEN data ELSE [data EXCEPT ![op.cl] = <<op.val, op.n>>]
       /\ IF BlockFailed(r)
            THEN GiveUp
            ELSE Goto("alloc", [op EXCEPT !.prev = op.cl, !.cl = 0, !.n = op.n + 1])
  /\ UNCHANGED <<fat, dirs, session, dirSet, damage>>

(* After the loop: the last cluster is marked again as the last.           *)
Seal ==
  /\ pc = "alloc" /\ op.kind = "write" /\ op.n >= op.len
  /\ IF op.prev = 0 THEN UNCHANGED fat
     ELSE \E r \in Outcome : SetFat(op.prev, EOF, r)
  /\ Goto("entry", op)
  /\ UNCHANGED <<dirs, data, session, dirSet, damage>>

(* fat16_mkdir: the dot entries, a write whose result is not looked at.    *)
(* A mutant: every directory says that its parent is the root.             *)
ParentIsRoot == Root
Parent == op.dir

MkdirBlock ==
  /\ pc = "mkblock"
  /\ \E r \in Outcome :
       /\ dirs' = IF r = "lost" THEN dirs
                  ELSE [dirs EXCEPT ![op.cl] = [EmptyBlock(op.cl) EXCEPT
                           ![1] = DotSlot(".", op.cl), ![2] = DotSlot("..", Parent)]]
       /\ damage' = IF r = "lost" THEN damage \cup {"mkblock"} ELSE damage
  /\ dirSet' = dirSet \cup {op.cl}
  /\ Goto("entry", op)
  /\ UNCHANGED <<fat, data, session>>

(* fat16_dir_set_entry, the last write of fat16_write_file_in and          *)
(* fat16_mkdir.  A file takes the attribute set for it and resets it.      *)
NewEntry == [name |-> op.name, dir |-> op.kind = "mkdir",
             hidden |-> op.kind = "write" /\ nextHidden,
             first |-> op.first, len |-> op.n]

HiddenAfterEntry == nextHidden /\ op.kind = "mkdir"

SetEntry ==
  /\ pc = "entry"
  /\ nextHidden' = HiddenAfterEntry
  /\ UNCHANGED <<fat, data, cwd, trail, dirSet>>
  /\ \E r \in Outcome :
       /\ SetSlot(op.blk, op.idx, NewEntry, r)
       /\ IF r = "lost" THEN Abandon({}) ELSE Return /\ UNCHANGED damage

(* fat16_dir_mark_deleted; on an error the clusters are not freed.         *)
MarkDeleted ==
  /\ pc = "mark"
  /\ \E r \in Outcome :
       /\ SetSlot(op.blk, op.idx, Mark("deleted"), r)
       /\ IF r = "ok" THEN Goto("free", op) ELSE Return
  /\ UNCHANGED <<fat, data, session, dirSet, damage>>

-----------------------------------------------------------------------------
(* Power is lost or the machine resets at any step; it starts again with   *)
(* fat16_init.  What is on the disk stays.                                 *)
Crash ==
  /\ Crashes
  /\ cwd' = Root /\ trail' = <<>> /\ nextHidden' = FALSE
  /\ Return
  /\ damage' = damage \cup (IF OverwriteOpen THEN {"overwrite"} ELSE {})
                      \cup (IF pc \in {"xeof", "xzero"} THEN {"extend"} ELSE {})
  /\ UNCHANGED <<disk, dirSet>>

Calls == \/ \E name \in Names, val \in Data, len \in 0 .. MaxLen : WriteFile(name, val, len)
         \/ \E val \in Data, len \in 1 .. MaxLen : WriteUsers(val, len)
         \/ \E name \in Names : DeleteFile(name) \/ Mkdir(name) \/ Cd(name)
         \/ CdUp

Steps == \/ FindHit \/ FindEnd \/ FindOn \/ FindNone
         \/ SlotHit \/ SlotOn \/ SlotNone
         \/ ExtendWalk \/ ExtendLink \/ ExtendFails \/ ExtendSeal \/ ExtendZero
         \/ FreeOne \/ FreeReadError \/ FreeDone
         \/ AllocCluster \/ AllocFails \/ LinkCluster \/ WriteBlock \/ Seal
         \/ MkdirBlock \/ SetEntry \/ MarkDeleted

Next == Calls \/ Steps \/ Crash

Spec == Init /\ [][Next]_vars
(* A call once begun is run by the one CPU until it returns.               *)
FairSpec == Spec /\ WF_vars(Steps)

-----------------------------------------------------------------------------
Kinds == {"write", "delete", "mkdir", "cd"}
BusySteps == {"find", "slot", "extend", "xeof", "xzero", "free", "alloc", "link",
              "data", "mkblock", "entry", "mark"}
Causes == {"overwrite", "extend", "lostset", "stalelink", "mkblock", "uprooted",
           "orphan", "blind", "attr"}

(* Every table value is a cluster, free or the end mark, every slot names  *)
(* a cluster of this volume, and a running call's cursors stay on it.      *)
TypeOK ==
  /\ fat \in [Cluster -> {Free, EOF} \cup Cluster]
  /\ DOMAIN dirs = Dirs /\ \A d \in Dirs : dirs[d] \in [SlotsOf(d) -> Slot]
  /\ data \in [Cluster -> {Nothing} \cup (Data \X (0 .. MaxLen))]
  /\ cwd \in Dirs /\ nextHidden \in BOOLEAN
  /\ pc \in {"idle"} \cup BusySteps
  /\ op \in [kind: {"none"} \cup Kinds, dir: Dirs, name: Names \cup Marks,
             val: {Nothing} \cup Data, len: 0 .. MaxLen, at: Dirs,
             found: {"none", "hit", "end"}, blk: Dirs, idx: Nat, old: Dirs, cur: Dirs,
             first: Dirs, prev: Dirs, cl: Dirs, n: 0 .. MaxLen,
             extended: BOOLEAN, failed: BOOLEAN]
  /\ op.idx \in SlotsOf(op.blk)
  /\ trail \in Seq(Dirs) /\ dirSet \subseteq Cluster /\ damage \subseteq Causes

(* Nothing has happened that lets a later call find a chain broken.        *)
Undamaged == damage \cap {"overwrite", "extend", "lostset", "stalelink",
                          "mkblock", "uprooted"} = {}

(* The slots in use, but for the one whose chain the running write has     *)
(* given up and not yet replaced.                                          *)
Entries == {e \in UNION {{b} \X SlotsOf(b) : b \in {Root} \cup dirSet} :
              /\ dirs[e[1]][e[2]].name \in Names
              /\ dirs[e[1]][e[2]].first # 0
              /\ ~(op.kind = "write" /\ op.found = "hit" /\ e = <<op.blk, op.idx>>)}
HeadOf(e) == dirs[e[1]][e[2]].first

LinksSound ==
  \A c \in Cluster : fat[c] \in Cluster =>
     /\ fat[fat[c]] = Free => pc = "xeof" /\ fat[c] = op.cl
     /\ \A d \in Cluster : fat[d] = fat[c] => d = c
HeadsSound ==
  \A e \in Entries :
     /\ fat[HeadOf(e)] # Free
     /\ \A c \in Cluster : fat[c] # HeadOf(e)
     /\ \A f \in Entries : HeadOf(f) = HeadOf(e) => f = e
     /\ dirs[e[1]][e[2]].dir <=> HeadOf(e) \in dirSet
DirsSound ==
  /\ \A c \in dirSet : fat[c] # Free
  /\ \A c \in Cluster : fat[c] \in Cluster =>
       \/ c \in dirSet <=> fat[c] \in dirSet
       \/ pc \in {"xeof", "xzero"} /\ fat[c] = op.cl
  /\ cwd # Root => cwd \in dirSet

(* No two chains of the table meet, no chain runs into free clusters,      *)
(* every name owns the head of a chain of its own, and a directory's chain *)
(* holds directory blocks and a file's none: at every step of every call   *)
(* and after every crash, unless an earlier call left damage behind.       *)
FatSound == Undamaged => LinksSound /\ HeadsSound /\ DirsSound
=============================================================================
