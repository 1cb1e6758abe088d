---------------------------- MODULE Fat16Volume ----------------------------
(***************************************************************************)
(* What holds of the FAT16 driver's volume at every step of every call,    *)
(* stated without following a chain: which chain of directory blocks a     *)
(* block belongs to is said by an assignment, own, from each block to the  *)
(* head of its chain.  The driver keeps no such thing; the volume is sound *)
(* if there is one that fits.                                              *)
(***************************************************************************)
EXTENDS Fat16

Owners == [Dirs -> Dirs]

DirBlocks == {Root} \cup dirSet
Unpointed(c) == \A d \in Cluster : fat[d] # c

(* A slot that names a chain; the one whose chain the running write gave   *)
(* up; the others.                                                         *)
Used(b, i) == /\ b \in DirBlocks /\ i \in SlotsOf(b)
              /\ dirs[b][i].name \in Names /\ dirs[b][i].first # 0
Vacated(b, i) == op.kind = "write" /\ op.found = "hit" /\ b = op.blk /\ i = op.idx
Live(b, i) == Used(b, i) /\ ~Vacated(b, i)

Heads(c, b, i) == Live(b, i) /\ dirs[b][i].first = c
Unnamed(c) == \A b \in Dirs : \A i \in SlotsOf(b) : ~Heads(c, b, i)

(* The entry s, in block home, names the head of a chain; a directory's    *)
(* ".." slot names the directory that holds the entry.                     *)
NamesChain(s, home, own) ==
  /\ fat[s.first] # Free /\ Unpointed(s.first)
  /\ s.dir <=> s.first \in dirSet
  /\ s.first \in dirSet => /\ own[s.first] = s.first
                           /\ dirs[s.first][2].name = ".." /\ dirs[s.first][2].first = own[home]
Named(own) ==
  \A b \in Dirs : \A i \in SlotsOf(b) : Live(b, i) =>
     /\ NamesChain(dirs[b][i], b, own)
     /\ \A c \in Dirs : \A j \in SlotsOf(c) :
          Live(c, j) /\ dirs[c][j].first = dirs[b][i].first => b = c /\ i = j

Extending(c) == pc \in {"xeof", "xzero"} /\ fat[c] = op.cl
Chained(own) ==
  /\ own[Root] = Root
  /\ \A c \in Cluster : fat[c] \in Cluster =>
       /\ fat[fat[c]] = Free => pc = "xeof" /\ fat[c] = op.cl
       /\ \A d \in Cluster : fat[d] = fat[c] => d = c
       /\ (c \in dirSet <=> fat[c] \in dirSet) \/ Extending(c)
  /\ \A c \in dirSet : /\ fat[c] # Free /\ own[c] # Root
                       /\ fat[c] \in dirSet => own[fat[c]] = own[c]
Headed == \A b \in DirBlocks : \A i \in SlotsOf(b) :
            dirs[b][i].name \in Names /\ dirs[b][i].dir => dirs[b][i].first # 0

(* The directories entered are distinct, and each is named in the one above. *)
Above(i) == IF i = 1 THEN Root ELSE trail[i - 1]
NamedAbove(i, own) == \E b \in Dirs : \E j \in SlotsOf(b) : Heads(trail[i], b, j) /\ own[b] = Above(i)
Entered(own) ==
  /\ cwd = Above(Len(trail) + 1)
  /\ \A i, j \in 1 .. Len(trail) : trail[i] = trail[j] => i = j
  /\ \A i \in 1 .. Len(trail) : trail[i] \in dirSet /\ NamedAbove(i, own)

-----------------------------------------------------------------------------
(* What the steps of a call know besides.                                  *)
Alone(c) == c \in Cluster => fat[c] # Free /\ Unpointed(c) /\ Unnamed(c)
Extends == {"xeof", "xzero"}
Searching == {"find", "slot", "extend"} \cup Extends
Building == {"alloc", "link", "data", "mkblock", "entry"}
Fresh == op.n = 0 /\ op.first = 0 /\ op.prev = 0 /\ ~op.failed

Asked ==
  pc # "idle" => /\ op.kind \in Kinds /\ op.name \in Names /\ op.dir \in {Root, cwd}
                 /\ op.kind # "write" => op.dir = cwd
Searches(own) ==
  /\ pc \in Searching => op.at \in DirBlocks /\ own[op.at] = op.dir /\ op.found # "hit"
  /\ pc \in Searching \cup {"mark"} \/ (pc = "free" /\ ~op.failed) => Fresh
  /\ pc \in Searching \ {"find"} => op.kind \in {"write", "mkdir"}
  /\ pc \in Extends => /\ fat[op.at] = op.cl /\ op.cl \notin dirSet /\ op.at # Root
                       /\ fat[op.cl] = IF pc = "xeof" THEN Free ELSE EOF

(* The slot to be filled or marked.                                        *)
Place(own) ==
  pc \in Building \cup {"mark"} \/ (pc = "free" /\ op.kind = "write") =>
    /\ op.blk \in DirBlocks /\ own[op.blk] = op.dir
    /\ IF op.found = "hit"
         THEN dirs[op.blk][op.idx].name = op.name /\ dirs[op.blk][op.idx].first = op.old
         ELSE dirs[op.blk][op.idx].name \in {"end", "deleted"}

(* The chain that is given up: while its head is not freed yet, the entry  *)
(* is as good as before.                                                   *)
OldChain(own) ==
  /\ op.found = "hit" => /\ pc # "idle" /\ op.kind \in {"write", "delete"}
                         /\ \A i \in 1 .. Len(trail) : trail[i] # op.old
  /\ pc = "mark" => op.kind = "delete" /\ op.found = "hit" /\ op.cur = op.old
  /\ pc = "free" =>
       /\ op.kind = "write" \/ (op.kind = "delete" /\ ~op.failed)
       /\ Alone(op.cur) /\ (op.cur \in dirSet => ~op.failed)
  /\ pc = "free" /\ ~op.failed =>
       /\ op.found = "hit" /\ (op.cur \in dirSet => own[op.cur] = op.old)
       /\ op.cur \in Cluster => op.old \in Cluster
       /\ op.old \in Cluster => Unpointed(op.old)
       /\ op.kind = "write" /\ op.cur = op.old /\ op.old \in Cluster =>
            NamesChain(dirs[op.blk][op.idx], op.blk, own)

(* The chain that is built.                                                *)
NewChain(own) ==
  /\ pc \in Building => /\ op.kind \in {"write", "mkdir"} /\ ~op.failed
                        /\ op.kind = "mkdir" => op.found # "hit"
                        /\ Alone(op.first)
  /\ pc \in Building /\ op.kind = "write" =>
       /\ op.first \notin dirSet /\ op.prev \notin dirSet
       /\ op.prev # 0 /\ pc # "data" => fat[op.prev] = EOF
       /\ op.n = 0 => op.prev = 0 /\ (pc \in {"alloc", "entry"} => op.first = 0)
  /\ pc = "alloc" /\ op.kind = "mkdir" => Fresh
  /\ pc \in {"link", "data", "mkblock"} =>
       /\ op.cl \notin dirSet /\ fat[op.cl] = EOF /\ Unnamed(op.cl)
       /\ op.n = 0 => op.first = op.cl
  /\ pc \in {"link", "mkblock"} => Unpointed(op.cl)
  /\ pc = "link" => op.n > 0 /\ op.prev # 0 /\ op.cl # op.prev /\ op.cl # op.first
  /\ pc = "mkblock" => op.kind = "mkdir" /\ op.first = op.cl
  /\ pc = "entry" /\ op.kind = "mkdir" =>
       /\ op.first \in dirSet /\ own[op.first] = op.first
       /\ dirs[op.first][2].name = ".." /\ dirs[op.first][2].first = op.dir

OnDisk(own) == Chained(own) /\ Headed /\ Named(own) /\ Entered(own)
InCall(own) == Asked /\ Searches(own) /\ Place(own) /\ OldChain(own) /\ NewChain(own)
Volume(own) == OnDisk(own) /\ InCall(own)

(* Every block in use belongs to one chain, every name to the head of its  *)
(* own, every ".." slot leads to the directory that names its block, the   *)
(* directories entered are all still named, each in the one before it, and *)
(* a running call holds in its locals what its next step relies on: unless *)
(* an earlier call, a disk error or a crash left damage behind.            *)
VolumeSound == Undamaged => \E own \in Owners : Volume(own)
=============================================================================
