----------------------------- MODULE Fat16Files -----------------------------
(***************************************************************************)
(* What the FAT16 driver keeps for its callers: the contents of the files  *)
(* a call is not about, at every step of every call, stated without        *)
(* following chains, by the sequence of clusters that a file must have.    *)
(***************************************************************************)
EXTENDS Fat16Volume

IsFile(b, i) == /\ b \in DirBlocks /\ i \in SlotsOf(b)
                /\ dirs[b][i].name \in Names /\ ~dirs[b][i].dir
IsTarget(b, i) == op.found = "hit" /\ b = op.blk /\ i = op.idx
GivenUp(b, i) == OverwriteOpen /\ b = op.blk /\ i = op.idx

(* The clusters hold, in their order, the blocks 0 to n-1 of a write of v. *)
Chains(n) == [1 .. n -> Cluster]
Strung(chain, n, v) ==
  \A k \in 1 .. n : /\ chain[k] \notin dirSet /\ data[chain[k]] = <<v, k - 1>>
                    /\ k < n => fat[chain[k]] = chain[k + 1]
Stores(s, chain, v) == /\ Strung(chain, s.len, v)
                       /\ chain[1] = s.first /\ fat[chain[s.len]] = EOF

(* Every file has as many clusters as its entry says, the last one marked, *)
(* and they hold the blocks of one write in their order: no call, no disk  *)
(* error and no crash leaves a file part old and part new, short, or       *)
(* running into another file.  (fat16.c overwrites in place of the old     *)
(* chain: the file is excepted from when that chain is given up until the  *)
(* entry names the new one.)                                               *)
Whole(s) == IF s.len = 0 THEN s.first = 0
            ELSE \E chain \in Chains(s.len), v \in Data : Stores(s, chain, v)
FilesIntact ==
  Undamaged => \A b \in DirBlocks : \A i \in SlotsOf(b) :
                 IsFile(b, i) /\ ~GivenUp(b, i) => Whole(dirs[b][i])

(* No step of a call, and no crash in the middle of one, changes the entry *)
(* or the contents of a file other than the one the call is about.         *)
KeepsFile(s) == s.len > 0 => \E chain \in Chains(s.len), v \in Data :
                                Stores(s, chain, v) /\ Stores(s, chain, v)'
OthersKept ==
  Undamaged => \A b \in DirBlocks : \A i \in SlotsOf(b) : IsFile(b, i) /\ ~IsTarget(b, i) =>
                 dirs'[b][i] = dirs[b][i] /\ KeepsFile(dirs[b][i])
OthersUntouched == [][OthersKept]_vars

(* The hidden attribute the shell sets for USERS.DAT is used up by that    *)
(* write: no other file is ever hidden by it.                              *)
OnlyUsersHidden ==
  Undamaged /\ "attr" \notin damage =>
    \A b \in DirBlocks : \A i \in SlotsOf(b) :
      dirs[b][i].name \in Names /\ dirs[b][i].hidden => b = Root /\ dirs[b][i].name = UsersDat

-----------------------------------------------------------------------------
(* What keeps them so: the chain that a write builds is apart from every   *)
(* file's, so that linking a cluster behind its end lengthens no file.     *)
Apart(chain) == pc \in Building /\ op.kind = "write" => \A k \in DOMAIN chain : chain[k] # op.prev
Filed ==
  \A b \in DirBlocks : \A i \in SlotsOf(b) : IsFile(b, i) /\ ~GivenUp(b, i) =>
    IF dirs[b][i].len = 0 THEN dirs[b][i].first = 0
    ELSE \E chain \in Chains(dirs[b][i].len), v \in Data : Stores(dirs[b][i], chain, v) /\ Apart(chain)
Built ==
  pc \in Building /\ op.kind = "write" /\ op.n > 0 =>
    \E chain \in Chains(op.n) :
      /\ Strung(chain, op.n, op.val)
      /\ chain[1] = op.first /\ chain[op.n] = op.prev
      /\ pc = "data" => fat[op.prev] = op.cl
FilesSound == Undamaged => Filed /\ Built

(* The attribute is set only for the write that takes it.                  *)
Flagged == nextHidden => /\ pc # "idle" /\ op.kind = "write"
                         /\ op.dir = Root /\ op.name = UsersDat
AttributesSound == Undamaged /\ "attr" \notin damage => Flagged /\ OnlyUsersHidden
=============================================================================
