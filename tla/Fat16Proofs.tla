---------------------------- MODULE Fat16Proofs ----------------------------
(***************************************************************************)
(* For volumes and directories of every size, all names and files, every   *)
(* disk error and every crash: the FAT16 driver's cursors stay on the      *)
(* volume and its table and slots keep their form (Invariance), and while  *)
(* no damage is done the chains of the table stay apart, each with one     *)
(* name (VolumeStaysSound, ChainsStaySound), every file keeps its contents *)
(* (FilesStayIntact, OthersStay), the hidden attribute goes to no file but *)
(* the shell's (HiddenStaysUsers), no directory holds a name twice         *)
(* (EntriesStaySound), the way back from the current directory is the way  *)
(* there (TrailStaysSound), no cluster is lost (NothingLeaks), and, all of *)
(* it seen as a tree of files, every call changes that tree in one step or *)
(* not at all (TreeKept).                                                  *)
(***************************************************************************)
EXTENDS Fat16Promise, SequenceTheorems, FiniteSetTheorems, WellFoundedInduction, TLAPS

USE ClusterAssumption, SlotsAssumption, LenAssumption, FaultAssumption, NamesAssumption

(* What the steps of a call know of its locals.                            *)
CallSound ==
  /\ op.kind = "write" => op.val \in Data
  /\ pc = "extend" => op.at \in Cluster
  /\ pc \in {"xeof", "xzero", "link", "data", "mkblock"} => op.cl \in Cluster
  /\ pc = "link" => op.prev \in Cluster
  /\ pc \in {"link", "data"} => op.kind = "write" /\ op.n < op.len

IInv == TypeOK /\ CallSound

(* The locals in their ranges, and the slot they name.                     *)
Locals == [kind: {"none"} \cup Kinds, dir: Dirs, name: Names \cup Marks,
           val: {Nothing} \cup Data, len: 0 .. MaxLen, at: Dirs,
           found: {"none", "hit", "end"}, blk: Dirs, idx: Nat, old: Dirs, cur: Dirs,
           first: Dirs, prev: Dirs, cl: Dirs, n: 0 .. MaxLen,
           extended: BOOLEAN, failed: BOOLEAN]
CallTyped == /\ pc \in {"idle"} \cup BusySteps
             /\ op \in Locals /\ op.idx \in SlotsOf(op.blk)

-----------------------------------------------------------------------------
(* The lowest of a set of numbers is one of them, and below no other.      *)
LEMMA LowestExists ==
  ASSUME NEW S \in SUBSET Nat, IsFiniteSet(S), S # {}
  PROVE  LowestOf(S) \in S /\ \A j \in S : LowestOf(S) <= j
<1>. DEFINE Below(p) == {q \in S : q < p}
            Belows == {Below(p) : p \in S}
<1>1. \A p \in S : Below(p) \in SUBSET S
  OBVIOUS
<1>2. Belows \subseteq FiniteSubsetsOf(S)
  <2>. HIDE DEF Below
  <2>. QED
    BY <1>1, FS_FiniteSubsetsOfFinite
<1>3. Belows # {}
  <2>1. PICK p : p \in S
    OBVIOUS
  <2>. HIDE DEF Below
  <2>. QED
    BY <2>1
<1>4. PICK B \in Belows : \A C \in Belows : <<C, B>> \notin StrictSubsetOrdering(S)
  <2>. HIDE DEF Belows
  <2>. QED
    BY <1>2, <1>3, FS_StrictSubsetOrderingWellFounded, WFMin
<1>5. PICK p \in S : B = Below(p)
  BY <1>4
<1>6. ASSUME NEW q \in S, q < p PROVE FALSE
  <2>1. q \in Below(p) /\ q \notin Below(q)
    BY <1>6
  <2>2. \A r \in Below(q) : r \in Below(p)
    BY <1>6
  <2>. HIDE DEF Below
  <2>3. <<Below(q), B>> \in StrictSubsetOrdering(S)
    BY <1>1, <1>5, <2>1, <2>2 DEF StrictSubsetOrdering
  <2>4. Below(q) \in Belows
    OBVIOUS
  <2>. HIDE DEF Belows
  <2>. QED
    BY <1>4, <2>3, <2>4
<1>7. \A q \in S : p <= q
  BY <1>6
<1>. QED
  BY <1>7 DEF LowestOf

LEMMA SlotsFinite ==
  \A d : SlotsOf(d) \subseteq Nat /\ IsFiniteSet(SlotsOf(d)) /\ 1 \in SlotsOf(d)
<1>. SUFFICES ASSUME NEW d
              PROVE  SlotsOf(d) \subseteq Nat /\ IsFiniteSet(SlotsOf(d)) /\ 1 \in SlotsOf(d)
  OBVIOUS
<1>1. IsFiniteSet(1 .. RootSlots) /\ IsFiniteSet(1 .. BlockSlots)
  BY FS_Interval
<1>2. SlotsOf(d) = 1 .. RootSlots \/ SlotsOf(d) = 1 .. BlockSlots
  BY DEF SlotsOf
<1>. QED
  BY <1>1, <1>2

LEMMA StopIsSlot == Stops # {} => FirstStop \in SlotsOf(op.at)
BY SlotsFinite, LowestExists, FS_Subset DEF Stops, FirstStop

LEMMA VacantIsSlot == Vacant # {} => VacantSlot \in SlotsOf(op.at)
BY SlotsFinite, LowestExists, FS_Subset DEF Vacant, VacantSlot

LEMMA FreeIsCluster == FreeClusters # {} => LowestOf(FreeClusters) \in Cluster
<1>1. IsFiniteSet(Cluster) /\ Cluster \subseteq Nat
  BY FS_Interval DEF Cluster
<1>. QED
  BY <1>1, LowestExists, FS_Subset DEF FreeClusters

-----------------------------------------------------------------------------
LEMMA RootNotCluster == Root \notin Cluster /\ Dirs = Cluster \cup {Root} /\ 1 \in SlotsOf(Root)
BY SlotsFinite DEF Root, Cluster, Dirs

(* A step that leaves the disk and the session alone.                      *)
LEMMA QuietType ==
  ASSUME IInv, CallTyped', CallSound', UNCHANGED <<disk, session, dirSet>>,
         damage' \subseteq Causes
  PROVE  IInv'
BY DEF IInv, TypeOK, CallTyped, Locals, disk, session

(* Going to another step is typed when the locals are.                     *)
LEMMA NoOpTyped == NoOp \in Locals /\ NoOp.idx \in SlotsOf(NoOp.blk)
BY RootNotCluster DEF NoOp, Locals, Nothing, Marks, Dirs, Root, Kinds

LEMMA ReturnTyped == Return => CallTyped' /\ CallSound'
BY NoOpTyped DEF Return, Goto, CallTyped, CallSound, NoOp

LEMMA InitIInv == Init => IInv
<1>. SUFFICES ASSUME Init PROVE IInv
  OBVIOUS
<1>. USE DEF Init
<1>1. \A d \in Dirs : dirs[d] \in [SlotsOf(d) -> Slot]
  <2>1. Mark("end") \in Slot
    BY DEF Mark, Slot, Marks, Dirs, Root
  <2>. QED
    BY <2>1 DEF EmptyBlock
<1>2. CallTyped
  BY NoOpTyped DEF CallTyped
<1>3. /\ fat \in [Cluster -> {Free, EOF} \cup Cluster] /\ DOMAIN dirs = Dirs
      /\ data \in [Cluster -> {Nothing} \cup (Data \X (0 .. MaxLen))]
      /\ cwd \in Dirs /\ trail \in Seq(Dirs) /\ dirSet \subseteq Cluster /\ damage \subseteq Causes
  BY RootNotCluster
<1>4. nextHidden \in BOOLEAN
  OBVIOUS
<1>5. CallSound
  BY DEF CallSound, NoOp
<1>. QED
  BY <1>1, <1>2, <1>3, <1>4, <1>5 DEF IInv, TypeOK, CallTyped, Locals

-----------------------------------------------------------------------------
(* What the disk accesses return and leave.                                *)
LEMMA ReadsTyped ==
  ASSUME TypeOK
  PROVE  /\ \A d \in Dirs : \A i \in SlotsOf(d) : dirs[d][i] \in Slot
         /\ \A c \in Cluster : fat[c] \in {Free, EOF} \cup Cluster
         /\ op \in Locals /\ CallTyped
BY DEF TypeOK, CallTyped, Locals

LEMMA SetFatType ==
  ASSUME TypeOK, NEW c \in Cluster, NEW v \in {Free, EOF} \cup Cluster, NEW r, SetFat(c, v, r)
  PROVE  fat' \in [Cluster -> {Free, EOF} \cup Cluster]
BY DEF TypeOK, SetFat

LEMMA SetSlotType ==
  ASSUME TypeOK, NEW b \in Dirs, NEW i \in SlotsOf(b), NEW e \in Slot, NEW r, SetSlot(b, i, e, r)
  PROVE  DOMAIN dirs' = Dirs /\ \A d \in Dirs : dirs'[d] \in [SlotsOf(d) -> Slot]
<1>1. CASE r = "lost"
  BY <1>1 DEF TypeOK, SetSlot
<1>2. CASE r # "lost"
  <2>1. dirs' = [dirs EXCEPT ![b][i] = e]
    BY <1>2 DEF SetSlot
  <2>2. dirs'[b] \in [SlotsOf(b) -> Slot]
    BY <2>1 DEF TypeOK
  <2>. QED
    BY <2>1, <2>2 DEF TypeOK
<1>. QED
  BY <1>1, <1>2

(* A failing call.                                                         *)
LEMMA AbandonType ==
  ASSUME TypeOK, NEW causes \in SUBSET Causes, Abandon(causes)
  PROVE  CallTyped' /\ CallSound' /\ damage' \subseteq Causes
BY ReturnTyped DEF TypeOK, Abandon, Causes

-----------------------------------------------------------------------------
LEMMA CallSteps == ASSUME IInv, Calls PROVE IInv'
<1>1. ASSUME NEW o \in Locals, Call(o), o.idx = 1, nextHidden' \in BOOLEAN,
             o.kind = "write" => o.val \in Data
      PROVE  IInv'
  <2>1. op' = [o EXCEPT !.at = o.dir] /\ pc' = "find"
    BY <1>1 DEF Call, Goto
  <2>2. op' \in Locals /\ op'.idx = 1 /\ op'.kind = o.kind /\ op'.val = o.val
    BY <2>1, <1>1 DEF Locals
  <2>3. CallTyped' /\ CallSound'
    BY <1>1, <2>1, <2>2, SlotsFinite DEF CallTyped, CallSound, BusySteps
  <2>. QED
    BY <1>1, <2>3 DEF IInv, TypeOK, CallTyped, Locals, Call, disk
<1>2. NoOp \in Locals /\ cwd \in Dirs /\ nextHidden \in BOOLEAN /\ UsersDat \in Names
  BY NoOpTyped DEF IInv, TypeOK
<1>3. ASSUME NEW name \in Names, NEW val \in Data, NEW len \in 0 .. MaxLen,
             WriteFile(name, val, len)
      PROVE  IInv'
  BY <1>1, <1>2, <1>3, ZenonT(30) DEF WriteFile, Locals, NoOp, Kinds
<1>4. ASSUME NEW val \in Data, NEW len \in 1 .. MaxLen, WriteUsers(val, len)
      PROVE  IInv'
  <2>. DEFINE o == [NoOp EXCEPT !.kind = "write", !.name = UsersDat, !.val = val, !.len = len]
  <2>1. len \in 0 .. MaxLen
    OBVIOUS
  <2>2. o \in Locals /\ o.idx = 1 /\ o.val \in Data
    BY <1>2, <2>1 DEF Locals, NoOp, Kinds
  <2>3. Call(o) /\ nextHidden' = TRUE
    BY <1>4 DEF WriteUsers
  <2>. HIDE DEF o
  <2>. QED
    BY <1>1, <2>2, <2>3
<1>5. ASSUME NEW name \in Names, DeleteFile(name) PROVE IInv'
  BY <1>1, <1>2, <1>5, ZenonT(30) DEF DeleteFile, Locals, NoOp, Kinds
<1>6. ASSUME NEW name \in Names, Mkdir(name) PROVE IInv'
  BY <1>1, <1>2, <1>6, ZenonT(30) DEF Mkdir, Locals, NoOp, Kinds
<1>7. ASSUME NEW name \in Names, Cd(name) PROVE IInv'
  BY <1>1, <1>2, <1>7, ZenonT(30) DEF Cd, Locals, NoOp, Kinds
<1>8. CASE CdUp
  <2>1. cwd' \in Dirs
    <3>1. 2 \in SlotsOf(cwd) /\ cwd \in Dirs
      BY <1>8 DEF CdUp, SlotsOf, IInv, TypeOK
    <3>2. dirs[cwd][2].first \in Dirs
      BY <3>1, ReadsTyped DEF IInv, Slot
    <3>. QED
      BY <1>8, <3>1, <3>2 DEF CdUp
  <2>2. trail' \in Seq(Dirs)
    <3>1. trail \in Seq(Dirs)
      BY DEF IInv, TypeOK
    <3>2. SubSeq(trail, 1, Len(trail) - 1) \in Seq(Dirs)
      BY <3>1, LenProperties, SubSeqProperties
    <3>. QED
      BY <1>8, <3>1, <3>2 DEF CdUp
  <2>. QED
    BY <1>8, <2>1, <2>2 DEF CdUp, IInv, TypeOK, CallSound, disk
<1>. QED
  BY <1>3, <1>4, <1>5, <1>6, <1>7, <1>8 DEF Calls

-----------------------------------------------------------------------------
(* fat16_dir_find and fat16_dir_first_free only read.                      *)
LEMMA LookUpSteps ==
  ASSUME IInv, FindHit \/ FindEnd \/ FindOn \/ FindNone \/ SlotHit \/ SlotOn \/ SlotNone
  PROVE  IInv'
<1>. USE DEF Goto, CallTyped, CallSound, BusySteps, IInv
<1>0. /\ op \in Locals /\ op.at \in Dirs /\ op.dir \in Dirs /\ op.idx \in SlotsOf(op.blk)
      /\ damage \subseteq Causes
  BY ReadsTyped DEF Locals, TypeOK
<1>1. CASE FindHit
  <2>1. Found \in Slot /\ Found.first \in Dirs /\ FirstStop \in SlotsOf(op.at)
    BY <1>0, <1>1, StopIsSlot, ReadsTyped DEF FindHit, Found, Slot
  <2>. DEFINE hit == [op EXCEPT !.found = "hit", !.blk = op.at, !.idx = FirstStop,
                                !.old = Found.first, !.cur = Found.first]
  <2>2. hit \in Locals /\ hit.idx \in SlotsOf(hit.blk) /\ hit.kind = op.kind /\ hit.val = op.val
    BY <1>0, <2>1, SlotsFinite DEF Locals
  <2>3. CallTyped' /\ CallSound'
    <3>1. CASE op.kind = "write"
      <4>1. pc' = "free" /\ op' = hit
        BY <1>1, <3>1 DEF FindHit
      <4>. HIDE DEF hit
      <4>. QED
        BY <2>2, <4>1
    <3>2. CASE op.kind = "delete"
      <4>1. pc' = "mark" /\ op' = hit
        BY <1>1, <3>2 DEF FindHit
      <4>. HIDE DEF hit
      <4>. QED
        BY <2>2, <3>2, <4>1
    <3>3. CASE op.kind \notin {"write", "delete"}
      <4>1. Return
        BY <1>1, <3>3 DEF FindHit
      <4>. QED
        BY <4>1, ReturnTyped
    <3>. QED
      BY <3>1, <3>2, <3>3
  <2>4. cwd' \in Dirs /\ trail' \in Seq(Dirs)
    <3>1. cwd \in Dirs /\ trail \in Seq(Dirs)
      BY DEF TypeOK
    <3>2. Append(trail, Found.first) \in Seq(Dirs)
      BY <2>1, <3>1, AppendProperties
    <3>3. \/ cwd' = Found.first /\ trail' = Append(trail, Found.first)
          \/ UNCHANGED <<cwd, trail>>
      BY <1>1 DEF FindHit
    <3>. QED
      BY <2>1, <3>1, <3>2, <3>3
  <2>5. damage' \subseteq Causes
    BY <1>0, <1>1 DEF FindHit, Causes
  <2>. QED
    BY <1>1, <2>3, <2>4, <2>5 DEF FindHit, TypeOK, Locals, disk
<1>2. CASE FindEnd
  <2>1. CallTyped' /\ CallSound'
    <3>1. CASE op.kind \in {"write", "mkdir"}
      <4>1. FirstStop \in SlotsOf(op.at) /\ FirstStop \in Nat
        BY <1>2, StopIsSlot, SlotsFinite DEF FindEnd
      <4>2. /\ pc' = "alloc"
            /\ op' = [op EXCEPT !.found = "end", !.blk = op.at, !.idx = FirstStop]
        BY <1>2, <3>1 DEF FindEnd
      <4>3. op' \in Locals /\ op'.idx \in SlotsOf(op'.blk)
        BY <1>0, <4>1, <4>2 DEF Locals
      <4>4. op'.kind = op.kind /\ op'.val = op.val
        BY <1>0, <4>2 DEF Locals
      <4>. QED
        BY <4>2, <4>3, <4>4
    <3>2. CASE op.kind \notin {"write", "mkdir"}
      BY <1>2, <3>2, ReturnTyped DEF FindEnd
    <3>. QED
      BY <3>1, <3>2
  <2>. QED
    BY <1>0, <1>2, <2>1, QuietType DEF FindEnd
<1>3. CASE FindOn
  <2>1. fat[op.at] \in Dirs
    BY <1>3, RootNotCluster DEF FindOn, ChainGoesOn
  <2>2. CallTyped' /\ CallSound'
    <3>1. pc' = "find" /\ op' = [op EXCEPT !.at = fat[op.at]]
      BY <1>3 DEF FindOn
    <3>2. op' \in Locals /\ op'.idx \in SlotsOf(op'.blk)
      BY <1>0, <2>1, <3>1 DEF Locals
    <3>. QED
      BY <1>0, <3>1, <3>2 DEF Locals
  <2>. QED
    BY <1>0, <1>3, <2>2, QuietType DEF FindOn
<1>4. CASE FindNone
  <2>1. CallTyped' /\ CallSound'
    <3>1. CASE op.kind \in {"write", "mkdir"}
      BY <1>0, <1>4, <3>1 DEF FindNone, Locals
    <3>2. CASE op.kind \notin {"write", "mkdir"}
      BY <1>4, <3>2, ReturnTyped DEF FindNone
    <3>. QED
      BY <3>1, <3>2
  <2>2. damage' \subseteq Causes
    BY <1>0, <1>4 DEF FindNone, Causes
  <2>. QED
    BY <1>4, <2>1, <2>2, QuietType DEF FindNone
<1>5. CASE SlotHit
  <2>1. CallTyped' /\ CallSound'
    BY <1>0, <1>5, VacantIsSlot, SlotsFinite DEF SlotHit, Locals
  <2>. QED
    BY <1>0, <1>5, <2>1, QuietType DEF SlotHit
<1>6. CASE SlotOn
  <2>1. fat[op.at] \in Dirs
    BY <1>6, RootNotCluster DEF SlotOn, ChainGoesOn
  <2>2. CallTyped' /\ CallSound'
    BY <1>0, <1>6, <2>1 DEF SlotOn, Locals
  <2>. QED
    BY <1>0, <1>6, <2>2, QuietType DEF SlotOn
<1>7. CASE SlotNone
  <2>1. CASE op.dir # Root /\ ~op.extended
    <3>1. CallTyped' /\ CallSound' /\ UNCHANGED damage
      BY <1>0, <1>7, <2>1, RootNotCluster DEF SlotNone, Locals
    <3>. QED
      BY <1>0, <1>7, <3>1, QuietType DEF SlotNone
  <2>2. CASE ~(op.dir # Root /\ ~op.extended)
    <3>1. Abandon({})
      BY <1>7, <2>2 DEF SlotNone
    <3>. QED
      BY <1>7, <3>1, AbandonType, QuietType DEF SlotNone
  <2>. QED
    BY <2>1, <2>2
<1>. QED
  BY <1>1, <1>2, <1>3, <1>4, <1>5, <1>6, <1>7

-----------------------------------------------------------------------------
(* What a step that changes the table, and nothing else of the disk, has   *)
(* to show.                                                                *)
LEMMA TableType ==
  ASSUME IInv, CallTyped', CallSound', UNCHANGED <<dirs, data, session>>,
         fat' \in [Cluster -> {Free, EOF} \cup Cluster],
         dirSet' \subseteq Cluster, damage' \subseteq Causes
  PROVE  IInv'
BY DEF IInv, TypeOK, CallTyped, Locals, session

(* fat16_dir_extend.                                                       *)
LEMMA ExtendSteps ==
  ASSUME IInv, ExtendWalk \/ ExtendLink \/ ExtendFails \/ ExtendSeal \/ ExtendZero
  PROVE  IInv'
<1>. USE DEF Goto, CallTyped, CallSound, BusySteps
<1>0. /\ op \in Locals /\ op.dir \in Dirs /\ op.idx \in SlotsOf(op.blk)
      /\ damage \subseteq Causes /\ dirSet \subseteq Cluster
      /\ op.kind = "write" => op.val \in Data
  BY ReadsTyped DEF Locals, TypeOK, IInv
<1>1. CASE ExtendWalk
  <2>1. pc' = "extend" /\ op' = [op EXCEPT !.at = fat[op.at]] /\ fat[op.at] \in Cluster
    BY <1>1 DEF ExtendWalk
  <2>2. op' \in Locals /\ op'.idx \in SlotsOf(op'.blk)
    BY <1>0, <2>1, RootNotCluster DEF Locals
  <2>3. op'.kind = op.kind /\ op'.val = op.val /\ op'.at = fat[op.at]
    BY <1>0, <2>1 DEF Locals
  <2>4. CallTyped' /\ CallSound'
    BY <1>0, <2>1, <2>2, <2>3
  <2>. QED
    BY <1>0, <1>1, <2>4, QuietType DEF ExtendWalk
<1>2. CASE ExtendLink
  <2>. DEFINE nc == LowestOf(FreeClusters)
  <2>1. nc \in Cluster /\ op.at \in Cluster
    BY <1>2, FreeIsCluster DEF ExtendLink, IInv
  <2>. HIDE DEF nc
  <2>2. PICK r \in Outcome :
          /\ SetFat(op.at, nc, r)
          /\ CASE r = "ok"   -> Goto("xeof", [op EXCEPT !.cl = nc]) /\ UNCHANGED damage
               [] r = "lost" -> Abandon({})
               [] r = "late" -> Abandon({"extend"})
    BY <1>2 DEF ExtendLink, nc
  <2>3. fat' \in [Cluster -> {Free, EOF} \cup Cluster]
    BY <2>1, <2>2, SetFatType DEF IInv
  <2>4. CallTyped' /\ CallSound' /\ damage' \subseteq Causes
    <3>1. CASE r = "ok"
      <4>1. pc' = "xeof" /\ op' = [op EXCEPT !.cl = nc] /\ UNCHANGED damage
        BY <2>2, <3>1
      <4>2. op' \in Locals /\ op'.idx \in SlotsOf(op'.blk)
        BY <1>0, <2>1, <4>1, RootNotCluster DEF Locals
      <4>3. op'.kind = op.kind /\ op'.val = op.val /\ op'.cl = nc
        BY <1>0, <4>1 DEF Locals
      <4>. QED
        BY <1>0, <2>1, <4>1, <4>2, <4>3
    <3>2. CASE r = "lost"
      <4>1. Abandon({})
        BY <2>2, <3>2
      <4>. QED
        BY <4>1, AbandonType DEF IInv
    <3>3. CASE r = "late"
      <4>1. Abandon({"extend"}) /\ {"extend"} \in SUBSET Causes
        BY <2>2, <3>3 DEF Causes
      <4>. QED
        BY <4>1, AbandonType DEF IInv
    <3>. QED
      BY <3>1, <3>2, <3>3 DEF Outcome
  <2>. QED
    BY <1>0, <1>2, <2>3, <2>4, TableType DEF ExtendLink
<1>3. CASE ExtendFails
  BY <1>3, AbandonType, QuietType DEF ExtendFails, IInv
<1>4. CASE ExtendSeal
  <2>1. PICK r \in Outcome :
          /\ SetFat(op.cl, EOF, r)
          /\ IF r = "ok" THEN Goto("xzero", op) /\ UNCHANGED damage
             ELSE Abandon({"extend"})
    BY <1>4 DEF ExtendSeal
  <2>2. op.cl \in Cluster
    BY <1>4 DEF ExtendSeal, IInv
  <2>3. fat' \in [Cluster -> {Free, EOF} \cup Cluster]
    BY <2>1, <2>2, SetFatType DEF IInv
  <2>4. CallTyped' /\ CallSound' /\ damage' \subseteq Causes
    <3>1. CASE r = "ok"
      BY <1>0, <2>1, <2>2, <3>1
    <3>2. CASE r # "ok"
      <4>1. Abandon({"extend"}) /\ {"extend"} \in SUBSET Causes
        BY <2>1, <3>2 DEF Causes
      <4>. QED
        BY <4>1, AbandonType DEF IInv
    <3>. QED
      BY <3>1, <3>2
  <2>. QED
    BY <1>0, <1>4, <2>3, <2>4, TableType DEF ExtendSeal
<1>5. CASE ExtendZero
  <2>1. op.cl \in Cluster /\ op.cl \in Dirs /\ op.cl # Root
    BY <1>5, RootNotCluster DEF ExtendZero, IInv
  <2>2. EmptyBlock(op.cl) \in [SlotsOf(op.cl) -> Slot]
    BY RootNotCluster DEF EmptyBlock, Mark, Slot, Marks, Root
  <2>3. DOMAIN dirs' = Dirs /\ \A d \in Dirs : dirs'[d] \in [SlotsOf(d) -> Slot]
    <3>1. PICK r \in Outcome :
            dirs' = IF r = "lost" THEN dirs ELSE [dirs EXCEPT ![op.cl] = EmptyBlock(op.cl)]
      BY <1>5 DEF ExtendZero
    <3>. QED
      BY <2>1, <2>2, <3>1 DEF IInv, TypeOK
  <2>4. CallTyped' /\ CallSound'
    <3>1. /\ pc' = "slot"
          /\ op' = [op EXCEPT !.at = op.dir, !.cl = 0, !.extended = TRUE]
      BY <1>5 DEF ExtendZero
    <3>0. 0 \in Dirs
      BY DEF Dirs, Root
    <3>2. op' \in Locals /\ op'.idx \in SlotsOf(op'.blk)
      BY <1>0, <3>0, <3>1 DEF Locals
    <3>3. op'.kind = op.kind /\ op'.val = op.val
      BY <1>0, <3>1 DEF Locals
    <3>. QED
      BY <1>0, <3>1, <3>2, <3>3
  <2>5. dirSet' \subseteq Cluster /\ damage' \subseteq Causes
    BY <1>0, <1>5, <2>1 DEF ExtendZero, Causes
  <2>. QED
    BY <1>5, <2>3, <2>4, <2>5 DEF ExtendZero, IInv, TypeOK, Locals, session
<1>. QED
  BY <1>1, <1>2, <1>3, <1>4, <1>5

-----------------------------------------------------------------------------
(* fat16_free_clusters.                                                    *)
LEMMA FreeSteps ==
  ASSUME IInv, FreeOne \/ FreeReadError \/ FreeDone
  PROVE  IInv'
<1>. USE DEF Goto, CallTyped, CallSound, BusySteps
<1>0. /\ op \in Locals /\ op.idx \in SlotsOf(op.blk)
      /\ damage \subseteq Causes /\ dirSet \subseteq Cluster
      /\ op.kind = "write" => op.val \in Data
  BY ReadsTyped DEF Locals, TypeOK, IInv
<1>1. ASSUME NEW c \in Dirs, pc' = "free", op' = [op EXCEPT !.cur = c]
      PROVE  CallTyped' /\ CallSound'
  <2>1. op' \in Locals /\ op'.idx \in SlotsOf(op'.blk)
    BY <1>0, <1>1 DEF Locals
  <2>2. op'.kind = op.kind /\ op'.val = op.val
    BY <1>0, <1>1 DEF Locals
  <2>. QED
    BY <1>0, <1>1, <2>1, <2>2
<1>2. CASE FreeOne
  <2>1. op.cur \in Cluster /\ Free \in {Free, EOF} \cup Cluster
    BY <1>2 DEF FreeOne
  <2>2. Successor \in Dirs
    BY DEF Successor, Dirs, Root
  <2>3. CallTyped' /\ CallSound'
    BY <1>1, <1>2, <2>2 DEF FreeOne
  <2>4. PICK r \in Outcome :
          /\ SetFat(op.cur, Free, r)
          /\ dirSet' = IF r = "lost" THEN dirSet ELSE dirSet \ {op.cur}
          /\ damage' = damage
               \cup (IF r = "lost" THEN {"stalelink"} ELSE {})
               \cup (IF op.cur \in dirSet
                         /\ \E i \in SlotsOf(op.cur) : dirs[op.cur][i].name \in Names
                       THEN {"orphan"} ELSE {})
    BY <1>2 DEF FreeOne
  <2>5. fat' \in [Cluster -> {Free, EOF} \cup Cluster]
    BY <2>1, <2>4, SetFatType DEF IInv
  <2>6. dirSet' \subseteq Cluster /\ damage' \subseteq Causes
    BY <1>0, <2>4 DEF Causes
  <2>. QED
    BY <1>2, <2>3, <2>5, <2>6, TableType DEF FreeOne
<1>3. CASE FreeReadError
  <2>1. 0 \in Dirs
    BY DEF Dirs, Root
  <2>2. CallTyped' /\ CallSound'
    BY <1>1, <1>3, <2>1 DEF FreeReadError
  <2>. QED
    BY <1>0, <1>3, <2>2, QuietType DEF FreeReadError
<1>4. CASE FreeDone
  <2>1. CallTyped' /\ CallSound' /\ damage' \subseteq Causes
    <3>1. CASE op.kind = "delete"
      <4>1. Return /\ UNCHANGED damage
        BY <1>4, <3>1 DEF FreeDone
      <4>2. CallTyped' /\ CallSound'
        BY ONLY <4>1, ReturnTyped
      <4>. QED
        BY ONLY <1>0, <4>1, <4>2
    <3>2. CASE op.kind = "write" /\ op.failed
      BY <1>4, <3>2, AbandonType DEF FreeDone, IInv
    <3>3. CASE op.kind # "delete" /\ ~(op.kind = "write" /\ op.failed)
      <4>1. pc' = "alloc" /\ op' = op /\ UNCHANGED damage
        BY <1>4, <3>3 DEF FreeDone
      <4>. QED
        BY <1>0, <4>1
    <3>. QED
      BY <3>1, <3>2, <3>3
  <2>. QED
    BY <1>4, <2>1, QuietType DEF FreeDone
<1>. QED
  BY <1>2, <1>3, <1>4

-----------------------------------------------------------------------------
(* The loop of fat16_write_file_in.                                        *)
LEMMA GiveUpType == ASSUME IInv, GiveUp PROVE CallTyped' /\ CallSound'
<1>0. /\ op \in Locals /\ op.first \in Dirs /\ op.idx \in SlotsOf(op.blk)
      /\ op.kind = "write" => op.val \in Data
  BY ReadsTyped DEF Locals, TypeOK, IInv, CallSound, CallTyped
<1>1. pc' = "free" /\ op' = [op EXCEPT !.cur = op.first, !.failed = TRUE]
  BY DEF GiveUp, Goto
<1>2. op' \in Locals /\ op'.idx \in SlotsOf(op'.blk)
  BY <1>0, <1>1 DEF Locals
<1>3. op'.kind = op.kind /\ op'.val = op.val
  BY <1>0, <1>1 DEF Locals
<1>. QED
  BY <1>0, <1>1, <1>2, <1>3 DEF CallTyped, CallSound, BusySteps

LEMMA AllocSteps ==
  ASSUME IInv, AllocCluster \/ AllocFails \/ LinkCluster \/ Seal
  PROVE  IInv'
<1>. USE DEF Goto, CallTyped, CallSound, BusySteps
<1>0. /\ op \in Locals /\ op.idx \in SlotsOf(op.blk) /\ op.prev \in Dirs /\ op.first \in Dirs
      /\ damage \subseteq Causes /\ dirSet \subseteq Cluster
      /\ op.kind = "write" => op.val \in Data
  BY ReadsTyped DEF Locals, TypeOK, IInv
<1>1. CASE AllocCluster
  <2>. DEFINE cl == LowestOf(FreeClusters)
              o == [op EXCEPT !.cl = cl, !.first = IF op.n = 0 THEN cl ELSE op.first]
  <2>1. cl \in Cluster /\ cl \in Dirs
    BY <1>1, FreeIsCluster, RootNotCluster DEF AllocCluster
  <2>2. PICK r \in Outcome :
          /\ SetFat(cl, EOF, r)
          /\ damage' = IF r = "lost" THEN damage \cup {"lostset"} ELSE damage
    BY <1>1 DEF AllocCluster
  <2>3. /\ op' = o
        /\ pc' = CASE op.kind = "mkdir"                 -> "mkblock"
                   [] op.kind = "write" /\ op.prev # 0 -> "link"
                   [] OTHER                            -> "data"
    BY <1>1 DEF AllocCluster
  <2>4. MoreToWrite \/ op.kind = "mkdir"
    BY <1>1 DEF AllocCluster
  <2>. HIDE DEF cl
  <2>5. o \in Locals /\ o.idx = op.idx /\ o.blk = op.blk
    BY <1>0, <2>1 DEF Locals
  <2>6. /\ o.kind = op.kind /\ o.val = op.val /\ o.cl = cl /\ o.prev = op.prev
        /\ o.n = op.n /\ o.len = op.len
    BY <1>0 DEF Locals
  <2>7. op.prev # 0 => op.prev \in Cluster
    BY <1>0 DEF Dirs, Root
  <2>. HIDE DEF o
  <2>8. CallTyped' /\ CallSound'
    <3>1. CASE op.kind = "mkdir"
      <4>1. pc' = "mkblock" /\ op' = o
        BY <2>3, <3>1
      <4>. QED
        BY <1>0, <2>1, <2>5, <2>6, <3>1, <4>1
    <3>2. CASE op.kind = "write" /\ op.prev # 0
      <4>1. pc' = "link" /\ op' = o
        BY <2>3, <3>2
      <4>. QED
        BY <1>0, <2>1, <2>4, <2>5, <2>6, <2>7, <3>2, <4>1 DEF MoreToWrite
    <3>3. CASE op.kind = "write" /\ op.prev = 0
      <4>1. pc' = "data" /\ op' = o
        BY <2>3, <3>3
      <4>. QED
        BY <1>0, <2>1, <2>4, <2>5, <2>6, <3>3, <4>1 DEF MoreToWrite
    <3>. QED
      BY <2>4, <3>1, <3>2, <3>3 DEF MoreToWrite
  <2>9. fat' \in [Cluster -> {Free, EOF} \cup Cluster] /\ damage' \subseteq Causes
    BY <1>0, <2>1, <2>2, SetFatType DEF IInv, Causes
  <2>. QED
    BY <1>0, <1>1, <2>8, <2>9, TableType DEF AllocCluster
<1>2. CASE AllocFails
  <2>1. CallTyped' /\ CallSound'
    <3>1. Return \/ GiveUp
      BY <1>2 DEF AllocFails
    <3>. QED
      BY ONLY IInv, <3>1, ReturnTyped, GiveUpType
  <2>. QED
    BY <1>0, <1>2, <2>1, QuietType DEF AllocFails
<1>3. CASE LinkCluster
  <2>1. /\ op.prev \in Cluster /\ op.cl \in Cluster
        /\ op.kind = "write" /\ op.n < op.len /\ pc' = "data" /\ op' = op
    BY <1>3 DEF LinkCluster, IInv
  <2>2. CallTyped' /\ CallSound'
    BY <1>0, <2>1
  <2>3. fat' \in [Cluster -> {Free, EOF} \cup Cluster] /\ damage' \subseteq Causes
    BY <1>0, <1>3, <2>1, SetFatType DEF LinkCluster, IInv, Causes
  <2>. QED
    BY <1>0, <1>3, <2>2, <2>3, TableType DEF LinkCluster
<1>4. CASE Seal
  <2>1. pc' = "entry" /\ op' = op
    BY <1>4 DEF Seal
  <2>2. CallTyped' /\ CallSound'
    BY <1>0, <2>1
  <2>3. fat' \in [Cluster -> {Free, EOF} \cup Cluster]
    <3>1. CASE op.prev = 0
      BY <1>4, <3>1 DEF Seal, IInv, TypeOK
    <3>2. CASE op.prev # 0
      <4>1. op.prev \in Cluster
        BY <1>0, <3>2 DEF Dirs, Root
      <4>2. PICK r \in Outcome : SetFat(op.prev, EOF, r)
        BY <1>4, <3>2 DEF Seal
      <4>. QED
        BY <4>1, <4>2, SetFatType DEF IInv
    <3>. QED
      BY <3>1, <3>2
  <2>. QED
    BY <1>0, <1>4, <2>2, <2>3, TableType DEF Seal
<1>. QED
  BY <1>1, <1>2, <1>3, <1>4

-----------------------------------------------------------------------------
(* The writes of a block and of an entry.                                  *)
LEMMA WriteBlockStep == ASSUME IInv, WriteBlock PROVE IInv'
<1>. USE DEF Goto, CallTyped, CallSound, BusySteps
<1>0. /\ op \in Locals /\ op.idx \in SlotsOf(op.blk)
      /\ op.kind = "write" /\ op.val \in Data /\ op.n < op.len /\ op.cl \in Cluster
      /\ op.n \in 0 .. MaxLen /\ op.len \in 0 .. MaxLen /\ op.cl \in Dirs
  BY ReadsTyped, RootNotCluster DEF Locals, IInv, WriteBlock
<1>1. op.n + 1 \in 0 .. MaxLen
  BY <1>0
<1>2. PICK r \in Outcome :
        /\ data' = IF r = "lost" THEN data ELSE [data EXCEPT ![op.cl] = <<op.val, op.n>>]
        /\ IF BlockFailed(r)
             THEN GiveUp
             ELSE Goto("alloc", [op EXCEPT !.prev = op.cl, !.cl = 0, !.n = op.n + 1])
  BY DEF WriteBlock
<1>3. data' \in [Cluster -> {Nothing} \cup (Data \X (0 .. MaxLen))]
  BY <1>0, <1>2 DEF IInv, TypeOK
<1>4. CallTyped' /\ CallSound'
  <2>1. CASE BlockFailed(r)
    <3>1. GiveUp
      BY <1>2, <2>1
    <3>. QED
      BY ONLY IInv, <3>1, GiveUpType
  <2>2. CASE ~BlockFailed(r)
    <3>1. pc' = "alloc" /\ op' = [op EXCEPT !.prev = op.cl, !.cl = 0, !.n = op.n + 1]
      BY <1>2, <2>2
    <3>2. 0 \in Dirs
      BY DEF Dirs, Root
    <3>3. op' \in Locals /\ op'.idx \in SlotsOf(op'.blk)
      BY <1>0, <1>1, <3>1, <3>2 DEF Locals
    <3>4. op'.kind = op.kind /\ op'.val = op.val
      BY <1>0, <3>1 DEF Locals
    <3>. QED
      BY <1>0, <3>1, <3>3, <3>4
  <2>. QED
    BY <2>1, <2>2
<1>. QED
  BY <1>3, <1>4 DEF WriteBlock, IInv, TypeOK, Locals, session

(* What a step that changes directory slots has to show.                   *)
LEMMA SlotsType ==
  ASSUME IInv, CallTyped', CallSound', UNCHANGED <<fat, data, cwd, trail>>,
         DOMAIN dirs' = Dirs, \A d \in Dirs : dirs'[d] \in [SlotsOf(d) -> Slot],
         nextHidden' \in BOOLEAN, dirSet' \subseteq Cluster, damage' \subseteq Causes
  PROVE  IInv'
BY DEF IInv, TypeOK, CallTyped, Locals

LEMMA EntrySteps ==
  ASSUME IInv, MkdirBlock \/ SetEntry \/ MarkDeleted
  PROVE  IInv'
<1>. USE DEF Goto, CallTyped, CallSound, BusySteps
<1>0. /\ op \in Locals /\ op.idx \in SlotsOf(op.blk) /\ op.blk \in Dirs /\ op.dir \in Dirs
      /\ op.name \in Names \cup Marks /\ op.first \in Dirs /\ op.n \in 0 .. MaxLen
      /\ damage \subseteq Causes /\ dirSet \subseteq Cluster /\ nextHidden \in BOOLEAN
      /\ op.kind = "write" => op.val \in Data
  BY ReadsTyped DEF Locals, TypeOK, IInv
<1>1. CASE MkdirBlock
  <2>1. /\ op.cl \in Cluster /\ op.cl \in Dirs /\ op.cl # Root
        /\ pc' = "entry" /\ op' = op
    BY <1>1, RootNotCluster DEF MkdirBlock, IInv
  <2>. DEFINE block == [EmptyBlock(op.cl) EXCEPT
                          ![1] = DotSlot(".", op.cl), ![2] = DotSlot("..", Parent)]
  <2>2. block \in [SlotsOf(op.cl) -> Slot]
    <3>1. Mark("end") \in Slot /\ DotSlot(".", op.cl) \in Slot /\ DotSlot("..", Parent) \in Slot
      <4>1. 0 \in Dirs /\ 0 \in 0 .. MaxLen /\ {"end", ".", ".."} \subseteq Names \cup Marks
        BY DEF Dirs, Root, Marks
      <4>2. \A m \in {"end", ".", ".."} : Mark(m) \in Slot
        BY <4>1 DEF Mark, Slot
      <4>3. \A m \in {".", ".."}, d \in Dirs : DotSlot(m, d) \in Slot
        BY <4>1 DEF Mark, DotSlot, Slot
      <4>. QED
        BY <1>0, <2>1, <4>2, <4>3 DEF Parent
    <3>2. EmptyBlock(op.cl) \in [SlotsOf(op.cl) -> Slot]
      BY <3>1 DEF EmptyBlock
    <3>. QED
      BY <3>1, <3>2
  <2>3. PICK r \in Outcome :
          /\ dirs' = IF r = "lost" THEN dirs ELSE [dirs EXCEPT ![op.cl] = block]
          /\ damage' = IF r = "lost" THEN damage \cup {"mkblock"} ELSE damage
    BY <1>1 DEF MkdirBlock
  <2>. HIDE DEF block
  <2>4. DOMAIN dirs' = Dirs /\ \A d \in Dirs : dirs'[d] \in [SlotsOf(d) -> Slot]
    BY <2>1, <2>2, <2>3 DEF IInv, TypeOK
  <2>5. CallTyped' /\ CallSound'
    BY <1>0, <2>1
  <2>6. dirSet' \subseteq Cluster /\ damage' \subseteq Causes
    BY <1>0, <1>1, <2>1, <2>3 DEF MkdirBlock, Causes
  <2>. QED
    BY <1>0, <1>1, <2>4, <2>5, <2>6, SlotsType DEF MkdirBlock, session
<1>2. CASE SetEntry
  <2>1. NewEntry \in Slot
    BY <1>0 DEF NewEntry, Slot
  <2>2. PICK r \in Outcome :
          /\ SetSlot(op.blk, op.idx, NewEntry, r)
          /\ IF r = "lost" THEN Abandon({}) ELSE Return /\ UNCHANGED damage
    BY <1>2 DEF SetEntry
  <2>3. DOMAIN dirs' = Dirs /\ \A d \in Dirs : dirs'[d] \in [SlotsOf(d) -> Slot]
    BY <1>0, <2>1, <2>2, SetSlotType DEF IInv
  <2>4. CallTyped' /\ CallSound' /\ damage' \subseteq Causes
    <3>1. CASE r = "lost"
      <4>1. Abandon({})
        BY <2>2, <3>1
      <4>. QED
        BY <4>1, AbandonType DEF IInv
    <3>2. CASE r # "lost"
      <4>1. Return /\ UNCHANGED damage
        BY <2>2, <3>2
      <4>2. CallTyped' /\ CallSound'
        BY ONLY <4>1, ReturnTyped
      <4>. QED
        BY ONLY <1>0, <4>1, <4>2
    <3>. QED
      BY <3>1, <3>2
  <2>5. nextHidden' \in BOOLEAN
    BY <1>0, <1>2 DEF SetEntry, HiddenAfterEntry
  <2>. QED
    BY <1>0, <1>2, <2>3, <2>4, <2>5, SlotsType DEF SetEntry
<1>3. CASE MarkDeleted
  <2>1. Mark("deleted") \in Slot
    BY RootNotCluster DEF Mark, Slot, Marks, Root
  <2>2. PICK r \in Outcome :
          /\ SetSlot(op.blk, op.idx, Mark("deleted"), r)
          /\ IF r = "ok" THEN Goto("free", op) ELSE Return
    BY <1>3 DEF MarkDeleted
  <2>3. DOMAIN dirs' = Dirs /\ \A d \in Dirs : dirs'[d] \in [SlotsOf(d) -> Slot]
    BY <1>0, <2>1, <2>2, SetSlotType DEF IInv
  <2>4. CallTyped' /\ CallSound'
    <3>1. CASE r = "ok"
      <4>1. pc' = "free" /\ op' = op
        BY <2>2, <3>1
      <4>. QED
        BY <1>0, <4>1
    <3>2. CASE r # "ok"
      <4>1. Return
        BY <2>2, <3>2
      <4>. QED
        BY ONLY <4>1, ReturnTyped
    <3>. QED
      BY <3>1, <3>2
  <2>. QED
    BY <1>0, <1>3, <2>3, <2>4, SlotsType DEF MarkDeleted, session
<1>. QED
  BY <1>1, <1>2, <1>3

(* A reset.                                                                *)
LEMMA CrashStep == ASSUME IInv, Crash PROVE IInv'
<1>1. CallTyped' /\ CallSound'
  <2>1. Return
    BY DEF Crash
  <2>. QED
    BY ONLY <2>1, ReturnTyped
<1>2. cwd' \in Dirs /\ trail' \in Seq(Dirs) /\ nextHidden' \in BOOLEAN
  <2>1. /\ cwd' = Root /\ trail' = <<>> /\ nextHidden' = FALSE
        /\ Root \in Dirs /\ <<>> \in Seq(Dirs)
    BY DEF Crash, Dirs
  <2>. QED
    BY ONLY <2>1
<1>3. damage' \subseteq Causes
  BY DEF Crash, Causes, IInv, TypeOK
<1>. QED
  BY <1>1, <1>2, <1>3 DEF Crash, disk, IInv, TypeOK, CallTyped, Locals

-----------------------------------------------------------------------------
LEMMA StepIInv == IInv /\ [Next]_vars => IInv'
<1>. SUFFICES ASSUME IInv, [Next]_vars PROVE IInv'
  OBVIOUS
<1>1. CASE Calls
  BY <1>1, CallSteps
<1>2. CASE Steps
  <2>1. CASE FindHit \/ FindEnd \/ FindOn \/ FindNone \/ SlotHit \/ SlotOn \/ SlotNone
    BY <2>1, LookUpSteps
  <2>2. CASE ExtendWalk \/ ExtendLink \/ ExtendFails \/ ExtendSeal \/ ExtendZero
    BY <2>2, ExtendSteps
  <2>3. CASE FreeOne \/ FreeReadError \/ FreeDone
    BY <2>3, FreeSteps
  <2>4. CASE AllocCluster \/ AllocFails \/ LinkCluster \/ Seal
    BY <2>4, AllocSteps
  <2>5. CASE WriteBlock
    BY <2>5, WriteBlockStep
  <2>6. CASE MkdirBlock \/ SetEntry \/ MarkDeleted
    BY <2>6, EntrySteps
  <2>. QED
    BY ONLY <1>2, <2>1, <2>2, <2>3, <2>4, <2>5, <2>6 DEF Steps
<1>3. CASE Crash
  BY <1>3, CrashStep
<1>4. CASE UNCHANGED vars
  BY <1>4 DEF vars, IInv, TypeOK, CallSound
<1>. QED
  BY <1>1, <1>2, <1>3, <1>4 DEF Next

(* The inductive invariant: besides the ranges of TypeOK, each step of a   *)
(* call finds the locals that its earlier steps have set: the cluster to   *)
(* link, write or clear, the one to link it behind, and a write that still *)
(* has data left.                                                          *)
THEOREM Invariance == Spec => []IInv
BY InitIInv, StepIInv, PTL DEF Spec

(* TypeOK: whatever calls are made, whichever of their disk accesses fail  *)
(* and wherever the machine is reset, no step of the driver writes a value *)
(* into the FAT that is not a cluster of the volume, free or the end mark, *)
(* or follows one to a cluster outside it, or leaves a slot that names     *)
(* one, or enters a directory or fills a slot outside the volume.          *)
THEOREM TypeCorrect == Spec => []TypeOK
BY Invariance, PTL DEF IInv

-----------------------------------------------------------------------------
LEMMA Numbers ==
  /\ Root = 0 /\ Free = 0 /\ Root \notin Cluster /\ EOF \notin Dirs /\ Free # EOF
  /\ Dirs = Cluster \cup {Root} /\ \A d : 1 \in SlotsOf(d)
  /\ \A d \in Cluster : 2 \in SlotsOf(d)
  /\ {"end", "deleted", ".", ".."} \cap Names = {}
BY SlotsFinite DEF Root, Free, Cluster, EOF, Dirs, Marks, SlotsOf

LEMMA FieldsTyped ==
  ASSUME IInv
  PROVE  /\ op.kind \in {"none"} \cup Kinds /\ op.dir \in Dirs /\ op.name \in Names \cup Marks
         /\ op.at \in Dirs /\ op.found \in {"none", "hit", "end"} /\ op.blk \in Dirs
         /\ op.idx \in SlotsOf(op.blk) /\ op.old \in Dirs /\ op.cur \in Dirs /\ op.first \in Dirs
         /\ op.prev \in Dirs /\ op.cl \in Dirs /\ op.n \in Nat /\ op.len \in Nat /\ op.failed \in BOOLEAN
         /\ op.extended \in BOOLEAN
BY LenAssumption DEF IInv, TypeOK

LEMMA DiskTyped ==
  ASSUME IInv
  PROVE  /\ \A c \in Cluster : fat[c] \in {Free, EOF} \cup Cluster
         /\ \A b \in Dirs : \A i \in SlotsOf(b) :
              /\ dirs[b][i].name \in Names \cup Marks /\ dirs[b][i].first \in Dirs
              /\ dirs[b][i].dir \in BOOLEAN
         /\ dirSet \subseteq Cluster /\ cwd \in Dirs /\ trail \in Seq(Dirs) /\ Len(trail) \in Nat
<1>1. \A b \in Dirs : \A i \in SlotsOf(b) : dirs[b][i] \in Slot
  BY ReadsTyped DEF IInv
<1>2. trail \in Seq(Dirs)
  BY DEF IInv, TypeOK
<1>. QED
  BY <1>1, <1>2, LenProperties, ReadsTyped DEF IInv, Slot, TypeOK

(* Damage is never repaired, so a step to an undamaged volume starts from  *)
(* one.                                                                    *)
LEMMA DamageStays == ASSUME Next, Undamaged' PROVE Undamaged /\ damage \subseteq damage'
<1>1. damage \subseteq damage'
  <2>1. ASSUME NEW o, Call(o) PROVE damage' = damage
    BY <2>1 DEF Call
  <2>2. CASE Calls
    BY <2>1, <2>2, Zenon DEF Calls, WriteFile, WriteUsers, DeleteFile, Mkdir, Cd, CdUp
  <2>3. ASSUME NEW causes, Abandon(causes) PROVE damage \subseteq damage'
    BY <2>3 DEF Abandon
  <2>4. CASE FindHit \/ FindEnd \/ FindOn \/ FindNone \/ SlotHit \/ SlotOn \/ SlotNone
    BY <2>3, <2>4 DEF FindHit, FindEnd, FindOn, FindNone, SlotHit, SlotOn, SlotNone
  <2>5. CASE ExtendWalk \/ ExtendFails \/ ExtendSeal \/ ExtendZero
    BY <2>3, <2>5 DEF ExtendWalk, ExtendFails, ExtendSeal, ExtendZero
  <2>6. CASE ExtendLink
    BY <2>3, <2>6 DEF ExtendLink, Outcome
  <2>7. CASE FreeOne \/ FreeReadError \/ FreeDone
    BY <2>3, <2>7 DEF FreeOne, FreeReadError, FreeDone
  <2>8. CASE AllocCluster \/ AllocFails \/ LinkCluster \/ WriteBlock \/ Seal
    BY <2>8 DEF AllocCluster, AllocFails, LinkCluster, WriteBlock, Seal
  <2>9. CASE MkdirBlock \/ SetEntry \/ MarkDeleted \/ Crash
    BY <2>3, <2>9 DEF MkdirBlock, SetEntry, MarkDeleted, Crash
  <2>. QED
    BY <2>2, <2>4, <2>5, <2>6, <2>7, <2>8, <2>9 DEF Next, Steps
<1>. QED
  BY <1>1 DEF Undamaged

-----------------------------------------------------------------------------
(* What a step leaves of the locals.                                       *)
SameCall == op'.kind = op.kind /\ op'.dir = op.dir /\ op'.name = op.name
SameSlot == op'.found = op.found /\ op'.blk = op.blk /\ op'.idx = op.idx /\ op'.old = op.old
SameChain == op'.first = op.first /\ op'.prev = op.prev /\ op'.n = op.n /\ op'.failed = op.failed

Replacing == op.kind = "write" /\ op.found = "hit"
SameVacated == \/ SameCall /\ SameSlot
               \/ ~Replacing /\ ~Replacing'

LEMMA VacatedKept == SameVacated => \A b, i : Vacated(b, i)' <=> Vacated(b, i)
BY DEF SameVacated, SameCall, SameSlot, Replacing, Vacated

LEMMA LiveKept ==
  ASSUME UNCHANGED <<dirs, dirSet>>, SameVacated
  PROVE  /\ \A b, i : Live(b, i)' <=> Live(b, i)
         /\ \A c, b, i : Heads(c, b, i)' <=> Heads(c, b, i)
         /\ \A c : Unnamed(c)' <=> Unnamed(c)
<1>1. \A b, i : Vacated(b, i)' <=> Vacated(b, i)
  BY VacatedKept
<1>2. \A b, i : Live(b, i)' <=> Live(b, i)
  BY <1>1 DEF Live, Used, DirBlocks
<1>3. \A c, b, i : Heads(c, b, i)' <=> Heads(c, b, i)
  BY <1>2 DEF Heads
<1>. QED
  BY <1>2, <1>3 DEF Unnamed

(* Steps that leave disk and session alone disturb nothing on the disk.    *)
LEMMA OnDiskKept ==
  ASSUME NEW own \in Owners, OnDisk(own), UNCHANGED <<fat, dirs, dirSet, cwd, trail>>,
         pc \notin Extends, \A b, i : Live(b, i)' <=> Live(b, i)
  PROVE  OnDisk(own)'
<1>. USE DEF OnDisk
<1>1. Chained(own)'
  BY DEF Chained, Extends, Extending
<1>2. Headed'
  BY DEF Headed, DirBlocks
<1>3. \A s, b : NamesChain(s, b, own)' <=> NamesChain(s, b, own)
  BY DEF NamesChain, Unpointed
<1>4. Named(own)'
  BY <1>3 DEF Named
<1>5. Entered(own)'
  <2>1. \A i : Above(i)' = Above(i)
    BY DEF Above
  <2>2. \A c, b, i : Heads(c, b, i)' <=> Heads(c, b, i)
    BY DEF Heads
  <2>3. \A i : NamedAbove(i, own)' <=> NamedAbove(i, own)
    BY <2>1, <2>2 DEF NamedAbove
  <2>. QED
    BY <2>1, <2>3 DEF Entered
<1>. QED
  BY <1>1, <1>2, <1>4, <1>5

(* Between calls nothing is known of locals.                               *)
LEMMA ReturnInCall == ASSUME Return, NEW own \in Owners PROVE InCall(own)' /\ ~Replacing'
<1>1. pc' = "idle" /\ op'.found = "none"
  BY DEF Return, Goto, NoOp
<1>2. Asked' /\ Searches(own)' /\ Place(own)'
  BY <1>1 DEF Asked, Searches, Place, Searching, Extends, Building
<1>3. OldChain(own)' /\ NewChain(own)' /\ ~Replacing'
  BY <1>1 DEF OldChain, NewChain, Extends, Building, Replacing
<1>. QED
  BY <1>2, <1>3 DEF InCall

(* A call that was not replacing a file returns, or the slot it was to     *)
(* replace names no chain.                                                 *)
LEMMA QuietReturn ==
  ASSUME IInv, NEW own \in Owners, Volume(own), Return,
         UNCHANGED <<fat, dirs, dirSet, cwd, trail>>, pc \notin Extends,
         ~Replacing \/ (pc \in Building \cup {"free"} /\ op.old \notin Cluster)
  PROVE  Volume(own)'
<1>1. \A b, i : Live(b, i)' <=> Live(b, i)
  <2>1. CASE ~Replacing
    BY <2>1, LiveKept, ReturnInCall DEF SameVacated
  <2>2. CASE Replacing /\ pc \in Building \cup {"free"} /\ op.old \notin Cluster
    <3>1. dirs[op.blk][op.idx].first = 0
      BY <2>2, FieldsTyped, Numbers DEF Volume, InCall, Place, Replacing
    <3>2. \A b, i : Vacated(b, i) => ~Used(b, i)
      BY <3>1 DEF Vacated, Used
    <3>3. \A b, i : ~Vacated(b, i)'
      BY ReturnInCall DEF Vacated, Replacing
    <3>. QED
      BY <3>2, <3>3 DEF Live, Used, DirBlocks
  <2>. QED
    BY <2>1, <2>2
<1>. QED
  BY <1>1, OnDiskKept, ReturnInCall DEF Volume

(* What such a step leaves unchanged for the call that goes on.            *)
LEMMA QuietKept ==
  ASSUME NEW own \in Owners, OnDisk(own), UNCHANGED <<fat, dirs, dirSet, cwd, trail>>,
         pc \notin Extends, SameVacated
  PROVE  /\ OnDisk(own)' /\ DirBlocks' = DirBlocks
         /\ \A c : /\ Alone(c)' <=> Alone(c)
                   /\ Unpointed(c)' <=> Unpointed(c)
                   /\ Unnamed(c)' <=> Unnamed(c)
         /\ \A s, b : NamesChain(s, b, own)' <=> NamesChain(s, b, own)
<1>1. \A c : Unnamed(c)' <=> Unnamed(c)
  BY LiveKept
<1>2. \A c : Unpointed(c)' <=> Unpointed(c)
  BY DEF Unpointed
<1>3. \A c : Alone(c)' <=> Alone(c)
  BY <1>1, <1>2 DEF Alone
<1>4. \A s, b : NamesChain(s, b, own)' <=> NamesChain(s, b, own)
  BY <1>2 DEF NamesChain
<1>5. OnDisk(own)'
  BY LiveKept, OnDiskKept
<1>. QED
  BY <1>1, <1>2, <1>3, <1>4, <1>5 DEF DirBlocks

-----------------------------------------------------------------------------
(* The current directory heads its own chain and its ".." slot leads to    *)
(* the one entered before it.                                              *)
LEMMA CurrentSound ==
  ASSUME IInv, NEW own \in Owners, OnDisk(own)
  PROVE  /\ cwd \in DirBlocks /\ own[cwd] = cwd
         /\ cwd # Root => /\ Len(trail) >= 1 /\ cwd = trail[Len(trail)]
                          /\ dirs[cwd][2].first = Above(Len(trail))
<1>1. /\ cwd = Above(Len(trail) + 1) /\ Len(trail) \in Nat /\ own[Root] = Root
      /\ \A i \in 1 .. Len(trail) : trail[i] \in dirSet /\ NamedAbove(i, own)
  BY DiskTyped DEF OnDisk, Entered, Chained
<1>2. CASE Len(trail) = 0
  BY <1>1, <1>2 DEF Above, DirBlocks
<1>3. CASE Len(trail) # 0
  <2>. DEFINE n == Len(trail)
  <2>1. n \in 1 .. Len(trail) /\ cwd = trail[n]
    BY <1>1, <1>3 DEF Above
  <2>2. PICK b \in Dirs : \E j \in SlotsOf(b) : Heads(trail[n], b, j) /\ own[b] = Above(n)
    BY <1>1, <2>1 DEF NamedAbove
  <2>3. PICK j \in SlotsOf(b) : Heads(trail[n], b, j)
    BY <2>2
  <2>4. Live(b, j) /\ dirs[b][j].first = cwd /\ cwd \in dirSet
    BY <1>1, <2>1, <2>3 DEF Heads
  <2>5. NamesChain(dirs[b][j], b, own)
    BY <2>4 DEF OnDisk, Named
  <2>. QED
    BY <1>3, <2>1, <2>2, <2>4, <2>5, <1>1 DEF NamesChain, DirBlocks
<1>. QED
  BY <1>2, <1>3

LEMMA HomeSound ==
  ASSUME IInv, NEW own \in Owners, Volume(own), pc # "idle"
  PROVE  op.dir \in DirBlocks /\ own[op.dir] = op.dir
BY CurrentSound DEF Volume, InCall, Asked, OnDisk, Chained, DirBlocks

(* What is named in the current directory was not entered.                 *)
LEMMA NotEntered ==
  ASSUME IInv, NEW own \in Owners, OnDisk(own),
         NEW b \in Dirs, NEW i \in SlotsOf(b), Live(b, i), own[b] = cwd,
         NEW k \in 1 .. Len(trail)
  PROVE  trail[k] # dirs[b][i].first
<1>. SUFFICES ASSUME trail[k] = dirs[b][i].first PROVE FALSE
  OBVIOUS
<1>1. /\ cwd = Above(Len(trail) + 1) /\ Len(trail) \in Nat
      /\ \A m, n \in 1 .. Len(trail) : trail[m] = trail[n] => m = n
      /\ \A n \in 1 .. Len(trail) : trail[n] \in dirSet /\ NamedAbove(n, own)
  BY DiskTyped DEF OnDisk, Entered
<1>2. PICK c \in Dirs : \E j \in SlotsOf(c) : Heads(trail[k], c, j) /\ own[c] = Above(k)
  BY <1>1 DEF NamedAbove
<1>3. PICK j \in SlotsOf(c) : Heads(trail[k], c, j)
  BY <1>2
<1>4. Live(c, j) /\ dirs[c][j].first = dirs[b][i].first
  BY <1>3 DEF Heads
<1>5. c = b
  BY <1>4 DEF OnDisk, Named
<1>6. Above(k) = Above(Len(trail) + 1)
  BY <1>1, <1>2, <1>5
<1>7. Above(Len(trail) + 1) = trail[Len(trail)] /\ Len(trail) \in 1 .. Len(trail)
  BY <1>1 DEF Above
<1>8. Root \notin dirSet
  BY DiskTyped, Numbers
<1>9. k # 1
  BY <1>1, <1>6, <1>7, <1>8 DEF Above
<1>10. Above(k) = trail[k - 1] /\ k - 1 \in 1 .. Len(trail)
  BY <1>9 DEF Above
<1>. QED
  BY <1>1, <1>6, <1>7, <1>10

-----------------------------------------------------------------------------
LEMMA CallsSound ==
  ASSUME IInv, NEW own \in Owners, Volume(own), Calls
  PROVE  Volume(own)'
<1>1. OnDisk(own) /\ InCall(own)
  BY DEF Volume
<1>2. cwd \in DirBlocks /\ own[cwd] = cwd /\ own[Root] = Root /\ Root \in DirBlocks
  BY <1>1, CurrentSound DEF OnDisk, Chained, DirBlocks
<1>3. ASSUME NEW o, Call(o), o.kind \in Kinds, o.name \in Names, o.dir \in {Root, cwd},
             o.kind # "write" => o.dir = cwd, o.found = "none", o.n = 0, o.first = 0, o.prev = 0,
             o.failed = FALSE, o \in Locals
      PROVE  Volume(own)'
  <2>1. /\ pc = "idle" /\ pc' = "find" /\ op'.at = o.dir /\ op'.kind = o.kind /\ op'.name = o.name
        /\ op'.dir = o.dir /\ op'.found = "none"
        /\ op'.n = 0 /\ op'.first = 0 /\ op'.prev = 0 /\ op'.failed = FALSE
        /\ UNCHANGED <<fat, dirs, dirSet, cwd, trail>>
    BY <1>3 DEF Call, Goto, disk, Locals
  <2>2. ~Replacing /\ ~Replacing'
    BY <1>1, <2>1 DEF Replacing, InCall, OldChain
  <2>3. OnDisk(own)' /\ DirBlocks' = DirBlocks
    BY <1>1, <2>1, <2>2, QuietKept DEF Extends, SameVacated
  <2>4. Asked'
    BY <1>3, <2>1 DEF Asked
  <2>5. Searches(own)'
    BY <1>2, <1>3, <2>1, <2>3 DEF Searches, Fresh, Extends, Searching
  <2>6. Place(own)' /\ OldChain(own)' /\ NewChain(own)'
    BY <2>1 DEF Place, OldChain, NewChain, Extends, Building
  <2>. QED
    BY <2>3, <2>4, <2>5, <2>6 DEF Volume, InCall
<1>4. /\ NoOp \in Locals /\ NoOp.found = "none" /\ NoOp.n = 0 /\ NoOp.first = 0 /\ NoOp.prev = 0
      /\ NoOp.failed = FALSE /\ NoOp.dir = Root /\ UsersDat \in Names /\ cwd \in Dirs
  BY NoOpTyped, DiskTyped DEF NoOp
<1>5. ASSUME NEW name \in Names, NEW val \in Data, NEW len \in 0 .. MaxLen,
             WriteFile(name, val, len)
      PROVE  Volume(own)'
  <2>. DEFINE o == [NoOp EXCEPT !.kind = "write", !.dir = cwd, !.name = name, !.val = val, !.len = len]
  <2>1. o \in Locals /\ o.kind = "write" /\ o.name = name /\ o.dir = cwd /\ o.found = "none"
        /\ o.n = 0 /\ o.first = 0 /\ o.prev = 0 /\ o.failed = FALSE
    BY <1>4 DEF Locals, Kinds
  <2>2. Call(o)
    BY <1>5 DEF WriteFile
  <2>. HIDE DEF o
  <2>. QED
    BY <1>3, <2>1, <2>2 DEF Kinds
<1>6. ASSUME NEW val \in Data, NEW len \in 1 .. MaxLen, WriteUsers(val, len)
      PROVE  Volume(own)'
  <2>. DEFINE o == [NoOp EXCEPT !.kind = "write", !.name = UsersDat, !.val = val, !.len = len]
  <2>1. len \in 0 .. MaxLen
    OBVIOUS
  <2>2. o \in Locals /\ o.kind = "write" /\ o.name = UsersDat /\ o.dir = Root /\ o.found = "none"
        /\ o.n = 0 /\ o.first = 0 /\ o.prev = 0 /\ o.failed = FALSE
    BY <1>4, <2>1 DEF Locals, Kinds
  <2>3. Call(o)
    BY <1>6 DEF WriteUsers
  <2>. HIDE DEF o
  <2>. QED
    BY <1>3, <1>4, <2>2, <2>3 DEF Kinds
<1>7. ASSUME NEW name \in Names, NEW k \in Kinds,
             Call([NoOp EXCEPT !.kind = k, !.dir = cwd, !.name = name])
      PROVE  Volume(own)'
  <2>. DEFINE o == [NoOp EXCEPT !.kind = k, !.dir = cwd, !.name = name]
  <2>1. o \in Locals /\ o.kind = k /\ o.name = name /\ o.dir = cwd /\ o.found = "none"
        /\ o.n = 0 /\ o.first = 0 /\ o.prev = 0 /\ o.failed = FALSE
    BY <1>4 DEF Locals
  <2>2. Call(o)
    BY <1>7
  <2>. HIDE DEF o
  <2>. QED
    BY <1>3, <2>1, <2>2
<1>8. CASE CdUp
  <2>1. UNCHANGED <<fat, dirs, dirSet, pc, op>> /\ pc = "idle" /\ cwd # Root
    BY <1>8 DEF CdUp, disk
  <2>2. CASE UNCHANGED <<cwd, trail>>
    <3>1. OnDisk(own)'
      BY <1>1, <2>1, <2>2, QuietKept DEF SameVacated, SameCall, SameSlot, Extends
    <3>2. InCall(own)'
      BY <1>1, <2>1, <2>2 DEF InCall, Asked, Searches, Place, OldChain, NewChain, Searching, Extends, Building
    <3>. QED
      BY <3>1, <3>2 DEF Volume
  <2>3. CASE cwd' = dirs[cwd][2].first /\ trail' = SubSeq(trail, 1, Len(trail) - 1)
    <3>. DEFINE n == Len(trail)
    <3>1. n \in Nat /\ n >= 1 /\ cwd' = Above(n) /\ trail \in Seq(Dirs)
      BY <1>1, <2>1, <2>3, CurrentSound, DiskTyped
    <3>2. Len(trail') = n - 1 /\ \A i \in 1 .. n - 1 : trail'[i] = trail[i]
      <4>1. 1 \in 1 .. n + 1 /\ n - 1 \in 0 .. n /\ n - 1 \in Int
        BY <3>1
      <4>. HIDE DEF n
      <4>2. trail' = SubSeq(trail, 1, n - 1)
        BY <2>3 DEF n
      <4>3. Len(SubSeq(trail, 1, n - 1)) = n - 1 /\ \A i \in 1 .. n - 1 : SubSeq(trail, 1, n - 1)[i] = trail[i]
        <5>1. \A i \in 1 .. n - 1 : trail[i] \in Dirs
          BY <3>1, <4>1 DEF n
        <5>2. /\ Len(SubSeq(trail, 1, n - 1)) = IF 1 <= n - 1 THEN (n - 1) - 1 + 1 ELSE 0
              /\ \A i \in 1 .. (n - 1) - 1 + 1 : SubSeq(trail, 1, n - 1)[i] = trail[1 + i - 1]
          BY <4>1, <5>1, SubSeqProperties
        <5>. QED
          <6>1. \A i \in 1 .. n - 1 : 1 + i - 1 = i
            BY <3>1
          <6>. QED
            BY <3>1, <5>2, <6>1
      <4>. QED
        BY <4>2, <4>3
    <3>3. \A i \in 1 .. n : Above(i)' = Above(i)
      BY <3>1, <3>2 DEF Above
    <3>4. \A c, b, i : Heads(c, b, i)' <=> Heads(c, b, i)
      BY <2>1, LiveKept DEF SameVacated, SameCall, SameSlot
    <3>5. \A i \in 1 .. n - 1 : NamedAbove(i, own)' <=> NamedAbove(i, own)
      BY <3>1, <3>2, <3>3, <3>4 DEF NamedAbove
    <3>6. Entered(own)'
      <4>1. cwd' = Above(Len(trail) + 1)'
        BY <3>1, <3>2, <3>3
      <4>2. \A i, j \in 1 .. n - 1 : trail'[i] = trail'[j] => i = j
        BY <1>1, <3>1, <3>2 DEF OnDisk, Entered
      <4>3. \A i \in 1 .. n - 1 : trail'[i] \in dirSet' /\ NamedAbove(i, own)'
        BY <1>1, <2>1, <3>1, <3>2, <3>5 DEF OnDisk, Entered
      <4>. QED
        BY <3>2, <4>1, <4>2, <4>3 DEF Entered
    <3>7. Chained(own)' /\ Headed'
      BY <1>1, <2>1 DEF OnDisk, Chained, Headed, Extending, DirBlocks
    <3>8. Named(own)'
      <4>1. \A s, b : NamesChain(s, b, own)' <=> NamesChain(s, b, own)
        BY <2>1 DEF NamesChain, Unpointed
      <4>2. \A b, i : Live(b, i)' <=> Live(b, i)
        BY <2>1, LiveKept DEF SameVacated, SameCall, SameSlot
      <4>. QED
        BY <1>1, <2>1, <4>1, <4>2 DEF OnDisk, Named
    <3>9. InCall(own)'
      <4>1. op.found # "hit"
        BY <1>1, <2>1 DEF InCall, OldChain
      <4>. QED
        BY <2>1, <4>1 DEF InCall, Asked, Searches, Place, OldChain, NewChain, Searching, Extends, Building
    <3>. QED
      BY <3>6, <3>7, <3>8, <3>9 DEF Volume, OnDisk
  <2>. QED
    BY <1>8, <2>2, <2>3 DEF CdUp
<1>. QED
  BY <1>5, <1>6, <1>7, <1>8, Zenon DEF Calls, DeleteFile, Mkdir, Cd, Kinds

-----------------------------------------------------------------------------
(* fat16_dir_find meets the name.                                          *)
LEMMA FindHitSound ==
  ASSUME IInv, NEW own \in Owners, Volume(own), FindHit, Undamaged'
  PROVE  Volume(own)'
<1>1. /\ OnDisk(own) /\ InCall(own) /\ pc = "find"
      /\ op.at \in DirBlocks /\ own[op.at] = op.dir /\ op.found # "hit" /\ Fresh
      /\ op.kind \in Kinds /\ op.name \in Names /\ op.dir \in {Root, cwd}
      /\ op.kind # "write" => op.dir = cwd
  BY DEF Volume, InCall, Searches, Asked, Searching, FindHit
<1>2. /\ FirstStop \in SlotsOf(op.at) /\ Found = dirs[op.at][FirstStop] /\ Found.name = op.name
      /\ op.at \in Dirs /\ Found.first \in Dirs /\ UNCHANGED <<fat, dirs, dirSet>>
  BY StopIsSlot, FieldsTyped, DiskTyped DEF FindHit, Found, disk
<1>3. ~Replacing /\ \A b, i : Live(b, i) <=> Used(b, i)
  BY <1>1 DEF Replacing, Live, Vacated
<1>4. Found.first # 0 => Live(op.at, FirstStop) /\ NamesChain(Found, op.at, own)
  <2>. SUFFICES ASSUME Found.first # 0 PROVE Live(op.at, FirstStop) /\ NamesChain(Found, op.at, own)
    OBVIOUS
  <2>1. Live(op.at, FirstStop)
    BY <1>1, <1>2, <1>3 DEF Used
  <2>. QED
    BY <1>1, <1>2, <2>1 DEF OnDisk, Named
<1>5. Root = 0 /\ Root \notin dirSet /\ Root \notin Cluster /\ dirSet \subseteq Cluster
      /\ \A i \in 1 .. Len(trail) : trail[i] \in dirSet
  BY <1>1, DiskTyped, Numbers DEF OnDisk, Entered
<1>6. op.kind # "write" => \A i \in 1 .. Len(trail) : trail[i] # Found.first
  <2>. SUFFICES ASSUME op.kind # "write", NEW i \in 1 .. Len(trail) PROVE trail[i] # Found.first
    OBVIOUS
  <2>1. CASE Found.first = 0
    BY <1>5, <2>1
  <2>2. CASE Found.first # 0
    <3>1. trail[i] # dirs[op.at][FirstStop].first
      BY <1>1, <1>2, <1>4, <2>2, NotEntered
    <3>. QED
      BY <1>2, <3>1
  <2>. QED
    BY <2>1, <2>2
<1>. DEFINE hit == [op EXCEPT !.found = "hit", !.blk = op.at, !.idx = FirstStop,
                              !.old = Found.first, !.cur = Found.first]
<1>11. PICK h, at, k : h = Found.first /\ at = op.at /\ k = FirstStop
  OBVIOUS
<1>7. /\ hit.kind = op.kind /\ hit.dir = op.dir /\ hit.name = op.name /\ hit.found = "hit"
      /\ hit.blk = op.at /\ hit.idx = FirstStop /\ hit.old = Found.first /\ hit.cur = Found.first
      /\ hit.n = op.n /\ hit.first = op.first /\ hit.prev = op.prev /\ hit.failed = op.failed
  BY ReadsTyped DEF IInv, Locals
<1>8. CASE op.kind = "write"
  <2>1. pc' = "free" /\ op' = hit /\ UNCHANGED <<cwd, trail>>
        /\ \A i \in 1 .. Len(trail) : trail[i] # Found.first
    BY <1>8 DEF FindHit, Goto, Undamaged
  <2>. HIDE DEF hit
  <2>2. \A b, i : Live(b, i)' <=> Live(b, i) /\ ~(b = op.at /\ i = FirstStop)
    BY <1>2, <1>3, <1>7, <1>8, <2>1 DEF Live, Used, Vacated, DirBlocks
  <2>3. \A s, b : NamesChain(s, b, own)' <=> NamesChain(s, b, own)
    BY <1>2 DEF NamesChain, Unpointed
  <2>4. Chained(own)' /\ Headed'
    BY <1>1, <1>2, <2>1 DEF OnDisk, Chained, Headed, Extending, DirBlocks
  <2>5. Named(own)'
    BY <1>1, <1>2, <2>2, <2>3 DEF OnDisk, Named
  <2>6. Entered(own)'
    <3>1. ASSUME NEW i \in 1 .. Len(trail) PROVE NamedAbove(i, own)'
      <4>1. PICK b \in Dirs : \E j \in SlotsOf(b) : Heads(trail[i], b, j) /\ own[b] = Above(i)
        BY <1>1 DEF OnDisk, Entered, NamedAbove
      <4>2. PICK j \in SlotsOf(b) : Heads(trail[i], b, j)
        BY <4>1
      <4>3. Heads(trail[i], b, j)'
        BY <1>2, <2>1, <2>2, <4>2 DEF Heads
      <4>. QED
        BY <2>1, <4>1, <4>3 DEF NamedAbove, Above
    <3>. QED
      BY <1>1, <1>2, <2>1, <3>1 DEF OnDisk, Entered, Above
  <2>7. Alone(h)'
    <3>. SUFFICES ASSUME h \in Cluster PROVE Alone(h)'
      BY DEF Alone
    <3>1. Live(op.at, FirstStop) /\ NamesChain(Found, op.at, own)
      BY <1>4, <1>5, <1>11
    <3>2. \A b \in Dirs : \A i \in SlotsOf(b) :
             Live(b, i) /\ dirs[b][i].first = Found.first => b = op.at /\ i = FirstStop
      BY <1>1, <1>2, <3>1 DEF OnDisk, Named
    <3>3. Unnamed(h)'
      BY <1>2, <1>11, <2>2, <3>2 DEF Unnamed, Heads
    <3>. QED
      BY <1>2, <1>11, <3>1, <3>3 DEF Alone, NamesChain, Unpointed
  <2>8. Asked' /\ Searches(own)'
    BY <1>1, <1>7, <1>8, <2>1 DEF Asked, Searches, Fresh, Extends, Searching
  <2>9. Place(own)'
    BY <1>1, <1>2, <1>7, <2>1 DEF Place, DirBlocks
  <2>10. OldChain(own)'
    <3>1. Found.first \in Cluster => NamesChain(Found, op.at, own)
      BY <1>4, <1>5
    <3>2. h \in Cluster => NamesChain(dirs[at][k], at, own)'
      BY <1>2, <1>11, <2>3, <3>1
    <3>3. op'.cur = h /\ op'.old = h /\ op'.found = "hit" /\ op'.kind = "write" /\ ~op'.failed
          /\ op'.blk = at /\ op'.idx = k /\ pc' = "free"
      BY <1>1, <1>7, <1>8, <1>11, <2>1 DEF Fresh
    <3>4. h \in dirSet => own[h] = h
      BY <1>5, <1>11, <3>1 DEF NamesChain
    <3>5. h \in Cluster => Unpointed(h)'
      BY <2>7 DEF Alone
    <3>. QED
      BY <1>2, <1>11, <2>1, <2>7, <3>2, <3>3, <3>4, <3>5 DEF OldChain
  <2>11. NewChain(own)'
    BY <2>1 DEF NewChain, Building
  <2>. QED
    BY <2>4, <2>5, <2>6, <2>8, <2>9, <2>10, <2>11 DEF Volume, OnDisk, InCall
<1>9. CASE op.kind = "delete"
  <2>1. pc' = "mark" /\ op' = hit /\ UNCHANGED <<cwd, trail>>
    BY <1>9 DEF FindHit, Goto
  <2>. HIDE DEF hit
  <2>2. SameVacated
    BY <1>3, <1>7, <1>9, <2>1 DEF SameVacated, Replacing
  <2>3. OnDisk(own)' /\ DirBlocks' = DirBlocks
    BY <1>1, <1>2, <2>1, <2>2, QuietKept DEF Extends
  <2>4. Asked' /\ Searches(own)'
    BY <1>1, <1>7, <1>9, <2>1 DEF Asked, Searches, Fresh, Extends, Searching
  <2>5. Place(own)'
    BY <1>1, <1>2, <1>7, <2>1, <2>3 DEF Place
  <2>6. OldChain(own)' /\ NewChain(own)'
    BY <1>6, <1>7, <1>9, <2>1 DEF OldChain, NewChain, Building
  <2>. QED
    BY <2>3, <2>4, <2>5, <2>6 DEF Volume, InCall
<1>10. CASE op.kind \in {"cd", "mkdir"}
  <2>1. Return
    BY <1>10 DEF FindHit
  <2>2. CASE UNCHANGED <<cwd, trail>>
    BY <1>1, <1>2, <1>3, <2>1, <2>2, QuietReturn DEF Extends
  <2>3. CASE op.kind = "cd" /\ Found.dir /\ cwd' = Found.first /\ trail' = Append(trail, Found.first)
    <3>. PICK n : n = Len(trail)
      OBVIOUS
    <3>1. Found.first # 0
      BY <1>1, <1>2, <2>3 DEF OnDisk, Headed
    <3>2. Found.first \in dirSet
      BY <1>4, <2>3, <3>1 DEF NamesChain
    <3>3. n \in Nat /\ Len(trail') = n + 1 /\ trail'[n + 1] = Found.first
          /\ \A i \in 1 .. n : trail'[i] = trail[i]
      BY <1>2, <2>3, AppendProperties, DiskTyped
    <3>4. \A c, b, i : Heads(c, b, i)' <=> Heads(c, b, i)
      BY <1>2, <1>3, <2>1, LiveKept, ReturnInCall DEF SameVacated
    <3>5. \A b, i : Live(b, i)' <=> Live(b, i)
      BY <1>2, <1>3, <2>1, LiveKept, ReturnInCall DEF SameVacated
    <3>6. \A i \in 1 .. n + 1 : Above(i)' = Above(i)
      BY <3>3 DEF Above
    <3>7. Above(n + 1) = cwd
      BY <1>1 DEF OnDisk, Entered
    <3>8. Entered(own)'
      <4>1. cwd' = Above(Len(trail) + 1)'
        BY <2>3, <3>3 DEF Above
      <4>2. \A i, j \in 1 .. n + 1 : trail'[i] = trail'[j] => i = j
        BY <1>1, <1>6, <2>3, <3>3 DEF OnDisk, Entered
      <4>3. ASSUME NEW i \in 1 .. n PROVE trail'[i] \in dirSet' /\ NamedAbove(i, own)'
        <5>1. NamedAbove(i, own) /\ trail[i] \in dirSet
          BY <1>1 DEF OnDisk, Entered
        <5>. QED
          BY <1>2, <3>3, <3>4, <3>6, <5>1 DEF NamedAbove
      <4>4. trail'[n + 1] \in dirSet' /\ NamedAbove(n + 1, own)'
        <5>1. Heads(h, at, k)'
          BY <1>2, <1>4, <1>11, <3>1, <3>4 DEF Heads
        <5>2. own[at] = Above(n + 1)'
          BY <1>1, <1>11, <2>3, <3>3, <3>6, <3>7
        <5>. QED
          BY <1>2, <1>11, <3>2, <3>3, <5>1, <5>2 DEF NamedAbove
      <4>5. \A i \in 1 .. n + 1 : trail'[i] \in dirSet' /\ NamedAbove(i, own)'
        BY <3>3, <4>3, <4>4
      <4>. QED
        BY <3>3, <4>1, <4>2, <4>5 DEF Entered
    <3>9. Chained(own)' /\ Headed'
      BY <1>1, <1>2 DEF OnDisk, Chained, Headed, Extending, DirBlocks
    <3>10. Named(own)'
      <4>1. \A s, b : NamesChain(s, b, own)' <=> NamesChain(s, b, own)
        BY <1>2 DEF NamesChain, Unpointed
      <4>. QED
        BY <1>1, <1>2, <3>5, <4>1 DEF OnDisk, Named
    <3>. QED
      BY <2>1, <3>8, <3>9, <3>10, ReturnInCall DEF Volume, OnDisk
  <2>. QED
    BY <2>2, <2>3 DEF FindHit
<1>. QED
  BY <1>1, <1>8, <1>9, <1>10 DEF Kinds

-----------------------------------------------------------------------------
(* A directory's chain stays in the directory.                             *)
LEMMA NextBlock ==
  ASSUME IInv, NEW own \in Owners, OnDisk(own), pc \notin Extends,
         NEW c \in DirBlocks, c \in Cluster, fat[c] \in Cluster
  PROVE  fat[c] \in DirBlocks /\ own[fat[c]] = own[c]
<1>1. c \in dirSet
  BY Numbers DEF DirBlocks
<1>2. fat[c] \in dirSet
  BY <1>1 DEF OnDisk, Chained, Extending, Extends
<1>. QED
  BY <1>1, <1>2 DEF OnDisk, Chained, DirBlocks

LEMMA SearchGoesOn ==
  ASSUME IInv, NEW own \in Owners, Volume(own), pc \in Searching \ Extends, pc' \in Searching \ Extends,
         UNCHANGED <<fat, dirs, dirSet, cwd, trail>>, SameCall, SameSlot, SameChain,
         op'.at \in DirBlocks, own[op'.at] = op.dir,
         pc' # "find" => op.kind \in {"write", "mkdir"}
  PROVE  Volume(own)'
<1>1. /\ OnDisk(own) /\ InCall(own) /\ op.found # "hit" /\ Fresh
  BY DEF Volume, InCall, Searches
<1>2. OnDisk(own)' /\ DirBlocks' = DirBlocks
  BY <1>1, QuietKept DEF SameVacated
<1>3. Asked'
  BY <1>1 DEF InCall, Asked, SameCall, Searching
<1>4. Searches(own)'
  BY <1>1, <1>2 DEF Searches, SameCall, SameSlot, SameChain, Fresh
<1>5. Place(own)' /\ OldChain(own)' /\ NewChain(own)'
  BY <1>1 DEF SameSlot, Place, OldChain, NewChain, Building, Searching
<1>. QED
  BY <1>2, <1>3, <1>4, <1>5 DEF Volume, InCall

LEMMA BuildingStarts ==
  ASSUME IInv, NEW own \in Owners, Volume(own), pc \in {"find", "slot"}, pc' = "alloc",
         UNCHANGED <<fat, dirs, dirSet, cwd, trail>>, SameCall, SameChain,
         op.kind \in {"write", "mkdir"}, op'.found # "hit", op'.blk = op.at,
         dirs[op.at][op'.idx].name \in {"end", "deleted"}
  PROVE  Volume(own)'
<1>1. /\ OnDisk(own) /\ InCall(own) /\ op.found # "hit" /\ Fresh
      /\ op.at \in DirBlocks /\ own[op.at] = op.dir
  BY DEF Volume, InCall, Searches, Searching
<1>2. OnDisk(own)' /\ DirBlocks' = DirBlocks
  BY <1>1, QuietKept DEF SameVacated, Replacing, Extends
<1>3. Asked' /\ Searches(own)'
  BY <1>1 DEF InCall, Asked, Searches, SameCall, Searching, Extends
<1>4. Place(own)'
  BY <1>1, <1>2 DEF Place, SameCall
<1>5. OldChain(own)'
  BY DEF OldChain
<1>6. op'.first = 0 /\ op'.prev = 0 /\ op'.n = 0 /\ op'.failed = FALSE
  BY <1>1, FieldsTyped DEF Fresh, SameChain
<1>7. 0 \notin Cluster /\ 0 \notin dirSet
  BY Numbers, DiskTyped
<1>8. NewChain(own)'
  BY <1>6, <1>7 DEF NewChain, SameCall, Fresh, Alone
<1>. QED
  BY <1>2, <1>3, <1>4, <1>5, <1>8 DEF Volume, InCall

(* A search ends without a name to fill in.                                *)
LEMMA SearchReturns ==
  ASSUME IInv, NEW own \in Owners, Volume(own), pc \in Searching \ Extends, Return,
         UNCHANGED <<fat, dirs, dirSet, cwd, trail>>
  PROVE  Volume(own)'
<1>1. ~Replacing
  BY DEF Volume, InCall, Searches, Replacing
<1>. QED
  BY <1>1, QuietReturn

LEMMA LowestSlot ==
  ASSUME NEW d, NEW S \in SUBSET SlotsOf(d), S # {}
  PROVE  LowestOf(S) \in S /\ \A j \in S : LowestOf(S) <= j
<1>1. S \in SUBSET Nat /\ IsFiniteSet(S)
  BY SlotsFinite, FS_Subset
<1>. QED
  BY <1>1, LowestExists

LEMMA LookUpSound ==
  ASSUME IInv, NEW own \in Owners, Volume(own), Undamaged',
         FindHit \/ FindEnd \/ FindOn \/ FindNone \/ SlotHit \/ SlotOn \/ SlotNone
  PROVE  Volume(own)'
<1>1. OnDisk(own) /\ InCall(own) /\ op \in Locals /\ op.at \in Dirs
  BY ReadsTyped, FieldsTyped DEF Volume, IInv
<1>2. pc \in Searching => op.at \in DirBlocks /\ own[op.at] = op.dir /\ op.found # "hit"
  BY <1>1 DEF InCall, Searches
<1>3. pc \in Searching => op.dir \in DirBlocks /\ own[op.dir] = op.dir
  BY HomeSound DEF Searching, Extends
<1>4. pc \in Searching \ {"find"} => op.kind \in {"write", "mkdir"}
  BY <1>1 DEF InCall, Searches
<1>. USE DEF Searching, Extends
<1>5. CASE FindEnd
  <2>1. /\ pc = "find" /\ UNCHANGED <<fat, dirs, dirSet, cwd, trail>>
        /\ FirstStop \in SlotsOf(op.at) /\ FirstStop \in Stops
    <3>1. Stops # {}
      BY <1>5 DEF FindEnd
    <3>2. FirstStop \in Stops
      BY <3>1, LowestSlot DEF Stops, FirstStop
    <3>. QED
      BY <1>5, <3>1, <3>2, StopIsSlot DEF FindEnd, disk, session
  <2>2. dirs[op.at][FirstStop].name = "end"
    BY <1>5, <2>1 DEF FindEnd, Stops, Found
  <2>3. CASE op.kind \in {"write", "mkdir"}
    <3>1. /\ pc' = "alloc"
          /\ op' = [op EXCEPT !.found = "end", !.blk = op.at, !.idx = FirstStop]
      BY <1>5, <2>3 DEF FindEnd, Goto
    <3>2. SameCall /\ SameChain /\ op'.found # "hit" /\ op'.blk = op.at /\ op'.idx = FirstStop
      BY <1>1, <3>1 DEF SameCall, SameChain, Locals
    <3>. QED
      BY <2>1, <2>2, <2>3, <3>1, <3>2, BuildingStarts
  <2>4. CASE op.kind \notin {"write", "mkdir"}
    BY <1>5, <2>1, <2>4, SearchReturns DEF FindEnd
  <2>. QED
    BY <2>3, <2>4
<1>6. CASE FindOn
  <2>1. /\ pc = "find" /\ pc' = "find" /\ op' = [op EXCEPT !.at = fat[op.at]]
        /\ UNCHANGED <<fat, dirs, dirSet, cwd, trail>> /\ op.at \in Cluster /\ fat[op.at] \in Cluster
    BY <1>1, <1>6, Numbers DEF FindOn, Goto, disk, session, ChainGoesOn
  <2>2. SameCall /\ SameSlot /\ SameChain /\ op'.at = fat[op.at]
    BY <1>1, <2>1 DEF SameCall, SameSlot, SameChain, Locals
  <2>3. op'.at \in DirBlocks /\ own[op'.at] = op.dir
    BY <1>1, <1>2, <2>1, <2>2, NextBlock
  <2>. QED
    BY <2>1, <2>2, <2>3, SearchGoesOn
<1>7. CASE FindNone
  <2>1. pc = "find" /\ UNCHANGED <<fat, dirs, dirSet, cwd, trail>>
    BY <1>7 DEF FindNone, disk, session
  <2>2. CASE op.kind \in {"write", "mkdir"}
    <3>1. pc' = "slot" /\ op' = [op EXCEPT !.at = op.dir]
      BY <1>7, <2>2 DEF FindNone, Goto
    <3>2. SameCall /\ SameSlot /\ SameChain /\ op'.at = op.dir
      BY <1>1, <3>1 DEF SameCall, SameSlot, SameChain, Locals
    <3>. QED
      BY <1>3, <2>1, <2>2, <3>1, <3>2, SearchGoesOn
  <2>3. CASE op.kind \notin {"write", "mkdir"}
    BY <1>7, <2>1, <2>3, SearchReturns DEF FindNone
  <2>. QED
    BY <2>2, <2>3
<1>8. CASE SlotHit
  <2>1. /\ pc = "slot" /\ pc' = "alloc" /\ op' = [op EXCEPT !.blk = op.at, !.idx = VacantSlot]
        /\ UNCHANGED <<fat, dirs, dirSet, cwd, trail>>
    BY <1>8 DEF SlotHit, Goto, disk, session
  <2>2. VacantSlot \in Vacant
    <3>1. Vacant # {}
      BY <1>8 DEF SlotHit
    <3>. QED
      BY <3>1, LowestSlot DEF Vacant, VacantSlot
  <2>3. SameCall /\ SameChain /\ op'.found = op.found /\ op'.blk = op.at /\ op'.idx = VacantSlot
    BY <1>1, <2>1 DEF SameCall, SameChain, Locals
  <2>4. dirs[op.at][op'.idx].name \in {"end", "deleted"}
    BY <2>2, <2>3 DEF Vacant
  <2>. QED
    BY <1>2, <1>4, <2>1, <2>3, <2>4, BuildingStarts
<1>9. CASE SlotOn
  <2>1. /\ pc = "slot" /\ pc' = "slot" /\ op' = [op EXCEPT !.at = fat[op.at]]
        /\ UNCHANGED <<fat, dirs, dirSet, cwd, trail>> /\ op.at \in Cluster /\ fat[op.at] \in Cluster
    BY <1>1, <1>9, Numbers DEF SlotOn, Goto, disk, session, ChainGoesOn
  <2>2. SameCall /\ SameSlot /\ SameChain /\ op'.at = fat[op.at]
    BY <1>1, <2>1 DEF SameCall, SameSlot, SameChain, Locals
  <2>3. op'.at \in DirBlocks /\ own[op'.at] = op.dir
    BY <1>1, <1>2, <2>1, <2>2, NextBlock
  <2>. QED
    BY <1>4, <2>1, <2>2, <2>3, SearchGoesOn
<1>10. CASE SlotNone
  <2>1. pc = "slot" /\ UNCHANGED <<fat, dirs, dirSet, cwd, trail>>
    BY <1>10 DEF SlotNone, disk, session
  <2>2. CASE op.dir # Root /\ ~op.extended
    <3>1. pc' = "extend" /\ op' = [op EXCEPT !.at = op.dir]
      BY <1>10, <2>2 DEF SlotNone, Goto
    <3>2. SameCall /\ SameSlot /\ SameChain /\ op'.at = op.dir
      BY <1>1, <3>1 DEF SameCall, SameSlot, SameChain, Locals
    <3>. QED
      BY <1>3, <1>4, <2>1, <3>1, <3>2, SearchGoesOn
  <2>3. CASE ~(op.dir # Root /\ ~op.extended)
    <3>1. Return
      BY <1>10, <2>3 DEF SlotNone, Abandon
    <3>. QED
      BY <2>1, <3>1, SearchReturns
  <2>. QED
    BY <2>2, <2>3
<1>. QED
  BY <1>5, <1>6, <1>7, <1>8, <1>9, <1>10, FindHitSound

-----------------------------------------------------------------------------
(* Steps that write the table only.                                        *)
LEMMA FreeIsFree ==
  ASSUME FreeClusters # {}
  PROVE  LowestOf(FreeClusters) \in Cluster /\ fat[LowestOf(FreeClusters)] = Free
<1>1. IsFiniteSet(Cluster) /\ Cluster \subseteq Nat
  BY FS_Interval DEF Cluster
<1>2. FreeClusters \in SUBSET Nat /\ IsFiniteSet(FreeClusters)
  BY <1>1, FS_Subset DEF FreeClusters
<1>3. LowestOf(FreeClusters) \in FreeClusters
  BY <1>2, LowestExists
<1>. QED
  BY <1>3 DEF FreeClusters

LEMMA Rewritten ==
  ASSUME IInv, NEW c \in Cluster, NEW v, NEW r, SetFat(c, v, r), r # "lost"
  PROVE  fat'[c] = v /\ \A d \in Cluster : d # c => fat'[d] = fat[d]
BY DEF SetFat, IInv, TypeOK

(* Names are sound if their heads stay in use and nothing leads to them.   *)
LEMMA TableChanged ==
  ASSUME NEW own \in Owners, OnDisk(own), UNCHANGED <<dirs, dirSet, cwd, trail>>, SameVacated,
         Chained(own)',
         \A b \in Dirs : \A i \in SlotsOf(b) : Live(b, i) =>
            fat'[dirs[b][i].first] # Free /\ Unpointed(dirs[b][i].first)'
  PROVE  OnDisk(own)'
<1>1. /\ \A b, i : Live(b, i)' <=> Live(b, i)
      /\ \A c, b, i : Heads(c, b, i)' <=> Heads(c, b, i)
  BY LiveKept
<1>2. Headed'
  BY DEF OnDisk, Headed, DirBlocks
<1>3. Named(own)'
  BY <1>1 DEF OnDisk, Named, NamesChain
<1>4. Entered(own)'
  <2>1. \A i : NamedAbove(i, own)' <=> NamedAbove(i, own)
    BY <1>1 DEF NamedAbove, Above
  <2>. QED
    BY <2>1 DEF OnDisk, Entered, Above
<1>. QED
  BY <1>2, <1>3, <1>4 DEF OnDisk

(* What a volume says of a named head, and of a free cluster.              *)
LEMMA HeadFacts ==
  ASSUME IInv, NEW own \in Owners, OnDisk(own), NEW b \in Dirs, NEW i \in SlotsOf(b), Live(b, i)
  PROVE  /\ dirs[b][i].first \in Cluster /\ fat[dirs[b][i].first] # Free
         /\ Unpointed(dirs[b][i].first)
BY DiskTyped, Numbers DEF OnDisk, Named, NamesChain, Live, Used

LEMMA FreeFacts ==
  ASSUME IInv, NEW own \in Owners, OnDisk(own), pc # "xeof", NEW c \in Cluster, fat[c] = Free
  PROVE  /\ c \notin dirSet /\ Unpointed(c) /\ Unnamed(c)
<1>1. c \notin dirSet /\ Unpointed(c)
  BY DEF OnDisk, Chained, Unpointed
<1>2. Unnamed(c)
  BY HeadFacts DEF Unnamed, Heads
<1>. QED
  BY <1>1, <1>2

-----------------------------------------------------------------------------
LEMMA ExtendLinkSound ==
  ASSUME IInv, NEW own \in Owners, Volume(own), Undamaged', ExtendLink
  PROVE  Volume(own)'
<1>1. /\ OnDisk(own) /\ InCall(own) /\ op \in Locals /\ pc = "extend" /\ fat[op.at] = EOF
      /\ FreeClusters # {} /\ UNCHANGED <<dirs, dirSet, cwd, trail>> /\ op.at \in Cluster
  BY ReadsTyped DEF Volume, IInv, ExtendLink, session, CallSound
<1>2. /\ op.at \in DirBlocks /\ own[op.at] = op.dir /\ op.found # "hit" /\ Fresh
      /\ op.kind \in {"write", "mkdir"}
  BY <1>1 DEF InCall, Searches, Searching
<1>3. PICK nc : nc = LowestOf(FreeClusters)
  OBVIOUS
<1>4. nc \in Cluster /\ fat[nc] = Free
  BY <1>1, <1>3, FreeIsFree
<1>5. PICK r \in Outcome :
        /\ SetFat(op.at, nc, r)
        /\ r = "ok" => pc' = "xeof" /\ op' = [op EXCEPT !.cl = nc]
        /\ r = "lost" => Return
        /\ r = "late" => "extend" \in damage'
  BY <1>3 DEF ExtendLink, Goto, Abandon, Outcome
<1>6. CASE r = "lost"
  <2>1. UNCHANGED fat
    BY <1>5, <1>6 DEF SetFat
  <2>. QED
    BY <1>1, <1>5, <1>6, <2>1, SearchReturns DEF Searching, Extends
<1>7. CASE r = "ok"
  <2>1. PICK at : at = op.at
    OBVIOUS
  <2>2. /\ fat'[at] = nc /\ \A d \in Cluster : d # at => fat'[d] = fat[d]
        /\ at \in dirSet /\ at \in Cluster /\ fat[at] = EOF /\ at # nc
    BY <1>1, <1>2, <1>4, <1>5, <1>7, <2>1, Rewritten, Numbers DEF DirBlocks
  <2>3. /\ SameCall /\ SameSlot /\ SameChain /\ op'.at = at /\ op'.cl = nc /\ pc' = "xeof"
    BY <1>1, <1>5, <1>7, <2>1 DEF Locals, SameCall, SameSlot, SameChain
  <2>4. nc \notin dirSet /\ Unpointed(nc) /\ Unnamed(nc)
    BY <1>1, <1>4, FreeFacts
  <2>5. Chained(own)'
    <3>1. /\ \A c \in Cluster : fat[c] \in Cluster =>
               /\ fat[fat[c]] # Free
               /\ \A d \in Cluster : fat[d] = fat[c] => d = c
               /\ (c \in dirSet <=> fat[c] \in dirSet)
          /\ \A c \in dirSet : /\ fat[c] # Free /\ own[c] # Root
                               /\ fat[c] \in dirSet => own[fat[c]] = own[c]
          /\ own[Root] = Root
      BY <1>1 DEF OnDisk, Chained, Extending
    <3>2. \A c \in Cluster : fat'[c] \in Cluster =>
             /\ fat'[fat'[c]] = Free => fat'[c] = nc
             /\ \A d \in Cluster : fat'[d] = fat'[c] => d = c
             /\ (c \in dirSet <=> fat'[c] \in dirSet) \/ fat'[c] = nc
      BY <1>4, <2>2, <2>4, <3>1, Numbers DEF Unpointed
    <3>3. \A c \in dirSet : /\ fat'[c] # Free /\ own[c] # Root
                            /\ fat'[c] \in dirSet => own[fat'[c]] = own[c]
      BY <1>4, <2>2, <2>4, <3>1, DiskTyped, Numbers
    <3>. QED
      BY <1>1, <2>3, <3>1, <3>2, <3>3 DEF Chained, Extending
  <2>6. ASSUME NEW b \in Dirs, NEW i \in SlotsOf(b), Live(b, i)
        PROVE  fat'[dirs[b][i].first] # Free /\ Unpointed(dirs[b][i].first)'
    <3>1. PICK h : h = dirs[b][i].first
      OBVIOUS
    <3>2. h \in Cluster /\ fat[h] # Free /\ Unpointed(h) /\ h # nc
      BY <1>1, <1>4, <2>6, <3>1, HeadFacts
    <3>. QED
      BY <1>1, <1>4, <2>2, <3>1, <3>2, Numbers DEF Unpointed
  <2>7. OnDisk(own)'
    BY <1>1, <2>3, <2>5, <2>6, TableChanged DEF SameVacated
  <2>8. Asked'
    BY <1>1, <2>3 DEF InCall, Asked, SameCall
  <2>9. Searches(own)'
    BY <1>1, <1>2, <1>4, <2>1, <2>2, <2>3, <2>4, Numbers
       DEF Searches, SameCall, SameSlot, SameChain, Fresh, Extends, DirBlocks
  <2>10. Place(own)' /\ OldChain(own)' /\ NewChain(own)'
    BY <1>2, <2>3 DEF Place, OldChain, NewChain, SameSlot, Extends, Building
  <2>. QED
    BY <2>7, <2>8, <2>9, <2>10 DEF Volume, InCall
<1>8. CASE r = "late"
  BY <1>5, <1>8 DEF Undamaged
<1>. QED
  BY <1>6, <1>7, <1>8 DEF Outcome

LEMMA ExtendSealSound ==
  ASSUME IInv, NEW own \in Owners, Volume(own), Undamaged', ExtendSeal
  PROVE  Volume(own)'
<1>1. /\ OnDisk(own) /\ InCall(own) /\ op \in Locals /\ pc = "xeof" /\ op.cl \in Cluster
      /\ UNCHANGED <<dirs, dirSet, cwd, trail>>
  BY ReadsTyped DEF Volume, IInv, ExtendSeal, session, CallSound
<1>2. /\ op.at \in DirBlocks /\ own[op.at] = op.dir /\ op.found # "hit" /\ Fresh
      /\ op.kind \in {"write", "mkdir"}
      /\ fat[op.at] = op.cl /\ op.cl \notin dirSet /\ op.at # Root /\ fat[op.cl] = Free
  BY <1>1 DEF InCall, Searches, Searching, Extends
<1>3. PICK r \in Outcome : SetFat(op.cl, EOF, r) /\ r = "ok" /\ pc' = "xzero" /\ op' = op
  BY DEF ExtendSeal, Goto, Abandon, Undamaged
<1>4. PICK cl, at : cl = op.cl /\ at = op.at
  OBVIOUS
<1>5. /\ fat'[cl] = EOF /\ \A d \in Cluster : d # cl => fat'[d] = fat[d]
      /\ cl \in Cluster /\ at \in Cluster /\ at # cl /\ EOF \notin Cluster /\ fat[cl] = Free
  <2>1. fat'[cl] = EOF /\ \A d \in Cluster : d # cl => fat'[d] = fat[d]
    BY <1>1, <1>3, <1>4, Rewritten
  <2>. QED
    BY <1>1, <1>2, <1>4, <2>1, Numbers, DiskTyped DEF DirBlocks
<1>6. SameCall /\ SameSlot /\ SameChain /\ SameVacated
  BY <1>3 DEF SameCall, SameSlot, SameChain, SameVacated
<1>7. Chained(own)'
  <2>1. /\ \A c \in Cluster : fat[c] \in Cluster =>
             /\ fat[fat[c]] = Free => fat[c] = cl
             /\ \A d \in Cluster : fat[d] = fat[c] => d = c
             /\ (c \in dirSet <=> fat[c] \in dirSet) \/ fat[c] = cl
        /\ \A c \in dirSet : /\ fat[c] # Free /\ own[c] # Root
                             /\ fat[c] \in dirSet => own[fat[c]] = own[c]
        /\ own[Root] = Root
    BY <1>1, <1>4 DEF OnDisk, Chained, Extending
  <2>2. \A c \in Cluster : fat'[c] \in Cluster =>
           /\ fat'[fat'[c]] # Free
           /\ \A d \in Cluster : fat'[d] = fat'[c] => d = c
           /\ (c \in dirSet <=> fat'[c] \in dirSet) \/ fat'[c] = cl
    BY <1>5, <2>1, Numbers
  <2>3. \A c \in dirSet : /\ fat'[c] # Free /\ own[c] # Root
                          /\ fat'[c] \in dirSet => own[fat'[c]] = own[c]
    BY <1>1, <1>5, <2>1, DiskTyped, Numbers
  <2>. QED
    BY <1>1, <1>3, <1>4, <2>1, <2>2, <2>3 DEF Chained, Extending
<1>8. ASSUME NEW b \in Dirs, NEW i \in SlotsOf(b), Live(b, i)
      PROVE  fat'[dirs[b][i].first] # Free /\ Unpointed(dirs[b][i].first)'
  <2>1. PICK h : h = dirs[b][i].first
    OBVIOUS
  <2>2. h \in Cluster /\ fat[h] # Free /\ Unpointed(h)
    BY <1>1, <1>8, <2>1, HeadFacts
  <2>. QED
    BY <1>1, <1>5, <2>1, <2>2, Numbers DEF Unpointed
<1>9. OnDisk(own)'
  BY <1>1, <1>6, <1>7, <1>8, TableChanged
<1>10. Asked' /\ Searches(own)'
  <2>1. fat'[at] = cl
    BY <1>2, <1>4, <1>5
  <2>. QED
    BY <1>1, <1>2, <1>3, <1>4, <1>5, <2>1
       DEF InCall, Asked, Searches, Fresh, Extends, DirBlocks
<1>11. Place(own)' /\ OldChain(own)' /\ NewChain(own)'
  BY <1>2, <1>3 DEF Place, OldChain, NewChain, Extends, Building
<1>. QED
  BY <1>9, <1>10, <1>11 DEF Volume, InCall

-----------------------------------------------------------------------------
(* A cluster becomes a block of a directory; it holds no names yet.        *)
LEMMA BlockAdded ==
  ASSUME IInv, NEW own \in Owners, OnDisk(own), NEW cl \in Cluster, cl \notin dirSet, Unnamed(cl),
         UNCHANGED <<fat, cwd, trail>>, dirSet' = dirSet \cup {cl},
         \A b \in Dirs : b # cl => dirs'[b] = dirs[b],
         \A i \in SlotsOf(cl) : dirs'[cl][i].name \notin Names,
         SameVacated,
         NEW own2 \in Owners, \A b \in Dirs : b # cl => own2[b] = own[b],
         Chained(own2)'
  PROVE  OnDisk(own2)' /\ \A c : Unnamed(c)' <=> Unnamed(c)
<1>1. DirBlocks' = DirBlocks \cup {cl} /\ cl \notin DirBlocks /\ DirBlocks \subseteq Dirs
  BY DiskTyped, Numbers DEF DirBlocks
<1>2. \A b, i : Live(b, i)' <=> Live(b, i)
  BY <1>1, VacatedKept DEF Live, Used
<1>3. \A b, i : Live(b, i) => b \in DirBlocks /\ b # cl /\ dirs'[b][i] = dirs[b][i]
  BY <1>1 DEF Live, Used
<1>4. \A c, b, i : Heads(c, b, i)' <=> Heads(c, b, i)
  BY <1>2, <1>3 DEF Heads
<1>5. Headed'
  BY <1>1 DEF OnDisk, Headed
<1>6. Named(own2)'
  <2>1. ASSUME NEW b \in Dirs, NEW i \in SlotsOf(b), Live(b, i)
        PROVE  NamesChain(dirs[b][i], b, own2)'
    <3>1. PICK s : s = dirs[b][i]
      OBVIOUS
    <3>2. NamesChain(s, b, own) /\ s.first # cl /\ dirs'[b][i] = s /\ b # cl /\ b \in Dirs
          /\ s.first \in Cluster
      BY <1>3, <2>1, <3>1, HeadFacts DEF OnDisk, Named, Unnamed, Heads
    <3>3. NamesChain(s, b, own2)'
      BY <3>2, Numbers DEF NamesChain, Unpointed
    <3>. QED
      BY <3>2, <3>3
  <2>2. ASSUME NEW b \in Dirs, NEW i \in SlotsOf(b), Live(b, i)
        PROVE  \A c \in Dirs : \A j \in SlotsOf(c) :
                 Live(c, j) /\ dirs'[c][j].first = dirs'[b][i].first => b = c /\ i = j
    BY <1>3, <2>2 DEF OnDisk, Named
  <2>. QED
    BY <1>2, <2>1, <2>2 DEF Named
<1>7. Entered(own2)'
  <2>1. ASSUME NEW i \in 1 .. Len(trail) PROVE trail[i] \in dirSet' /\ NamedAbove(i, own2)'
    <3>1. trail[i] \in dirSet
      BY DEF OnDisk, Entered
    <3>2. PICK b \in Dirs : \E j \in SlotsOf(b) : Heads(trail[i], b, j) /\ own[b] = Above(i)
      BY DEF OnDisk, Entered, NamedAbove
    <3>3. PICK j \in SlotsOf(b) : Heads(trail[i], b, j)
      BY <3>2
    <3>4. b # cl /\ Heads(trail[i], b, j)'
      BY <1>3, <1>4, <3>3 DEF Heads
    <3>. QED
      BY <3>1, <3>2, <3>4 DEF NamedAbove, Above
  <2>. QED
    BY <2>1 DEF OnDisk, Entered, Above
<1>. QED
  BY <1>4, <1>5, <1>6, <1>7 DEF OnDisk, Unnamed

LEMMA ExtendZeroSound ==
  ASSUME IInv, NEW own \in Owners, Volume(own), Undamaged', ExtendZero
  PROVE  \E own2 \in Owners : Volume(own2)'
<1>1. /\ OnDisk(own) /\ InCall(own) /\ op \in Locals /\ pc = "xzero" /\ op.cl \in Cluster
      /\ UNCHANGED <<fat, cwd, trail>> /\ dirSet' = dirSet \cup {op.cl}
      /\ pc' = "slot" /\ op' = [op EXCEPT !.at = op.dir, !.cl = 0, !.extended = TRUE]
  BY ReadsTyped DEF Volume, IInv, ExtendZero, session, CallSound, Goto
<1>2. /\ op.at \in DirBlocks /\ own[op.at] = op.dir /\ op.found # "hit" /\ Fresh
      /\ op.kind \in {"write", "mkdir"}
      /\ fat[op.at] = op.cl /\ op.cl \notin dirSet /\ op.at # Root /\ fat[op.cl] = EOF
      /\ op.dir \in DirBlocks /\ own[op.dir] = op.dir
  BY <1>1, HomeSound DEF InCall, Searches, Searching, Extends
<1>3. dirs' = [dirs EXCEPT ![op.cl] = EmptyBlock(op.cl)]
  BY DEF ExtendZero, Undamaged
<1>4. PICK cl, at, dir : cl = op.cl /\ at = op.at /\ dir = op.dir
  OBVIOUS
<1>5. /\ cl \in Cluster /\ at \in Cluster /\ at \in dirSet /\ cl \notin dirSet /\ fat[at] = cl
      /\ fat[cl] = EOF /\ own[at] = dir /\ dir \in DirBlocks /\ own[dir] = dir
      /\ cl \in Dirs /\ at \in Dirs /\ DirBlocks \subseteq Dirs /\ cl # Root /\ at # cl
      /\ EOF \notin Cluster
  BY <1>1, <1>2, <1>4, Numbers, DiskTyped DEF DirBlocks
<1>6. /\ \A b \in Dirs : b # cl => dirs'[b] = dirs[b]
      /\ \A i \in SlotsOf(cl) : dirs'[cl][i].name \notin Names
  <2>1. DOMAIN dirs = Dirs
    BY DEF IInv, TypeOK
  <2>. QED
    BY <1>3, <1>4, <1>5, <2>1, Numbers DEF EmptyBlock, Mark
<1>7. /\ SameCall /\ SameSlot /\ SameChain /\ op'.at = dir
  BY <1>1, <1>4 DEF Locals, SameCall, SameSlot, SameChain
<1>. DEFINE own2 == [own EXCEPT ![cl] = dir]
<1>8. own2 \in Owners /\ own2[cl] = dir /\ \A b \in Dirs : b # cl => own2[b] = own[b]
  BY <1>5 DEF Owners
<1>. HIDE DEF own2
<1>9. Unnamed(cl)
  <2>1. ASSUME NEW b \in Dirs, NEW i \in SlotsOf(b), Live(b, i) PROVE dirs[b][i].first # cl
    BY <1>1, <1>5, <2>1, HeadFacts DEF Unpointed
  <2>. QED
    BY <2>1 DEF Unnamed, Heads
<1>10. Chained(own2)'
  <2>1. /\ \A c \in Cluster : fat[c] \in Cluster =>
             /\ fat[fat[c]] # Free
             /\ \A d \in Cluster : fat[d] = fat[c] => d = c
             /\ (c \in dirSet <=> fat[c] \in dirSet) \/ fat[c] = cl
        /\ \A c \in dirSet : /\ fat[c] # Free /\ own[c] # Root
                             /\ fat[c] \in dirSet => own[fat[c]] = own[c]
        /\ own[Root] = Root
    BY <1>1, <1>4 DEF OnDisk, Chained, Extending
  <2>2. \A c \in Cluster : fat[c] \in Cluster => (c \in dirSet' <=> fat[c] \in dirSet')
    BY <1>1, <1>4, <1>5, <2>1
  <2>3. ASSUME NEW c \in dirSet'
        PROVE  fat[c] # Free /\ own2[c] # Root /\ (fat[c] \in dirSet' => own2[fat[c]] = own2[c])
    <3>1. dir # Root
      BY <1>5, <2>1
    <3>2. CASE c = cl
      <4>1. fat[c] \notin dirSet'
        BY <1>1, <1>5, <3>2, DiskTyped, Numbers
      <4>. QED
        BY <1>5, <1>8, <3>1, <3>2, <4>1, Numbers
    <3>3. CASE c # cl
      <4>1. c \in dirSet /\ c \in Cluster /\ c \in Dirs /\ own2[c] = own[c]
        BY <1>1, <1>4, <1>8, <3>3, DiskTyped, Numbers
      <4>2. CASE c = at
        BY <1>5, <1>8, <2>1, <4>1, <4>2
      <4>3. CASE c # at
        <5>1. fat[c] # cl
          BY <1>5, <2>1, <4>1, <4>3
        <5>2. fat[c] \in dirSet' => fat[c] \in dirSet /\ fat[c] \in Dirs
          BY <1>1, <1>4, <5>1, DiskTyped, Numbers
        <5>. QED
          BY <1>8, <2>1, <4>1, <5>1, <5>2
      <4>. QED
        BY <4>2, <4>3
    <3>. QED
      BY <3>2, <3>3
  <2>4. own2[Root] = Root
    BY <1>5, <1>8, <2>1, Numbers
  <2>. QED
    BY <1>1, <2>1, <2>2, <2>3, <2>4 DEF Chained, Extending
<1>11. OnDisk(own2)'
  BY <1>1, <1>4, <1>5, <1>6, <1>7, <1>8, <1>9, <1>10, BlockAdded DEF SameVacated
<1>12. Asked' /\ Searches(own2)'
  <2>1. dir \in DirBlocks' /\ dir # cl /\ own2[dir] = dir
    BY <1>1, <1>4, <1>5, <1>8 DEF DirBlocks
  <2>. QED
    BY <1>1, <1>2, <1>4, <1>7, <2>1
       DEF InCall, Asked, Searches, Fresh, SameCall, SameSlot, SameChain, Extends, Searching
<1>13. Place(own2)' /\ OldChain(own2)' /\ NewChain(own2)'
  BY <1>1, <1>2, <1>7 DEF Place, OldChain, NewChain, SameSlot, Building
<1>. QED
  BY <1>8, <1>11, <1>12, <1>13 DEF Volume, InCall

LEMMA ExtendSound ==
  ASSUME IInv, NEW own \in Owners, Volume(own), Undamaged',
         ExtendWalk \/ ExtendLink \/ ExtendFails \/ ExtendSeal \/ ExtendZero
  PROVE  \E own2 \in Owners : Volume(own2)'
<1>1. CASE ExtendWalk
  <2>1. /\ pc = "extend" /\ pc' = "extend" /\ op' = [op EXCEPT !.at = fat[op.at]]
        /\ UNCHANGED <<fat, dirs, dirSet, cwd, trail>> /\ op.at \in Cluster /\ fat[op.at] \in Cluster
        /\ op \in Locals
    BY <1>1, ReadsTyped DEF ExtendWalk, Goto, disk, session, IInv, CallSound
  <2>2. SameCall /\ SameSlot /\ SameChain /\ op'.at = fat[op.at]
    BY <2>1 DEF SameCall, SameSlot, SameChain, Locals
  <2>3. /\ op.at \in DirBlocks /\ own[op.at] = op.dir /\ op.kind \in {"write", "mkdir"}
    BY <2>1 DEF Volume, InCall, Searches, Searching
  <2>4. op'.at \in DirBlocks /\ own[op'.at] = op.dir
    BY <2>1, <2>2, <2>3, NextBlock DEF Volume, Extends
  <2>5. Volume(own)'
    BY <2>1, <2>2, <2>3, <2>4, SearchGoesOn DEF Searching, Extends
  <2>. QED
    BY <2>5
<1>2. CASE ExtendFails
  <2>1. pc = "extend" /\ UNCHANGED <<fat, dirs, dirSet, cwd, trail>> /\ Return
    BY <1>2 DEF ExtendFails, disk, session, Abandon
  <2>2. Volume(own)'
    BY <2>1, SearchReturns DEF Searching, Extends
  <2>. QED
    BY <2>2
<1>. QED
  BY <1>1, <1>2, ExtendLinkSound, ExtendSealSound, ExtendZeroSound

-----------------------------------------------------------------------------
(* fat16_free_clusters.                                                    *)
LEMMA FreeOneSound ==
  ASSUME IInv, NEW own \in Owners, Volume(own), Undamaged', FreeOne
  PROVE  Volume(own)'
<1>1. /\ OnDisk(own) /\ InCall(own) /\ op \in Locals /\ pc = "free" /\ pc' = "free"
      /\ op.cur \in Cluster /\ UNCHANGED <<dirs, cwd, trail>>
      /\ op' = [op EXCEPT !.cur = Successor]
  BY ReadsTyped DEF Volume, IInv, FreeOne, session, Goto
<1>2. PICK r : SetFat(op.cur, Free, r) /\ r # "lost" /\ dirSet' = dirSet \ {op.cur}
  BY DEF FreeOne, Undamaged
<1>3. /\ op.kind = "write" \/ (op.kind = "delete" /\ ~op.failed)
      /\ Alone(op.cur) /\ (op.cur \in dirSet => ~op.failed)
      /\ ~op.failed => /\ op.found = "hit" /\ (op.cur \in dirSet => own[op.cur] = op.old)
                       /\ op.old \in Cluster /\ Unpointed(op.old)
      /\ op.found = "hit" => \A i \in 1 .. Len(trail) : trail[i] # op.old
  BY <1>1 DEF InCall, OldChain
<1>4. PICK cur, next : cur = op.cur /\ next = Successor
  OBVIOUS
<1>5. /\ cur \in Cluster /\ fat'[cur] = Free /\ \A d \in Cluster : d # cur => fat'[d] = fat[d]
      /\ fat[cur] # Free /\ Unpointed(cur) /\ Unnamed(cur) /\ dirSet' = dirSet \ {cur}
      /\ Free \notin Cluster
  BY <1>1, <1>2, <1>3, <1>4, Rewritten, Numbers DEF Alone
<1>6. /\ SameCall /\ SameSlot /\ SameChain /\ op'.cur = next
  BY <1>1, <1>4 DEF Locals, SameCall, SameSlot, SameChain
<1>7. DirBlocks' = DirBlocks \ {cur}
  BY <1>5, Numbers DEF DirBlocks
<1>8. \A b, i : Live(b, i)' <=> Live(b, i) /\ b # cur
  BY <1>1, <1>6, <1>7, VacatedKept DEF Live, Used, SameVacated
<1>9. Chained(own)'
  <2>1. /\ \A c \in Cluster : fat[c] \in Cluster =>
             /\ fat[fat[c]] # Free
             /\ \A d \in Cluster : fat[d] = fat[c] => d = c
             /\ (c \in dirSet <=> fat[c] \in dirSet)
        /\ \A c \in dirSet : /\ fat[c] # Free /\ own[c] # Root
                             /\ fat[c] \in dirSet => own[fat[c]] = own[c]
        /\ own[Root] = Root
    BY <1>1 DEF OnDisk, Chained, Extending
  <2>2. \A c \in Cluster : fat'[c] \in Cluster => c # cur /\ fat'[c] = fat[c] /\ fat[c] # cur
    BY <1>5 DEF Unpointed
  <2>3. \A c \in Cluster : fat'[c] \in Cluster =>
           /\ fat'[fat'[c]] # Free
           /\ \A d \in Cluster : fat'[d] = fat'[c] => d = c
           /\ (c \in dirSet' <=> fat'[c] \in dirSet')
    BY <1>5, <2>1, <2>2
  <2>4. \A c \in dirSet' : /\ fat'[c] # Free /\ own[c] # Root
                           /\ fat'[c] \in dirSet' => own[fat'[c]] = own[c]
    BY <1>5, <2>1, DiskTyped
  <2>. QED
    BY <2>1, <2>3, <2>4 DEF Chained
<1>10. Headed'
  BY <1>1, <1>7 DEF OnDisk, Headed
<1>11. Named(own)'
  <2>1. ASSUME NEW b \in Dirs, NEW i \in SlotsOf(b), Live(b, i)
        PROVE  NamesChain(dirs[b][i], b, own)'
    <3>1. PICK s : s = dirs[b][i]
      OBVIOUS
    <3>2. NamesChain(s, b, own) /\ s.first # cur /\ dirs'[b][i] = s /\ s.first \in Cluster
      BY <1>1, <1>5, <2>1, <3>1, HeadFacts DEF OnDisk, Named, Unnamed, Heads
    <3>3. NamesChain(s, b, own)'
      BY <1>1, <1>5, <3>2 DEF NamesChain, Unpointed
    <3>. QED
      BY <3>2, <3>3
  <2>. QED
    BY <1>1, <1>8, <2>1 DEF OnDisk, Named
<1>12. Entered(own)'
  <2>1. ASSUME NEW i \in 1 .. Len(trail) PROVE trail[i] \in dirSet' /\ NamedAbove(i, own)'
    <3>1. PICK b \in Dirs : \E j \in SlotsOf(b) : Heads(trail[i], b, j) /\ own[b] = Above(i)
      BY <1>1 DEF OnDisk, Entered, NamedAbove
    <3>2. PICK j \in SlotsOf(b) : Heads(trail[i], b, j)
      BY <3>1
    <3>3. trail[i] \in dirSet /\ trail[i] # cur
      BY <1>1, <1>5, <3>2 DEF OnDisk, Entered, Unnamed
    <3>4. b # cur
      <4>. SUFFICES ASSUME b = cur PROVE FALSE
        OBVIOUS
      <4>1. cur \in dirSet
        BY <1>5, <3>2, Numbers DEF Heads, Live, Used, DirBlocks
      <4>2. ~op.failed /\ own[cur] = op.old /\ \A k \in 1 .. Len(trail) : trail[k] # op.old
        BY <1>3, <1>4, <4>1
      <4>3. own[cur] # Root
        BY <1>1, <4>1 DEF OnDisk, Chained
      <4>4. i # 1 /\ Above(i) = trail[i - 1] /\ i - 1 \in 1 .. Len(trail)
        BY <3>1, <4>3 DEF Above
      <4>. QED
        BY <3>1, <4>2, <4>4
    <3>5. Heads(trail[i], b, j)'
      BY <1>1, <1>8, <3>2, <3>4 DEF Heads
    <3>. QED
      BY <1>1, <1>5, <3>1, <3>3, <3>5 DEF NamedAbove, Above
  <2>. QED
    BY <1>1, <2>1 DEF OnDisk, Entered, Above
<1>13. Asked' /\ Searches(own)' /\ NewChain(own)'
  BY <1>1, <1>6 DEF InCall, Asked, Searches, NewChain, SameCall, SameSlot, SameChain, Fresh,
                    Searching, Extends, Building
<1>14. Place(own)'
  <2>1. op.kind = "write" => op.blk # cur
    <3>. SUFFICES ASSUME op.kind = "write", op.blk = cur PROVE FALSE
      OBVIOUS
    <3>1. op.blk \in DirBlocks /\ own[op.blk] = op.dir
      BY <1>1 DEF InCall, Place
    <3>2. cur \in dirSet
      BY <1>5, <3>1, Numbers DEF DirBlocks
    <3>3. own[cur] = op.old /\ own[cur] # Root /\ \A k \in 1 .. Len(trail) : trail[k] # op.old
      BY <1>1, <1>3, <1>4, <3>2 DEF OnDisk, Chained
    <3>4. op.dir = cwd /\ cwd # Root
      BY <1>1, <3>1, <3>3 DEF InCall, Asked
    <3>5. Len(trail) >= 1 /\ cwd = trail[Len(trail)] /\ Len(trail) \in Nat
      BY <1>1, <3>4, CurrentSound, DiskTyped
    <3>. QED
      BY <3>1, <3>3, <3>4, <3>5
  <2>. QED
    BY <1>1, <1>6, <1>7, <2>1 DEF InCall, Place, SameCall, SameSlot, Building
<1>15. OldChain(own)'
  <2>1. /\ \A c \in Cluster : fat[c] \in Cluster =>
             /\ fat[fat[c]] # Free
             /\ \A d \in Cluster : fat[d] = fat[c] => d = c
             /\ (c \in dirSet <=> fat[c] \in dirSet)
        /\ \A c \in dirSet : fat[c] \in dirSet => own[fat[c]] = own[c]
    BY <1>1 DEF OnDisk, Chained, Extending
  <2>2. next \in Cluster => fat[cur] = next /\ next # cur
    BY <1>4, <1>5, Numbers DEF Successor, Unpointed
  <2>3. next \in Cluster \/ next = 0
    BY <1>4 DEF Successor
  <2>4. Alone(next)'
    <3>. SUFFICES ASSUME next \in Cluster PROVE Alone(next)'
      BY DEF Alone
    <3>1. fat'[next] # Free
      BY <1>5, <2>1, <2>2
    <3>2. Unpointed(next)'
      BY <1>5, <2>1, <2>2 DEF Unpointed
    <3>3. Unnamed(next)'
      <4>1. ASSUME NEW b \in Dirs, NEW i \in SlotsOf(b), Live(b, i) PROVE dirs[b][i].first # next
        BY <1>1, <1>5, <2>2, <4>1, HeadFacts DEF Unpointed
      <4>. QED
        BY <1>1, <1>8, <4>1 DEF Unnamed, Heads
    <3>. QED
      BY <3>1, <3>2, <3>3 DEF Alone
  <2>5. next \in dirSet' => next \in dirSet /\ cur \in dirSet /\ own[next] = own[cur]
    BY <1>5, <2>1, <2>2, DiskTyped
  <2>6. ~op.failed => next # op.old
    BY <1>3, <1>4, <1>5, <2>2, <2>3, Numbers DEF Unpointed
  <2>7. op.old \in Cluster /\ Unpointed(op.old) => \A d \in Cluster : fat'[d] # op.old
    BY <1>5 DEF Unpointed
  <2>. QED
    BY <1>1, <1>3, <1>4, <1>5, <1>6, <2>4, <2>5, <2>6, <2>7
       DEF OldChain, SameCall, SameSlot, SameChain, Unpointed
<1>. QED
  BY <1>9, <1>10, <1>11, <1>12, <1>13, <1>14, <1>15 DEF Volume, OnDisk, InCall

LEMMA FreeSound ==
  ASSUME IInv, NEW own \in Owners, Volume(own), Undamaged', FreeOne \/ FreeReadError \/ FreeDone
  PROVE  Volume(own)'
<1>1. CASE FreeReadError
  <2>1. /\ OnDisk(own) /\ InCall(own) /\ pc = "free" /\ pc' = "free" /\ op.cur \in Cluster
        /\ UNCHANGED <<fat, dirs, dirSet, cwd, trail>> /\ op' = [op EXCEPT !.cur = 0] /\ op \in Locals
    BY <1>1, ReadsTyped DEF Volume, IInv, FreeReadError, disk, session, Goto
  <2>2. SameCall /\ SameSlot /\ SameChain /\ op'.cur = 0
    BY <2>1 DEF SameCall, SameSlot, SameChain, Locals
  <2>3. /\ OnDisk(own)' /\ DirBlocks' = DirBlocks
    BY <2>1, <2>2, QuietKept DEF SameVacated, Extends
  <2>4. 0 \notin Cluster /\ 0 \notin dirSet
    BY Numbers, DiskTyped
  <2>5. Asked' /\ Searches(own)' /\ NewChain(own)'
    BY <2>1, <2>2 DEF InCall, Asked, Searches, NewChain, SameCall, SameSlot, SameChain, Fresh,
                      Searching, Extends, Building
  <2>6. Place(own)'
    BY <2>1, <2>2, <2>3 DEF InCall, Place, SameCall, SameSlot, Building
  <2>7. OldChain(own)'
    <3>1. Alone(0)'
      BY <2>4 DEF Alone
    <3>. QED
      BY <2>1, <2>2, <2>4, <3>1 DEF InCall, OldChain, SameCall, SameSlot, SameChain, Unpointed
  <2>. QED
    BY <2>3, <2>5, <2>6, <2>7 DEF Volume, InCall
<1>2. CASE FreeDone
  <2>1. /\ OnDisk(own) /\ InCall(own) /\ pc = "free" /\ op.cur = 0
        /\ UNCHANGED <<fat, dirs, dirSet, cwd, trail>>
    BY <1>2 DEF Volume, FreeDone, disk, session
  <2>2. /\ op.kind = "write" \/ (op.kind = "delete" /\ ~op.failed)
        /\ ~op.failed => Fresh /\ op.found = "hit"
    BY <2>1 DEF InCall, OldChain, Searches
  <2>3. CASE op.kind = "delete"
    <3>1. Return
      BY <1>2, <2>3 DEF FreeDone
    <3>. QED
      BY <2>1, <2>3, <3>1, QuietReturn DEF Extends, Replacing
  <2>4. CASE op.kind = "write" /\ op.failed
    <3>1. Return /\ (OverwriteOpen => "overwrite" \in damage')
      BY <1>2, <2>4 DEF FreeDone, Abandon
    <3>2. ~Replacing \/ op.old \notin Cluster
      BY <2>4, <3>1 DEF OverwriteOpen, Replacing, Undamaged
    <3>. QED
      BY <2>1, <3>1, <3>2, QuietReturn DEF Extends
  <2>5. CASE op.kind = "write" /\ ~op.failed
    <3>1. pc' = "alloc" /\ op' = op
      BY <1>2, <2>5 DEF FreeDone, Goto
    <3>2. OnDisk(own)' /\ DirBlocks' = DirBlocks
      BY <2>1, <3>1, QuietKept DEF SameVacated, SameCall, SameSlot, Extends
    <3>3. 0 \notin Cluster /\ 0 \notin dirSet
      BY Numbers, DiskTyped
    <3>4. Asked' /\ Searches(own)' /\ Place(own)' /\ OldChain(own)'
      BY <2>1, <2>5, <3>1, <3>2 DEF InCall, Asked, Searches, Place, OldChain, Searching, Extends, Building
    <3>5. NewChain(own)'
      BY <2>1, <2>2, <2>5, <3>1, <3>3 DEF NewChain, Building, Fresh, Alone
    <3>. QED
      BY <3>2, <3>4, <3>5 DEF Volume, InCall
  <2>. QED
    BY <2>2, <2>3, <2>4, <2>5
<1>. QED
  BY <1>1, <1>2, FreeOneSound

-----------------------------------------------------------------------------
(* The loop of fat16_write_file_in.                                        *)
LEMMA GiveUpSound ==
  ASSUME IInv, NEW own \in Owners, Volume(own), pc \in {"alloc", "data"}, op.kind = "write", GiveUp,
         UNCHANGED <<fat, dirs, dirSet, cwd, trail>>
  PROVE  Volume(own)'
<1>1. /\ OnDisk(own) /\ InCall(own) /\ pc' = "free" /\ op \in Locals
      /\ op' = [op EXCEPT !.cur = op.first, !.failed = TRUE]
  BY ReadsTyped DEF Volume, IInv, GiveUp, Goto
<1>2. /\ SameCall /\ SameSlot /\ op'.cur = op.first /\ op'.failed = TRUE
  BY <1>1 DEF Locals, SameCall, SameSlot
<1>3. PICK first : first = op.first
  OBVIOUS
<1>4. OnDisk(own)' /\ DirBlocks' = DirBlocks /\ (Alone(first)' <=> Alone(first))
  BY <1>1, <1>2, QuietKept DEF SameVacated, Extends
<1>5. Alone(first) /\ first \notin dirSet
  BY <1>1, <1>3 DEF InCall, NewChain, Building
<1>6. Asked' /\ Searches(own)' /\ NewChain(own)'
  BY <1>1, <1>2 DEF InCall, Asked, Searches, NewChain, SameCall, SameSlot, Searching, Extends, Building
<1>7. Place(own)'
  BY <1>1, <1>2, <1>4 DEF InCall, Place, SameCall, SameSlot, Building
<1>8. OldChain(own)'
  BY <1>1, <1>2, <1>3, <1>4, <1>5 DEF InCall, OldChain, SameCall, SameSlot
<1>. QED
  BY <1>4, <1>6, <1>7, <1>8 DEF Volume, InCall

(* While a chain is built, the slot and the old chain stay as they are.    *)
LEMMA SlotKept ==
  ASSUME IInv, NEW own \in Owners, Volume(own), pc \in Building, pc' \in Building,
         SameCall, SameSlot, UNCHANGED <<dirs, dirSet, cwd, trail>>
  PROVE  Asked' /\ Searches(own)' /\ Place(own)' /\ OldChain(own)'
<1>1. InCall(own)
  BY DEF Volume
<1>2. Asked' /\ Searches(own)'
  BY <1>1 DEF InCall, Asked, Searches, SameCall, Searching, Extends, Building
<1>3. Place(own)'
  BY <1>1 DEF InCall, Place, SameCall, SameSlot, DirBlocks, Building
<1>4. OldChain(own)'
  BY <1>1 DEF InCall, OldChain, SameCall, SameSlot, Building
<1>. QED
  BY <1>2, <1>3, <1>4

LEMMA AllocClusterSound ==
  ASSUME IInv, NEW own \in Owners, Volume(own), Undamaged', AllocCluster
  PROVE  Volume(own)'
<1>1. /\ OnDisk(own) /\ InCall(own) /\ pc = "alloc" /\ op \in Locals /\ FreeClusters # {}
      /\ UNCHANGED <<dirs, dirSet, cwd, trail>> /\ op.kind \in {"write", "mkdir"}
  BY ReadsTyped DEF Volume, IInv, AllocCluster, MoreToWrite, session
<1>2. PICK cl : cl = LowestOf(FreeClusters)
  OBVIOUS
<1>. DEFINE o == [op EXCEPT !.cl = cl, !.first = IF op.n = 0 THEN cl ELSE op.first]
<1>3. PICK r : SetFat(cl, EOF, r) /\ r # "lost"
  BY <1>2 DEF AllocCluster, Undamaged
<1>4. /\ op' = o
      /\ pc' = IF op.kind = "mkdir" THEN "mkblock" ELSE IF op.prev # 0 THEN "link" ELSE "data"
  BY <1>1, <1>2 DEF AllocCluster, Goto
<1>5. /\ SameCall /\ SameSlot /\ op'.cl = cl /\ op'.first = (IF op.n = 0 THEN cl ELSE op.first)
      /\ op'.prev = op.prev /\ op'.n = op.n /\ op'.failed = op.failed
  BY <1>1, <1>4 DEF Locals, SameCall, SameSlot
<1>. HIDE DEF o
<1>6. cl \in Cluster /\ fat[cl] = Free
  BY <1>1, <1>2, FreeIsFree
<1>7. cl \notin dirSet /\ Unpointed(cl) /\ Unnamed(cl)
  BY <1>1, <1>6, FreeFacts
<1>8. /\ fat'[cl] = EOF /\ \A d \in Cluster : d # cl => fat'[d] = fat[d]
      /\ EOF \notin Cluster /\ Free # EOF
  BY <1>3, <1>6, Rewritten, Numbers
<1>9. \A c \in Cluster : Unpointed(c) => Unpointed(c)'
  BY <1>8 DEF Unpointed
<1>10. Chained(own)'
  <2>1. /\ \A c \in Cluster : fat[c] \in Cluster =>
             /\ fat[fat[c]] # Free
             /\ \A d \in Cluster : fat[d] = fat[c] => d = c
             /\ (c \in dirSet <=> fat[c] \in dirSet)
        /\ \A c \in dirSet : /\ fat[c] # Free /\ own[c] # Root
                             /\ fat[c] \in dirSet => own[fat[c]] = own[c]
        /\ own[Root] = Root
    BY <1>1 DEF OnDisk, Chained, Extending
  <2>2. \A c \in Cluster : fat'[c] \in Cluster => c # cl /\ fat'[c] = fat[c]
    BY <1>8
  <2>3. \A c \in Cluster : fat'[c] \in Cluster =>
           /\ fat'[fat'[c]] # Free
           /\ \A d \in Cluster : fat'[d] = fat'[c] => d = c
           /\ (c \in dirSet <=> fat'[c] \in dirSet)
    BY <1>8, <2>1, <2>2
  <2>4. \A c \in dirSet : fat'[c] = fat[c]
    BY <1>7, <1>8, DiskTyped
  <2>. QED
    BY <1>1, <2>1, <2>3, <2>4 DEF Chained
<1>11. ASSUME NEW b \in Dirs, NEW i \in SlotsOf(b), Live(b, i)
       PROVE  fat'[dirs[b][i].first] # Free /\ Unpointed(dirs[b][i].first)'
  <2>1. PICK h : h = dirs[b][i].first
    OBVIOUS
  <2>2. h \in Cluster /\ fat[h] # Free /\ Unpointed(h)
    BY <1>1, <1>11, <2>1, HeadFacts
  <2>3. fat'[h] # Free /\ Unpointed(h)'
    BY <1>8, <1>9, <2>2
  <2>. QED
    BY <1>1, <2>1, <2>3
<1>12. OnDisk(own)'
  BY <1>1, <1>5, <1>10, <1>11, TableChanged DEF SameVacated
<1>13. \A c : Unnamed(c)' <=> Unnamed(c)
  BY <1>1, <1>5, LiveKept DEF SameVacated
<1>14. NewChain(own)'
  <2>1. /\ ~op.failed /\ (op.kind = "mkdir" => op.found # "hit" /\ Fresh) /\ Alone(op.first)
        /\ op.kind = "write" => /\ op.first \notin dirSet /\ op.prev \notin dirSet
                                /\ op.prev # 0 => fat[op.prev] = EOF
                                /\ op.n = 0 => op.prev = 0
    BY <1>1 DEF InCall, NewChain, Building
  <2>2. PICK f, p, n : f = op'.first /\ p = op.prev /\ n = op.n
    OBVIOUS
  <2>3. Alone(f)'
    <3>1. CASE n = 0
      BY <1>5, <1>7, <1>8, <1>9, <1>13, <2>2, <3>1 DEF Alone
    <3>2. CASE n # 0
      <4>1. f = op.first
        BY <1>5, <2>2, <3>2
      <4>. QED
        BY <1>8, <1>9, <1>13, <2>1, <4>1 DEF Alone
    <3>. QED
      BY <3>1, <3>2
  <2>4. p \in Dirs /\ n \in Nat /\ (p # 0 => p \in Cluster)
    BY <2>2, FieldsTyped, Numbers
  <2>5. op.kind = "write" /\ p # 0 => fat'[p] = EOF /\ p # cl /\ n # 0 /\ n > 0
    BY <1>6, <1>8, <2>1, <2>2, <2>4
  <2>6. n # 0 /\ op.kind = "write" => f = op.first /\ f # cl
    <3>1. n # 0 => f = op.first
      BY <1>5, <2>2
    <3>2. op.first = cl => FALSE
      BY <1>6, <2>1 DEF Alone
    <3>. QED
      BY <3>1, <3>2
  <2>7. Unpointed(cl)' /\ Unnamed(cl)'
    BY <1>6, <1>7, <1>9, <1>13
  <2>8. CASE op.kind = "mkdir"
    <3>1. pc' = "mkblock" /\ f = cl /\ n = 0 /\ op'.kind = "mkdir" /\ op'.found # "hit"
      BY <1>4, <1>5, <2>1, <2>2, <2>8 DEF Fresh, SameCall, SameSlot
    <3>. QED
      BY <1>1, <1>5, <1>7, <1>8, <2>1, <2>2, <2>3, <2>7, <3>1 DEF NewChain, Building, Unpointed
  <2>9. CASE op.kind = "write"
    <3>1. /\ pc' = (IF p # 0 THEN "link" ELSE "data") /\ op'.kind = "write" /\ op'.prev = p /\ op'.n = n
          /\ op'.first = f /\ op'.cl = cl /\ op'.failed = op.failed
      BY <1>4, <1>5, <2>2, <2>9 DEF SameCall
    <3>2. f \notin dirSet /\ p \notin dirSet
      BY <1>5, <1>7, <2>1, <2>2, <2>9
    <3>3. n = 0 => f = cl
      BY <1>5, <2>2
    <3>. QED
      BY <1>1, <1>7, <1>8, <2>1, <2>2, <2>3, <2>5, <2>6, <2>7, <2>9, <3>1, <3>2, <3>3
         DEF NewChain, Building, Unpointed
  <2>. QED
    BY <1>1, <2>8, <2>9
<1>15. Asked' /\ Searches(own)' /\ Place(own)' /\ OldChain(own)'
  BY <1>1, <1>4, <1>5, SlotKept DEF Building
<1>. QED
  BY <1>12, <1>14, <1>15 DEF Volume, InCall

LEMMA LinkClusterSound ==
  ASSUME IInv, NEW own \in Owners, Volume(own), Undamaged', LinkCluster
  PROVE  Volume(own)'
<1>1. /\ OnDisk(own) /\ InCall(own) /\ pc = "link" /\ pc' = "data" /\ op' = op
      /\ op.kind = "write" /\ op.cl \in Cluster /\ op.prev \in Cluster
      /\ UNCHANGED <<dirs, dirSet, cwd, trail>>
  BY DEF Volume, IInv, LinkCluster, session, Goto, CallSound
<1>2. PICK r : SetFat(op.prev, op.cl, r) /\ r # "lost"
  BY DEF LinkCluster, Undamaged
<1>3. PICK cl, p, f : cl = op.cl /\ p = op.prev /\ f = op.first
  OBVIOUS
<1>4. /\ ~op.failed /\ Alone(f) /\ f \notin dirSet /\ p \notin dirSet
      /\ fat[p] = EOF /\ cl \notin dirSet /\ fat[cl] = EOF /\ Unnamed(cl) /\ Unpointed(cl)
      /\ op.n > 0 /\ cl # p /\ cl # f
  BY <1>1, <1>3, Numbers DEF InCall, NewChain, Building
<1>5. /\ fat'[p] = cl /\ (\A d \in Cluster : d # p => fat'[d] = fat[d])
      /\ cl \in Cluster /\ p \in Cluster /\ EOF \notin Cluster /\ Free \notin Cluster /\ Free # EOF
  BY <1>1, <1>2, <1>3, Rewritten, Numbers
<1>6. SameCall /\ SameSlot /\ SameVacated
  BY <1>1 DEF SameCall, SameSlot, SameVacated
<1>7. \A c : c # cl /\ Unpointed(c) => Unpointed(c)'
  BY <1>5 DEF Unpointed
<1>8. Chained(own)'
  <2>1. /\ \A c \in Cluster : fat[c] \in Cluster =>
             /\ fat[fat[c]] # Free
             /\ \A d \in Cluster : fat[d] = fat[c] => d = c
             /\ (c \in dirSet <=> fat[c] \in dirSet)
        /\ \A c \in dirSet : /\ fat[c] # Free /\ own[c] # Root
                             /\ fat[c] \in dirSet => own[fat[c]] = own[c]
        /\ own[Root] = Root
    BY <1>1 DEF OnDisk, Chained, Extending
  <2>2. \A c \in Cluster : fat'[c] \in Cluster =>
           /\ fat'[fat'[c]] # Free
           /\ \A d \in Cluster : fat'[d] = fat'[c] => d = c
           /\ (c \in dirSet <=> fat'[c] \in dirSet)
    BY <1>4, <1>5, <2>1 DEF Unpointed
  <2>3. \A c \in dirSet : fat'[c] = fat[c]
    BY <1>4, <1>5, DiskTyped
  <2>. QED
    BY <1>1, <2>1, <2>2, <2>3 DEF Chained
<1>9. ASSUME NEW b \in Dirs, NEW i \in SlotsOf(b), Live(b, i)
      PROVE  fat'[dirs[b][i].first] # Free /\ Unpointed(dirs[b][i].first)'
  <2>1. PICK h : h = dirs[b][i].first
    OBVIOUS
  <2>2. h \in Cluster /\ fat[h] # Free /\ Unpointed(h) /\ h # cl
    BY <1>1, <1>4, <1>9, <2>1, HeadFacts DEF Unnamed, Heads
  <2>3. fat'[h] # Free /\ Unpointed(h)'
    BY <1>5, <1>7, <2>2
  <2>. QED
    BY <1>1, <2>1, <2>3
<1>10. OnDisk(own)'
  BY <1>1, <1>6, <1>8, <1>9, TableChanged
<1>11. \A c : Unnamed(c)' <=> Unnamed(c)
  BY <1>1, <1>6, LiveKept
<1>12. Alone(f)'
  BY <1>4, <1>5, <1>7, <1>11 DEF Alone
<1>13. NewChain(own)'
  BY <1>1, <1>3, <1>4, <1>5, <1>11, <1>12 DEF NewChain, Building
<1>14. Asked' /\ Searches(own)' /\ Place(own)' /\ OldChain(own)'
  BY <1>1, <1>6, SlotKept DEF Building
<1>. QED
  BY <1>10, <1>13, <1>14 DEF Volume, InCall

LEMMA BuildSound ==
  ASSUME IInv, NEW own \in Owners, Volume(own), Undamaged',
         AllocCluster \/ AllocFails \/ LinkCluster \/ WriteBlock \/ Seal
  PROVE  Volume(own)'
<1>1. OnDisk(own) /\ InCall(own) /\ op \in Locals
  BY ReadsTyped DEF Volume, IInv
<1>2. CASE AllocFails
  <2>1. /\ pc = "alloc" /\ UNCHANGED <<fat, dirs, dirSet, cwd, trail>> /\ op.kind \in {"write", "mkdir"}
    BY <1>2 DEF AllocFails, MoreToWrite, disk, session
  <2>2. CASE op.kind = "mkdir"
    BY <1>1, <1>2, <2>1, <2>2, QuietReturn DEF AllocFails, Replacing, Extends
  <2>3. CASE op.kind = "write"
    BY <1>1, <1>2, <2>1, <2>3, GiveUpSound DEF AllocFails
  <2>. QED
    BY <2>1, <2>2, <2>3
<1>3. CASE WriteBlock
  <2>1. /\ pc = "data" /\ UNCHANGED <<fat, dirs, dirSet, cwd, trail>> /\ op.kind = "write"
        /\ \/ GiveUp
           \/ pc' = "alloc" /\ op' = [op EXCEPT !.prev = op.cl, !.cl = 0, !.n = op.n + 1]
    BY <1>3 DEF WriteBlock, IInv, CallSound, session, Goto
  <2>2. CASE GiveUp
    BY <1>1, <2>1, <2>2, GiveUpSound
  <2>3. CASE pc' = "alloc" /\ op' = [op EXCEPT !.prev = op.cl, !.cl = 0, !.n = op.n + 1]
    <3>1. /\ SameCall /\ SameSlot /\ op'.first = op.first /\ op'.prev = op.cl /\ op'.n = op.n + 1
          /\ op'.failed = op.failed /\ op.n \in Nat
      BY <1>1, <2>3, FieldsTyped DEF Locals, SameCall, SameSlot
    <3>2. OnDisk(own)' /\ \A c : Alone(c)' <=> Alone(c)
      BY <1>1, <2>1, <3>1, QuietKept DEF SameVacated, Extends
    <3>3. PICK f : f = op.first
      OBVIOUS
    <3>4. /\ ~op.failed /\ Alone(f) /\ f \notin dirSet /\ op.cl \notin dirSet /\ fat[op.cl] = EOF
      BY <1>1, <2>1, <3>3 DEF InCall, NewChain, Building
    <3>5. op.n + 1 # 0
      BY <3>1
    <3>6. NewChain(own)'
      BY <2>1, <2>3, <3>1, <3>2, <3>3, <3>4, <3>5 DEF NewChain, Building, SameCall
    <3>7. Asked' /\ Searches(own)' /\ Place(own)' /\ OldChain(own)'
      BY <2>1, <2>3, <3>1, SlotKept DEF Building
    <3>. QED
      BY <3>2, <3>6, <3>7 DEF Volume, InCall
  <2>. QED
    BY <2>1, <2>2, <2>3
<1>4. CASE Seal
  <2>1. /\ pc = "alloc" /\ pc' = "entry" /\ op' = op /\ op.kind = "write"
        /\ UNCHANGED <<dirs, dirSet, cwd, trail>>
    BY <1>4 DEF Seal, Goto, session
  <2>2. /\ ~op.failed /\ Alone(op.first) /\ op.first \notin dirSet /\ op.prev \notin dirSet
        /\ op.prev # 0 => fat[op.prev] = EOF
        /\ op.n = 0 => op.prev = 0 /\ op.first = 0
    BY <1>1, <2>1 DEF InCall, NewChain, Building
  <2>3. UNCHANGED fat
    <3>1. CASE op.prev = 0
      BY <1>4, <3>1 DEF Seal
    <3>2. CASE op.prev # 0
      <4>1. PICK r \in Outcome : SetFat(op.prev, EOF, r)
        BY <1>4, <3>2 DEF Seal
      <4>2. op.prev \in Cluster /\ fat[op.prev] = EOF
        BY <2>2, <3>2, FieldsTyped, Numbers
      <4>. QED
        BY <4>1, <4>2 DEF SetFat, IInv, TypeOK
    <3>. QED
      BY <3>1, <3>2
  <2>4. SameCall /\ SameSlot
    BY <2>1 DEF SameCall, SameSlot
  <2>5. OnDisk(own)' /\ \A c : Alone(c)' <=> Alone(c)
    BY <1>1, <2>1, <2>3, <2>4, QuietKept DEF SameVacated, Extends
  <2>6. PICK f : f = op.first
    OBVIOUS
  <2>7. NewChain(own)'
    BY <2>1, <2>2, <2>3, <2>5, <2>6 DEF NewChain, Building
  <2>8. Asked' /\ Searches(own)' /\ Place(own)' /\ OldChain(own)'
    BY <2>1, <2>4, SlotKept DEF Building
  <2>. QED
    BY <2>5, <2>7, <2>8 DEF Volume, InCall
<1>. QED
  BY <1>2, <1>3, <1>4, AllocClusterSound, LinkClusterSound

-----------------------------------------------------------------------------
LEMMA MkdirBlockSound ==
  ASSUME IInv, NEW own \in Owners, Volume(own), Undamaged', MkdirBlock
  PROVE  \E own2 \in Owners : Volume(own2)'
<1>1. /\ OnDisk(own) /\ InCall(own) /\ pc = "mkblock" /\ pc' = "entry" /\ op' = op /\ op.cl \in Cluster
      /\ UNCHANGED <<fat, cwd, trail>> /\ dirSet' = dirSet \cup {op.cl}
  BY DEF Volume, IInv, MkdirBlock, session, CallSound, Goto
<1>2. PICK cl : cl = op.cl
  OBVIOUS
<1>3. dirs' = [dirs EXCEPT ![cl] = [EmptyBlock(cl) EXCEPT
                  ![1] = DotSlot(".", cl), ![2] = DotSlot("..", op.dir)]]
  BY <1>2 DEF MkdirBlock, Parent, Undamaged
<1>4. /\ cl \in Cluster /\ cl \notin dirSet /\ fat[cl] = EOF /\ Unnamed(cl) /\ Unpointed(cl)
      /\ op.kind = "mkdir" /\ op.first = cl /\ ~op.failed /\ op.found # "hit" /\ Alone(cl)
  BY <1>1, <1>2 DEF InCall, NewChain, Building
<1>5. /\ cl \in Dirs /\ cl # Root /\ Root \in Dirs /\ EOF \notin Dirs /\ dirSet \subseteq Cluster
      /\ Cluster \subseteq Dirs
  BY <1>4, Numbers, DiskTyped
<1>6. /\ \A b \in Dirs : b # cl => dirs'[b] = dirs[b]
      /\ \A i \in SlotsOf(cl) : dirs'[cl][i].name \notin Names
      /\ dirs'[cl][2].name = ".." /\ dirs'[cl][2].first = op.dir
  <2>1. DOMAIN dirs = Dirs /\ 2 \in SlotsOf(cl) /\ 1 \in SlotsOf(cl)
    BY <1>4, Numbers DEF IInv, TypeOK
  <2>2. dirs'[cl] = [i \in SlotsOf(cl) |-> IF i = 2 THEN DotSlot("..", op.dir)
                                           ELSE IF i = 1 THEN DotSlot(".", cl) ELSE Mark("end")]
    BY <1>3, <1>5, <2>1 DEF EmptyBlock
  <2>3. /\ DotSlot("..", op.dir).name = ".." /\ DotSlot("..", op.dir).first = op.dir
        /\ DotSlot(".", cl).name = "." /\ Mark("end").name = "end"
    BY DEF DotSlot, Mark
  <2>. QED
    BY <1>3, <1>5, <2>1, <2>2, <2>3, Numbers
<1>7. SameCall /\ SameSlot /\ SameVacated
  BY <1>1 DEF SameCall, SameSlot, SameVacated
<1>. DEFINE own2 == [own EXCEPT ![cl] = cl]
<1>8. own2 \in Owners /\ own2[cl] = cl /\ \A b \in Dirs : b # cl => own2[b] = own[b]
  BY <1>5 DEF Owners
<1>. HIDE DEF own2
<1>9. Chained(own2)'
  <2>1. /\ \A c \in Cluster : fat[c] \in Cluster =>
             /\ fat[fat[c]] # Free
             /\ \A d \in Cluster : fat[d] = fat[c] => d = c
             /\ (c \in dirSet <=> fat[c] \in dirSet)
        /\ \A c \in dirSet : /\ fat[c] # Free /\ own[c] # Root
                             /\ fat[c] \in dirSet => own[fat[c]] = own[c]
        /\ own[Root] = Root
    BY <1>1 DEF OnDisk, Chained, Extending
  <2>2. \A c \in Cluster : fat[c] # cl
    BY <1>4 DEF Unpointed
  <2>3. \A c \in Cluster : fat[c] \in Cluster => (c \in dirSet' <=> fat[c] \in dirSet')
    BY <1>1, <1>2, <1>4, <1>5, <2>1, <2>2
  <2>4. ASSUME NEW c \in dirSet'
        PROVE  fat[c] # Free /\ own2[c] # Root /\ (fat[c] \in dirSet' => own2[fat[c]] = own2[c])
    <3>1. CASE c = cl
      BY <1>1, <1>2, <1>4, <1>5, <1>8, <3>1, Numbers
    <3>2. CASE c # cl
      <4>1. c \in dirSet /\ c \in Cluster /\ own2[c] = own[c]
        BY <1>1, <1>2, <1>5, <1>8, <3>2
      <4>2. fat[c] \in dirSet' => fat[c] \in dirSet /\ own2[fat[c]] = own[fat[c]]
        BY <1>1, <1>2, <1>5, <1>8, <2>2, <4>1
      <4>. QED
        BY <2>1, <4>1, <4>2
    <3>. QED
      BY <3>1, <3>2
  <2>5. own2[Root] = Root
    BY <1>5, <1>8, <2>1
  <2>. QED
    BY <1>1, <2>1, <2>3, <2>4, <2>5 DEF Chained, Extending
<1>10. OnDisk(own2)' /\ \A c : Unnamed(c)' <=> Unnamed(c)
  BY <1>1, <1>2, <1>4, <1>6, <1>7, <1>8, <1>9, BlockAdded
<1>11. Asked' /\ Searches(own2)' /\ OldChain(own2)'
  BY <1>1, <1>4 DEF InCall, Asked, Searches, OldChain, Searching, Extends
<1>12. Place(own2)'
  <2>1. op.blk \in DirBlocks /\ own[op.blk] = op.dir /\ dirs[op.blk][op.idx].name \in {"end", "deleted"}
    BY <1>1, <1>4 DEF InCall, Place, Building
  <2>2. op.blk # cl /\ op.blk \in Dirs
    BY <1>4, <1>5, <2>1 DEF DirBlocks
  <2>. QED
    BY <1>1, <1>4, <1>6, <1>8, <2>1, <2>2 DEF Place, DirBlocks
<1>13. NewChain(own2)'
  <2>1. Alone(cl)'
    BY <1>1, <1>4, <1>10 DEF Alone, Unpointed
  <2>. QED
    BY <1>1, <1>2, <1>4, <1>6, <1>8, <2>1 DEF NewChain, Building
<1>. QED
  BY <1>8, <1>10, <1>11, <1>12, <1>13 DEF Volume, InCall

-----------------------------------------------------------------------------
(* The slot is written: it names the new chain, and all others stay.       *)
LEMMA SetEntrySound ==
  ASSUME IInv, NEW own \in Owners, Volume(own), Undamaged', SetEntry
  PROVE  Volume(own)'
<1>1. /\ OnDisk(own) /\ InCall(own) /\ pc = "entry" /\ op \in Locals
      /\ UNCHANGED <<fat, cwd, trail, dirSet>> /\ Return
  BY ReadsTyped DEF Volume, IInv, SetEntry, Abandon
<1>2. PICK b0, i0, s : b0 = op.blk /\ i0 = op.idx /\ s = NewEntry
  OBVIOUS
<1>3. PICK r \in Outcome : /\ SetSlot(b0, i0, s, r)
                           /\ r = "lost" /\ OverwriteOpen => "overwrite" \in damage'
  BY <1>2 DEF SetEntry, Abandon
<1>4. /\ b0 \in DirBlocks /\ own[b0] = op.dir /\ b0 \in Dirs /\ i0 \in SlotsOf(b0)
      /\ IF op.found = "hit" THEN dirs[b0][i0].name = op.name /\ dirs[b0][i0].first = op.old
                             ELSE dirs[b0][i0].name \in {"end", "deleted"}
      /\ op.kind \in {"write", "mkdir"} /\ op.name \in Names /\ (op.kind = "mkdir" => op.found # "hit")
      /\ Alone(op.first)
  BY <1>1, <1>2, FieldsTyped DEF InCall, Place, Building, NewChain, Asked
<1>5. CASE r = "lost"
  <2>1. UNCHANGED dirs
    BY <1>3, <1>5 DEF SetSlot
  <2>2. ~Replacing \/ op.old \notin Cluster
    BY <1>1, <1>3, <1>5 DEF OverwriteOpen, Replacing, Undamaged
  <2>. QED
    BY <1>1, <2>1, <2>2, QuietReturn DEF Building, Extends
<1>6. CASE r # "lost"
  <2>1. /\ dirs'[b0][i0] = s
        /\ \A b \in Dirs : \A i \in SlotsOf(b) : ~(b = b0 /\ i = i0) => dirs'[b][i] = dirs[b][i]
    BY <1>3, <1>4, <1>6 DEF SetSlot, IInv, TypeOK
  <2>2. ~Live(b0, i0) /\ dirs[b0][i0].name # ".."
    BY <1>2, <1>4, Numbers DEF Live, Used, Vacated
  <2>3. s.name \in Names /\ s.first = op.first /\ (s.dir <=> op.kind = "mkdir")
    BY <1>2, <1>4 DEF NewEntry
  <2>4. Live(b0, i0)' <=> op.first # 0
    BY <1>1, <1>4, <2>1, <2>3, ReturnInCall DEF Live, Used, Vacated, Replacing, DirBlocks
  <2>5. ASSUME NEW b \in Dirs, NEW i \in SlotsOf(b), ~(b = b0 /\ i = i0)
        PROVE  Live(b, i)' <=> Live(b, i)
    BY <1>1, <1>2, <2>1, <2>5, ReturnInCall DEF Live, Used, Vacated, Replacing, DirBlocks
  <2>6. \A h \in dirSet : dirs[h][2].name = ".." => dirs'[h][2] = dirs[h][2]
    BY <2>1, <2>2, DiskTyped, Numbers
  <2>7. Chained(own)'
    BY <1>1 DEF OnDisk, Chained, Extending
  <2>8. /\ op.kind = "mkdir" => /\ op.first \in dirSet /\ own[op.first] = op.first /\ op.first # 0
                                /\ dirs[op.first][2].name = ".." /\ dirs[op.first][2].first = op.dir
        /\ op.kind = "write" => op.first \notin dirSet
    BY <1>1, <1>4, DiskTyped, Numbers DEF InCall, NewChain, Building
  <2>9. Headed'
    <3>1. ASSUME NEW b \in DirBlocks, NEW i \in SlotsOf(b), dirs'[b][i].name \in Names, dirs'[b][i].dir
          PROVE  dirs'[b][i].first # 0
      <4>1. b \in Dirs
        BY DiskTyped, Numbers DEF DirBlocks
      <4>2. CASE b = b0 /\ i = i0
        <5>1. s.dir /\ dirs'[b][i].first = s.first
          BY <2>1, <3>1, <4>2
        <5>2. op.kind = "mkdir"
          BY <2>3, <5>1
        <5>. QED
          BY <2>3, <2>8, <5>1, <5>2
      <4>3. CASE ~(b = b0 /\ i = i0)
        BY <1>1, <2>1, <3>1, <4>1, <4>3 DEF OnDisk, Headed
      <4>. QED
        BY <4>2, <4>3
    <3>. QED
      BY <1>1, <3>1 DEF Headed, DirBlocks
  <2>10. ASSUME NEW b \in Dirs, NEW i \in SlotsOf(b), Live(b, i)
         PROVE  /\ NamesChain(dirs[b][i], b, own)' /\ dirs'[b][i] = dirs[b][i] /\ ~(b = b0 /\ i = i0)
                /\ dirs[b][i].first # op.first
    <3>1. ~(b = b0 /\ i = i0) /\ dirs'[b][i] = dirs[b][i]
      BY <2>1, <2>2, <2>10
    <3>2. NamesChain(dirs[b][i], b, own)
      BY <1>1, <2>10 DEF OnDisk, Named
    <3>3. dirs[b][i].first # op.first
      BY <1>1, <1>4, <2>10, HeadFacts DEF Alone, Unnamed, Heads
    <3>. QED
      BY <1>1, <2>6, <3>1, <3>2, <3>3 DEF NamesChain, Unpointed
  <2>11. op.first # 0 => NamesChain(s, b0, own)'
    <3>. SUFFICES ASSUME op.first # 0 PROVE NamesChain(s, b0, own)'
      OBVIOUS
    <3>1. PICK f, d : f = op.first /\ d = op.dir
      OBVIOUS
    <3>2. /\ f \in Cluster /\ fat[f] # Free /\ Unpointed(f) /\ s.first = f
          /\ s.dir <=> op.kind = "mkdir"
      BY <1>4, <2>3, <3>1, FieldsTyped, Numbers DEF Alone
    <3>3. s.dir <=> f \in dirSet
      BY <1>4, <2>8, <3>1, <3>2
    <3>4. f \in dirSet => /\ own[f] = f /\ own[b0] = d
                          /\ dirs[f][2].name = ".." /\ dirs[f][2].first = d
      BY <1>4, <2>8, <3>1
    <3>5. f \in dirSet => /\ own[f] = f /\ own[b0] = d
                          /\ dirs'[f][2].name = ".." /\ dirs'[f][2].first = d
      BY <2>6, <3>4
    <3>. QED
      BY <1>1, <3>2, <3>3, <3>5 DEF NamesChain, Unpointed
  <2>12. Named(own)'
    <3>1. ASSUME NEW b \in Dirs, NEW i \in SlotsOf(b), Live(b, i)'
          PROVE  /\ NamesChain(dirs[b][i], b, own)'
                 /\ \A c \in Dirs : \A j \in SlotsOf(c) :
                      Live(c, j)' /\ dirs'[c][j].first = dirs'[b][i].first => b = c /\ i = j
      <4>1. CASE b = b0 /\ i = i0
        <5>1. op.first # 0 /\ dirs'[b][i].first = op.first
          BY <2>1, <2>3, <2>4, <3>1, <4>1
        <5>2. NamesChain(dirs[b][i], b, own)'
          BY <2>1, <2>11, <4>1, <5>1
        <5>. QED
          BY <2>5, <2>10, <4>1, <5>1, <5>2
      <4>2. CASE ~(b = b0 /\ i = i0)
        <5>1. Live(b, i)
          BY <2>5, <3>1, <4>2
        <5>2. dirs'[b][i] = dirs[b][i] /\ dirs[b][i].first # op.first /\ NamesChain(dirs[b][i], b, own)'
          BY <2>10, <5>1
        <5>3. ASSUME NEW c \in Dirs, NEW j \in SlotsOf(c), Live(c, j)',
                     dirs'[c][j].first = dirs'[b][i].first
              PROVE  b = c /\ i = j
          <6>1. ~(c = b0 /\ j = i0)
            BY <2>1, <2>3, <5>2, <5>3
          <6>2. Live(c, j) /\ dirs'[c][j] = dirs[c][j]
            BY <2>1, <2>5, <5>3, <6>1
          <6>. QED
            BY <1>1, <5>1, <5>2, <5>3, <6>2 DEF OnDisk, Named
        <5>. QED
          BY <5>2, <5>3
      <4>. QED
        BY <4>1, <4>2
    <3>. QED
      BY <3>1 DEF Named
  <2>13. Entered(own)'
    <3>1. ASSUME NEW i \in 1 .. Len(trail) PROVE NamedAbove(i, own)'
      <4>1. PICK b \in Dirs : \E j \in SlotsOf(b) : Heads(trail[i], b, j) /\ own[b] = Above(i)
        BY <1>1 DEF OnDisk, Entered, NamedAbove
      <4>2. PICK j \in SlotsOf(b) : Heads(trail[i], b, j)
        BY <4>1
      <4>3. Heads(trail[i], b, j)'
        BY <1>1, <2>5, <2>10, <4>2 DEF Heads
      <4>. QED
        BY <1>1, <4>1, <4>3 DEF NamedAbove, Above
    <3>. QED
      BY <1>1, <3>1 DEF OnDisk, Entered, Above
  <2>. QED
    BY <1>1, <2>7, <2>9, <2>12, <2>13, ReturnInCall DEF Volume, OnDisk
<1>. QED
  BY <1>5, <1>6

(* The slot is marked as deleted: one name less.                           *)
LEMMA MarkDeletedSound ==
  ASSUME IInv, NEW own \in Owners, Volume(own), Undamaged', MarkDeleted
  PROVE  Volume(own)'
<1>1. /\ OnDisk(own) /\ InCall(own) /\ pc = "mark" /\ op \in Locals
      /\ UNCHANGED <<fat, cwd, trail, dirSet>>
  BY ReadsTyped DEF Volume, IInv, MarkDeleted, session
<1>2. PICK b0, i0 : b0 = op.blk /\ i0 = op.idx
  OBVIOUS
<1>3. PICK r \in Outcome : /\ SetSlot(b0, i0, Mark("deleted"), r)
                           /\ IF r = "ok" THEN pc' = "free" /\ op' = op ELSE Return
  BY <1>2 DEF MarkDeleted, Goto
<1>4. /\ b0 \in DirBlocks /\ own[b0] = op.dir /\ b0 \in Dirs /\ i0 \in SlotsOf(b0)
      /\ op.kind = "delete" /\ op.found = "hit" /\ op.cur = op.old /\ op.name \in Names
      /\ dirs[b0][i0].name = op.name /\ dirs[b0][i0].first = op.old /\ Fresh
      /\ \A i \in 1 .. Len(trail) : trail[i] # op.old
  BY <1>1, <1>2, FieldsTyped DEF InCall, Place, OldChain, Asked, Searches
<1>5. CASE r = "lost"
  <2>1. UNCHANGED dirs /\ Return
    BY <1>3, <1>5 DEF SetSlot
  <2>. QED
    BY <1>1, <1>4, <2>1, QuietReturn DEF Extends, Replacing
<1>6. CASE r # "lost"
  <2>1. /\ dirs'[b0][i0] = Mark("deleted")
        /\ \A b \in Dirs : \A i \in SlotsOf(b) : ~(b = b0 /\ i = i0) => dirs'[b][i] = dirs[b][i]
    BY <1>3, <1>4, <1>6 DEF SetSlot, IInv, TypeOK
  <2>2. dirs'[b0][i0].name = "deleted" /\ "deleted" \notin Names
    BY <2>1, Numbers DEF Mark
  <2>3. ~Replacing /\ ~Replacing'
    BY <1>3, <1>4, ReturnInCall DEF Replacing
  <2>4. ~Live(b0, i0)'
    BY <2>2 DEF Live, Used
  <2>5. ASSUME NEW b \in Dirs, NEW i \in SlotsOf(b), ~(b = b0 /\ i = i0)
        PROVE  Live(b, i)' <=> Live(b, i)
    BY <1>1, <2>1, <2>3, <2>5 DEF Live, Used, Vacated, Replacing, DirBlocks
  <2>6. \A h \in dirSet : dirs[h][2].name = ".." => dirs'[h][2] = dirs[h][2]
    BY <1>4, <2>1, DiskTyped, Numbers
  <2>7. Chained(own)'
    BY <1>1, <1>3 DEF OnDisk, Chained, Extending, Return, Goto
  <2>8. Headed'
    <3>1. DirBlocks' = DirBlocks /\ DirBlocks \subseteq Dirs
      BY <1>1, DiskTyped, Numbers DEF DirBlocks
    <3>. QED
      BY <1>1, <2>1, <2>2, <3>1 DEF OnDisk, Headed
  <2>9. ASSUME NEW b \in Dirs, NEW i \in SlotsOf(b), Live(b, i)'
        PROVE  /\ ~(b = b0 /\ i = i0) /\ Live(b, i) /\ dirs'[b][i] = dirs[b][i]
               /\ NamesChain(dirs[b][i], b, own)'
    <3>1. ~(b = b0 /\ i = i0)
      BY <2>4, <2>9
    <3>2. Live(b, i) /\ dirs'[b][i] = dirs[b][i]
      BY <2>1, <2>5, <2>9, <3>1
    <3>3. NamesChain(dirs[b][i], b, own)
      BY <1>1, <3>2 DEF OnDisk, Named
    <3>. QED
      BY <1>1, <2>6, <3>1, <3>2, <3>3 DEF NamesChain, Unpointed
  <2>10. Named(own)'
    BY <1>1, <2>9 DEF OnDisk, Named
  <2>11. Entered(own)'
    <3>1. ASSUME NEW i \in 1 .. Len(trail) PROVE NamedAbove(i, own)'
      <4>1. PICK b \in Dirs : \E j \in SlotsOf(b) : Heads(trail[i], b, j) /\ own[b] = Above(i)
        BY <1>1 DEF OnDisk, Entered, NamedAbove
      <4>2. PICK j \in SlotsOf(b) : Heads(trail[i], b, j)
        BY <4>1
      <4>3. ~(b = b0 /\ j = i0)
        BY <1>4, <4>2 DEF Heads
      <4>4. Heads(trail[i], b, j)'
        BY <1>1, <2>1, <2>5, <4>2, <4>3 DEF Heads
      <4>. QED
        BY <1>1, <4>1, <4>4 DEF NamedAbove, Above
    <3>. QED
      BY <1>1, <3>1 DEF OnDisk, Entered, Above
  <2>12. CASE r = "ok"
    <3>1. pc' = "free" /\ op' = op
      BY <1>3, <2>12
    <3>2. Asked' /\ Searches(own)' /\ Place(own)' /\ NewChain(own)'
      BY <1>1, <1>4, <3>1 DEF InCall, Asked, Searches, Place, NewChain, Fresh, Searching, Extends, Building
    <3>3. PICK h : h = op.old
      OBVIOUS
    <3>4. h \in Cluster => /\ fat[h] # Free /\ Unpointed(h) /\ Unnamed(h)'
                           /\ h \in dirSet => own[h] = h
      <4>. SUFFICES ASSUME h \in Cluster
                    PROVE  /\ fat[h] # Free /\ Unpointed(h) /\ Unnamed(h)'
                           /\ h \in dirSet => own[h] = h
        OBVIOUS
      <4>1. Live(b0, i0)
        BY <1>4, <2>3, <3>3, Numbers DEF Live, Used, Vacated, Replacing
      <4>2. NamesChain(dirs[b0][i0], b0, own)
        BY <1>1, <1>4, <4>1 DEF OnDisk, Named
      <4>3. ASSUME NEW b \in Dirs, NEW i \in SlotsOf(b), Live(b, i)' PROVE dirs'[b][i].first # h
        BY <1>1, <1>4, <2>9, <3>3, <4>1, <4>3 DEF OnDisk, Named
      <4>. QED
        BY <1>4, <3>3, <4>2, <4>3 DEF NamesChain, Unnamed, Heads
    <3>5. Alone(h)'
      BY <1>1, <3>4 DEF Alone, Unpointed
    <3>6. h \in Cluster => Unpointed(h)'
      BY <1>1, <3>4 DEF Unpointed
    <3>7. h \in dirSet => h \in Cluster
      BY DiskTyped
    <3>8. OldChain(own)'
      BY <1>1, <1>4, <3>1, <3>3, <3>4, <3>5, <3>6, <3>7 DEF OldChain, Fresh
    <3>. QED
      BY <2>7, <2>8, <2>10, <2>11, <3>2, <3>8 DEF Volume, OnDisk, InCall
  <2>13. CASE r # "ok"
    BY <1>3, <2>7, <2>8, <2>10, <2>11, <2>13, ReturnInCall DEF Volume, OnDisk
  <2>. QED
    BY <2>12, <2>13
<1>. QED
  BY <1>5, <1>6

-----------------------------------------------------------------------------
(* A formatted disk: every block heads a chain of its own.                 *)
LEMMA InitVolume == Init => \E own \in Owners : Volume(own)
<1>. SUFFICES ASSUME Init PROVE \E own \in Owners : Volume(own)
  OBVIOUS
<1>1. /\ fat = [c \in Cluster |-> Free] /\ dirs = [d \in Dirs |-> EmptyBlock(d)]
      /\ cwd = Root /\ trail = <<>> /\ dirSet = {} /\ pc = "idle" /\ op.found = "none"
  BY DEF Init, NoOp
<1>. DEFINE own == [b \in Dirs |-> b]
<1>2. own \in Owners /\ own[Root] = Root
  BY Numbers DEF Owners
<1>. HIDE DEF own
<1>3. \A b \in Dirs : \A i \in SlotsOf(b) : dirs[b][i].name \notin Names
  BY <1>1, Numbers DEF EmptyBlock, Mark
<1>4. Chained(own)
  BY <1>1, <1>2, Numbers DEF Chained
<1>5. Headed
  BY <1>1, <1>3, Numbers DEF Headed, DirBlocks
<1>6. Named(own)
  BY <1>3 DEF Named, Live, Used
<1>7. Len(trail) = 0
  BY <1>1
<1>8. Entered(own)
  BY <1>1, <1>7 DEF Entered, Above
<1>9. Asked /\ Searches(own) /\ Place(own)
  BY <1>1 DEF Asked, Searches, Place, Searching, Extends, Building
<1>10. OldChain(own) /\ NewChain(own)
  BY <1>1 DEF OldChain, NewChain, Extends, Building
<1>. QED
  BY <1>2, <1>4, <1>5, <1>6, <1>8, <1>9, <1>10 DEF Volume, OnDisk, InCall

(* A crash that leaves no damage meets the entry that is being replaced    *)
(* before its chain was given up: it is as live as before the call.        *)
LEMMA CrashSound ==
  ASSUME IInv, NEW own \in Owners, Volume(own), Undamaged', Crash
  PROVE  Volume(own)'
<1>1. /\ OnDisk(own) /\ InCall(own) /\ Return /\ cwd' = Root /\ trail' = <<>>
      /\ UNCHANGED <<fat, dirs, dirSet>>
  BY DEF Volume, Crash, disk
<1>2. ~OverwriteOpen /\ pc \notin Extends
  BY DEF Crash, Undamaged, Extends
<1>3. PICK b0, i0, h : b0 = op.blk /\ i0 = op.idx /\ h = op.old
  OBVIOUS
<1>4. ~Replacing' /\ InCall(own)'
  BY <1>1, ReturnInCall
<1>5. Chained(own)'
  BY <1>1, <1>2 DEF OnDisk, Chained, Extends, Extending
<1>6. Headed'
  BY <1>1 DEF OnDisk, Headed, DirBlocks
<1>7. Entered(own)'
  <2>1. Len(trail') = 0
    BY <1>1
  <2>. QED
    BY <1>1, <2>1 DEF Entered, Above
<1>8. \A s, b : NamesChain(s, b, own)' <=> NamesChain(s, b, own)
  BY <1>1 DEF NamesChain, Unpointed
<1>9. CASE Replacing /\ h # 0
  <2>1. pc \in Building \cup {"free"} /\ h \in Cluster
    BY <1>1, <1>3, <1>9, FieldsTyped, Numbers
       DEF InCall, Searches, OldChain, Replacing, IInv, TypeOK, BusySteps, Searching, Extends, Building
  <2>2. pc = "free" /\ ~op.failed /\ op.cur = h
    BY <1>2, <1>3, <1>9, <2>1 DEF OverwriteOpen, Replacing
  <2>3. /\ b0 \in Dirs /\ i0 \in SlotsOf(b0) /\ dirs[b0][i0].first = h
        /\ NamesChain(dirs[b0][i0], b0, own) /\ Unnamed(h)
    BY <1>1, <1>3, <1>9, <2>1, <2>2, FieldsTyped DEF InCall, Place, OldChain, Alone, Replacing
  <2>4. ASSUME NEW b \in Dirs, NEW i \in SlotsOf(b), Live(b, i)'
        PROVE  \/ b = b0 /\ i = i0
               \/ Live(b, i) /\ dirs[b][i].first # h
    <3>1. CASE ~(b = b0 /\ i = i0)
      <4>1. Live(b, i)
        BY <1>1, <1>3, <2>4, <3>1 DEF Live, Used, Vacated, DirBlocks
      <4>. QED
        BY <2>3, <4>1 DEF Unnamed, Heads
    <3>. QED
      BY <3>1
  <2>5. ASSUME NEW b \in Dirs, NEW i \in SlotsOf(b), Live(b, i)'
        PROVE  /\ NamesChain(dirs[b][i], b, own)
               /\ \A c \in Dirs : \A j \in SlotsOf(c) :
                    Live(c, j)' /\ dirs[c][j].first = dirs[b][i].first => b = c /\ i = j
    BY <1>1, <2>3, <2>4, <2>5 DEF OnDisk, Named
  <2>6. Named(own)'
    BY <1>1, <1>8, <2>5 DEF Named
  <2>. QED
    BY <1>4, <1>5, <1>6, <1>7, <2>6 DEF Volume, OnDisk
<1>10. CASE ~(Replacing /\ h # 0)
  <2>1. ~Replacing => \A b, i : Live(b, i)' <=> Live(b, i)
    BY <1>1, <1>4, LiveKept DEF SameVacated
  <2>2. ASSUME Replacing, h = 0 PROVE \A b, i : Live(b, i)' <=> Live(b, i)
    <3>1. pc \in Building \cup {"free"}
      BY <1>1, <2>2, FieldsTyped
         DEF InCall, Searches, OldChain, Replacing, IInv, TypeOK, BusySteps, Searching, Extends, Building
    <3>2. dirs[b0][i0].first = 0
      BY <1>1, <1>3, <2>2, <3>1 DEF InCall, Place, Replacing
    <3>3. \A b, i : Vacated(b, i) => ~Used(b, i)
      BY <1>3, <3>2 DEF Vacated, Used
    <3>4. \A b, i : ~Vacated(b, i)'
      BY <1>4 DEF Vacated, Replacing
    <3>. QED
      BY <1>1, <3>3, <3>4 DEF Live, Used, DirBlocks
  <2>3. \A b, i : Live(b, i)' <=> Live(b, i)
    BY <1>10, <2>1, <2>2
  <2>4. Named(own)'
    BY <1>1, <1>8, <2>3 DEF OnDisk, Named
  <2>. QED
    BY <1>4, <1>5, <1>6, <1>7, <2>4 DEF Volume, OnDisk
<1>. QED
  BY <1>9, <1>10

LEMMA StutterSound ==
  ASSUME NEW own \in Owners, Volume(own), UNCHANGED vars
  PROVE  Volume(own)'
<1>1. /\ OnDisk(own) /\ InCall(own)
      /\ UNCHANGED <<fat, dirs, data, cwd, nextHidden, pc, op, trail, dirSet>>
  BY DEF Volume, vars
<1>2. \A b, i : Live(b, i)' <=> Live(b, i)
  BY <1>1 DEF Live, Used, Vacated, DirBlocks
<1>3. \A c : Unpointed(c)' <=> Unpointed(c)
  BY <1>1 DEF Unpointed
<1>4. /\ \A c, b, i : Heads(c, b, i)' <=> Heads(c, b, i)
      /\ \A c : Alone(c)' <=> Alone(c)
      /\ \A c : Unnamed(c)' <=> Unnamed(c)
  BY <1>1, <1>2, <1>3 DEF Heads, Unnamed, Alone
<1>5. \A s, b : NamesChain(s, b, own)' <=> NamesChain(s, b, own)
  BY <1>1, <1>3 DEF NamesChain
<1>6. Chained(own)' /\ Headed' /\ Named(own)'
  BY <1>1, <1>2, <1>5 DEF OnDisk, Chained, Extending, Headed, Named, DirBlocks
<1>7. Entered(own)'
  BY <1>1, <1>4 DEF OnDisk, Entered, NamedAbove, Above
<1>8. Asked' /\ Searches(own)' /\ Place(own)'
  BY <1>1 DEF InCall, Asked, Searches, Place, DirBlocks, Fresh
<1>9. OldChain(own)'
  BY <1>1, <1>3, <1>4, <1>5 DEF InCall, OldChain
<1>10. NewChain(own)'
  BY <1>1, <1>3, <1>4 DEF InCall, NewChain, Fresh
<1>. QED
  BY <1>6, <1>7, <1>8, <1>9, <1>10 DEF Volume, OnDisk, InCall

LEMMA StepVolume == IInv /\ VolumeSound /\ [Next]_vars => VolumeSound'
<1>. SUFFICES ASSUME IInv, VolumeSound, [Next]_vars, Undamaged' PROVE \E own \in Owners : Volume(own)'
  BY DEF VolumeSound
<1>1. Undamaged
  BY DamageStays DEF vars, Undamaged
<1>2. PICK own \in Owners : Volume(own)
  BY <1>1 DEF VolumeSound
<1>3. CASE Calls
  BY <1>2, <1>3, CallsSound
<1>4. CASE FindHit \/ FindEnd \/ FindOn \/ FindNone \/ SlotHit \/ SlotOn \/ SlotNone
  BY <1>2, <1>4, LookUpSound
<1>5. CASE ExtendWalk \/ ExtendLink \/ ExtendFails \/ ExtendSeal \/ ExtendZero
  BY <1>2, <1>5, ExtendSound
<1>6. CASE FreeOne \/ FreeReadError \/ FreeDone
  BY <1>2, <1>6, FreeSound
<1>7. CASE AllocCluster \/ AllocFails \/ LinkCluster \/ WriteBlock \/ Seal
  BY <1>2, <1>7, BuildSound
<1>8. CASE MkdirBlock
  BY <1>2, <1>8, MkdirBlockSound
<1>9. CASE SetEntry
  BY <1>2, <1>9, SetEntrySound
<1>10. CASE MarkDeleted
  BY <1>2, <1>10, MarkDeletedSound
<1>11. CASE Crash
  BY <1>2, <1>11, CrashSound
<1>12. CASE UNCHANGED vars
  BY <1>2, <1>12, StutterSound
<1>. QED
  BY <1>3, <1>4, <1>5, <1>6, <1>7, <1>8, <1>9, <1>10, <1>11, <1>12 DEF Next, Steps

(* On a volume no call has damaged every block belongs to one chain of     *)
(* directory blocks, and every step of every call knows what it needs to   *)
(* know of the chains it follows, fills, gives up and builds.              *)
THEOREM VolumeStaysSound == Spec => []VolumeSound
<1>1. Init => VolumeSound
  BY InitVolume DEF VolumeSound
<1>. QED
  BY <1>1, StepVolume, Invariance, PTL DEF Spec

LEMMA VolumeFatSound == IInv /\ VolumeSound => FatSound
<1>. SUFFICES ASSUME IInv, VolumeSound, Undamaged PROVE LinksSound /\ HeadsSound /\ DirsSound
  BY DEF FatSound
<1>1. PICK own \in Owners : OnDisk(own)
  BY DEF VolumeSound, Volume
<1>2. LinksSound
  BY <1>1 DEF LinksSound, OnDisk, Chained
<1>3. HeadsSound
  <2>1. ASSUME NEW e \in Entries
        PROVE  \E b \in Dirs : \E i \in SlotsOf(b) : e = <<b, i>> /\ Live(b, i)
    <3>1. PICK b \in DirBlocks : \E i \in SlotsOf(b) : e = <<b, i>>
      BY <2>1 DEF Entries, DirBlocks
    <3>2. PICK i \in SlotsOf(b) : e = <<b, i>>
      BY <3>1
    <3>3. Live(b, i)
      BY <2>1, <3>2 DEF Entries, Live, Used, Vacated
    <3>. QED
      BY <3>2, <3>3, DiskTyped, Numbers DEF DirBlocks
  <2>2. ASSUME NEW e \in Entries
        PROVE  /\ fat[HeadOf(e)] # Free
               /\ \A c \in Cluster : fat[c] # HeadOf(e)
               /\ \A f \in Entries : HeadOf(f) = HeadOf(e) => f = e
               /\ dirs[e[1]][e[2]].dir <=> HeadOf(e) \in dirSet
    <3>1. PICK b \in Dirs : \E i \in SlotsOf(b) : e = <<b, i>> /\ Live(b, i)
      BY <2>1
    <3>2. PICK i \in SlotsOf(b) : e = <<b, i>> /\ Live(b, i)
      BY <3>1
    <3>3. NamesChain(dirs[b][i], b, own) /\ HeadOf(e) = dirs[b][i].first /\ e[1] = b /\ e[2] = i
      BY <1>1, <3>2 DEF OnDisk, Named, HeadOf
    <3>4. ASSUME NEW f \in Entries, HeadOf(f) = HeadOf(e) PROVE f = e
      <4>1. PICK c \in Dirs : \E j \in SlotsOf(c) : f = <<c, j>> /\ Live(c, j)
        BY <2>1
      <4>2. PICK j \in SlotsOf(c) : f = <<c, j>> /\ Live(c, j)
        BY <4>1
      <4>3. dirs[c][j].first = dirs[b][i].first
        BY <3>3, <3>4, <4>2 DEF HeadOf
      <4>. QED
        BY <1>1, <3>2, <4>2, <4>3 DEF OnDisk, Named
    <3>. QED
      BY <3>3, <3>4 DEF NamesChain, Unpointed
  <2>. QED
    BY <2>2 DEF HeadsSound
<1>4. DirsSound
  <2>1. cwd # Root => cwd \in dirSet
    BY <1>1, CurrentSound DEF DirBlocks
  <2>. QED
    BY <1>1, <2>1 DEF DirsSound, OnDisk, Chained, Extending
<1>. QED
  BY <1>2, <1>3, <1>4

(* FatSound: on every volume, for every sequence of calls, disk errors and *)
(* crashes that has not yet left damage behind, and at every step of a     *)
(* call, no two chains of the table meet and none runs into free clusters, *)
(* every name owns the head of a chain of its own, and a directory's chain *)
(* holds directory blocks and a file's none.                               *)
THEOREM ChainsStaySound == Spec => []FatSound
BY Invariance, VolumeStaysSound, VolumeFatSound, PTL

-----------------------------------------------------------------------------
(* Files.  The clusters of a file, and what leads to them.                 *)
LEMMA FileFacts ==
  ASSUME IInv, NEW own \in Owners, OnDisk(own), NEW b \in Dirs, NEW i \in SlotsOf(b), Live(b, i),
         NEW v, NEW n \in Nat, n = dirs[b][i].len, NEW chain \in Chains(n), Stores(dirs[b][i], chain, v),
         NEW k \in 1 .. n
  PROVE  /\ chain[k] \in Cluster \ dirSet /\ fat[chain[k]] \in Cluster \cup {EOF}
         /\ data[chain[k]] = <<v, k - 1>>
         /\ \A x : Unpointed(x) /\ Unnamed(x) => chain[k] # x
         /\ \A y \in Cluster : (y \in dirSet \/ \A m \in 1 .. n : chain[m] # y) => fat[y] # chain[k]
<1>1. /\ \A m \in 1 .. n : /\ chain[m] \in Cluster /\ chain[m] \notin dirSet
                           /\ data[chain[m]] = <<v, m - 1>>
                           /\ m < n => fat[chain[m]] = chain[m + 1]
      /\ chain[1] = dirs[b][i].first /\ fat[chain[n]] = EOF
  BY DEF Stores, Strung, Chains
<1>2. CASE k = 1
  <2>1. Unpointed(chain[k]) /\ ~Unnamed(chain[k])
    BY <1>1, <1>2, HeadFacts DEF Unnamed, Heads
  <2>2. fat[chain[k]] \in Cluster \cup {EOF}
    BY <1>1, <1>2
  <2>. QED
    BY <1>1, <2>1, <2>2 DEF Unpointed
<1>3. CASE k # 1
  <2>1. k - 1 \in 1 .. n /\ k - 1 < n /\ (k - 1) + 1 = k
    BY <1>3
  <2>2. PICK p : p = chain[k - 1]
    OBVIOUS
  <2>3. p \in Cluster /\ p \notin dirSet /\ fat[p] = chain[k] /\ chain[k] \in Cluster
    BY <1>1, <2>1, <2>2
  <2>4. \A y \in Cluster : fat[y] = chain[k] => y = p
    BY <2>3 DEF OnDisk, Chained
  <2>5. k < n => k + 1 \in 1 .. n
    OBVIOUS
  <2>6. fat[chain[k]] \in Cluster \cup {EOF}
    BY <1>1, <2>5
  <2>. QED
    BY <1>1, <2>1, <2>2, <2>3, <2>4, <2>6 DEF Unpointed
<1>. QED
  BY <1>2, <1>3

LEMMA Elsewhere ==
  ASSUME IInv, NEW c, NEW v, NEW r, SetFat(c, v, r), NEW d \in Cluster, d # c
  PROVE  fat'[d] = fat[d]
BY DEF SetFat, IInv, TypeOK

(* What a step leaves of a cluster.                                        *)
SameCluster(c) == fat'[c] = fat[c] /\ data'[c] = data[c] /\ c \notin dirSet'

LEMMA FileApart ==
  ASSUME IInv, NEW own \in Owners, Volume(own), Built, NEW b \in Dirs, NEW i \in SlotsOf(b), Live(b, i),
         NEW v, NEW n \in Nat, n = dirs[b][i].len, NEW chain \in Chains(n), Stores(dirs[b][i], chain, v),
         Apart(chain), NEW k \in 1 .. n, pc \in {"link", "data", "mkblock"}
  PROVE  chain[k] # op.cl
<1>1. /\ OnDisk(own) /\ Unnamed(op.cl) /\ (pc \in {"link", "mkblock"} => Unpointed(op.cl))
      /\ (op.n = 0 => op.first = op.cl) /\ Alone(op.first) /\ op.cl \in Cluster
      /\ (pc = "data" => op.kind = "write")
  BY DEF Volume, InCall, NewChain, Building, IInv, CallSound
<1>2. \A x : Unpointed(x) /\ Unnamed(x) => chain[k] # x
  BY <1>1, FileFacts
<1>3. CASE pc \in {"link", "mkblock"} \/ op.n = 0
  BY <1>1, <1>2, <1>3 DEF Alone
<1>4. CASE pc = "data" /\ op.n > 0
  <2>1. PICK built \in Chains(op.n) : built[op.n] = op.prev /\ fat[op.prev] = op.cl
    BY <1>1, <1>4 DEF Built, Building
  <2>2. op.prev \in Cluster
    BY <1>4, <2>1, FieldsTyped DEF Chains
  <2>3. \A m \in 1 .. n : chain[m] # op.prev
    BY <1>1, <1>4 DEF Apart, Building, Chains
  <2>. QED
    BY <1>1, <2>1, <2>2, <2>3, FileFacts
<1>. QED
  BY <1>3, <1>4, FieldsTyped

(* No step writes to a cluster of a file that has one of the live names.   *)
LEMMA FileUntouched ==
  ASSUME IInv, NEW own \in Owners, Volume(own), Built, NEW b \in Dirs, NEW i \in SlotsOf(b), Live(b, i),
         NEW v, NEW n \in Nat, n = dirs[b][i].len, NEW chain \in Chains(n), Stores(dirs[b][i], chain, v),
         Apart(chain), NEW k \in 1 .. n, Next
  PROVE  SameCluster(chain[k])
<1>1. /\ OnDisk(own) /\ InCall(own) /\ op \in Locals
  BY ReadsTyped DEF Volume, IInv
<1>2. PICK c : c = chain[k]
  OBVIOUS
<1>3. /\ c \in Cluster /\ c \notin dirSet /\ fat[c] \in Cluster \cup {EOF}
      /\ \A x : Unpointed(x) /\ Unnamed(x) => c # x
      /\ \A y \in Cluster : (y \in dirSet \/ \A m \in 1 .. n : chain[m] # y) => fat[y] # c
  BY <1>1, <1>2, FileFacts
<1>4. fat[c] # Free
  BY <1>3, Numbers DEF Free, Dirs
<1>5. CASE UNCHANGED <<fat, data, dirSet>>
  BY <1>2, <1>3, <1>5 DEF SameCluster
<1>6. CASE Calls
  BY <1>5, <1>6, Zenon DEF Calls, WriteFile, WriteUsers, DeleteFile, Mkdir, Cd, CdUp, Call, disk
<1>7. CASE \/ FindHit \/ FindEnd \/ FindOn \/ FindNone \/ SlotHit \/ SlotOn \/ SlotNone
           \/ ExtendWalk \/ ExtendFails \/ FreeReadError \/ FreeDone \/ AllocFails
           \/ SetEntry \/ MarkDeleted \/ Crash
  BY <1>5, <1>7 DEF FindHit, FindEnd, FindOn, FindNone, SlotHit, SlotOn, SlotNone, ExtendWalk,
       ExtendFails, FreeReadError, FreeDone, AllocFails, SetEntry, MarkDeleted, Crash, disk
<1>8. ASSUME UNCHANGED <<data, dirSet>>, NEW d, c # d, NEW w, NEW r, SetFat(d, w, r)
      PROVE  SameCluster(c)
  BY <1>3, <1>8, Elsewhere DEF SameCluster
<1>9. CASE ExtendLink
  <2>1. /\ pc = "extend" /\ op.at \in Cluster /\ UNCHANGED <<data, dirSet>>
        /\ \E w : \E r : SetFat(op.at, w, r)
    BY <1>9 DEF ExtendLink, IInv, CallSound
  <2>2. op.at \in dirSet
    BY <1>1, <2>1, Numbers DEF InCall, Searches, Searching, DirBlocks
  <2>. QED
    BY <1>2, <1>3, <1>8, <2>1, <2>2
<1>10. CASE ExtendSeal
  <2>1. /\ pc = "xeof" /\ UNCHANGED <<data, dirSet>> /\ \E r : SetFat(op.cl, EOF, r)
    BY <1>10 DEF ExtendSeal
  <2>2. fat[op.cl] = Free
    BY <1>1, <2>1 DEF InCall, Searches, Extends
  <2>. QED
    BY <1>2, <1>4, <1>8, <2>1, <2>2
<1>11. CASE ExtendZero
  <2>1. /\ pc = "xzero" /\ UNCHANGED <<fat, data>> /\ dirSet' = dirSet \cup {op.cl}
    BY <1>11 DEF ExtendZero
  <2>2. fat[op.at] = op.cl /\ op.at \in dirSet /\ op.at \in Cluster
    BY <1>1, <2>1, DiskTyped DEF InCall, Searches, Searching, Extends, DirBlocks
  <2>3. c # op.cl
    BY <1>3, <2>2
  <2>. QED
    BY <1>2, <1>3, <2>1, <2>3 DEF SameCluster
<1>12. CASE FreeOne
  <2>1. /\ pc = "free" /\ op.cur \in Cluster /\ UNCHANGED data /\ dirSet' \subseteq dirSet
        /\ \E r : SetFat(op.cur, Free, r)
    BY <1>12 DEF FreeOne
  <2>2. c # op.cur
    BY <1>1, <1>3, <2>1 DEF InCall, OldChain, Alone
  <2>3. fat'[c] = fat[c]
    BY <1>3, <2>1, <2>2, Elsewhere
  <2>. QED
    BY <1>2, <1>3, <2>1, <2>3 DEF SameCluster
<1>13. CASE AllocCluster
  <2>1. /\ UNCHANGED <<data, dirSet>> /\ FreeClusters # {}
        /\ \E r : SetFat(LowestOf(FreeClusters), EOF, r)
    BY <1>13 DEF AllocCluster
  <2>2. fat[LowestOf(FreeClusters)] = Free
    BY <2>1, FreeIsFree
  <2>. QED
    BY <1>2, <1>4, <1>8, <2>1, <2>2
<1>14. CASE LinkCluster
  <2>1. /\ pc = "link" /\ UNCHANGED <<data, dirSet>> /\ \E r : SetFat(op.prev, op.cl, r)
    BY <1>14 DEF LinkCluster
  <2>2. c # op.prev
    BY <1>2, <2>1 DEF IInv, CallSound, Apart, Building, Chains
  <2>. QED
    BY <1>2, <1>8, <2>1, <2>2
<1>15. CASE WriteBlock
  <2>1. /\ pc = "data" /\ UNCHANGED <<fat, dirSet>>
        /\ \E r : data' = IF r = "lost" THEN data ELSE [data EXCEPT ![op.cl] = <<op.val, op.n>>]
    BY <1>15 DEF WriteBlock
  <2>2. c # op.cl
    BY <1>1, <1>2, <1>3, <2>1, FileApart
  <2>. QED
    BY <1>2, <1>3, <2>1, <2>2 DEF SameCluster
<1>16. CASE Seal
  <2>1. /\ pc = "alloc" /\ op.kind = "write" /\ UNCHANGED <<data, dirSet>>
        /\ fat' = fat \/ \E r : SetFat(op.prev, EOF, r)
    BY <1>16 DEF Seal
  <2>2. c # op.prev
    BY <1>2, <2>1 DEF Apart, Building, Chains
  <2>. QED
    BY <1>2, <1>5, <1>8, <2>1, <2>2
<1>17. CASE MkdirBlock
  <2>1. /\ pc = "mkblock" /\ UNCHANGED <<fat, data>> /\ dirSet' = dirSet \cup {op.cl}
    BY <1>17 DEF MkdirBlock
  <2>2. c # op.cl
    BY <1>1, <1>3, <2>1 DEF InCall, NewChain, Building
  <2>. QED
    BY <1>2, <1>3, <2>1, <2>2 DEF SameCluster
<1>. QED
  BY <1>6, <1>7, <1>9, <1>10, <1>11, <1>12, <1>13, <1>14, <1>15, <1>16, <1>17 DEF Next, Steps

(* The entry of a name changes only if the call is about it.               *)
LEMMA EntryKept ==
  ASSUME IInv, NEW own \in Owners, Volume(own), NEW b \in DirBlocks, NEW i \in SlotsOf(b),
         dirs[b][i].name \in Names, ~IsTarget(b, i), Next
  PROVE  dirs'[b][i] = dirs[b][i]
<1>1. /\ InCall(own) /\ op \in Locals /\ b \in Dirs /\ DOMAIN dirs = Dirs
      /\ \A d \in Dirs : dirs[d] \in [SlotsOf(d) -> Slot]
  BY ReadsTyped, DiskTyped, Numbers DEF Volume, IInv, TypeOK, DirBlocks
<1>2. CASE UNCHANGED dirs
  BY <1>2
<1>3. CASE Calls
  BY <1>2, <1>3, Zenon DEF Calls, WriteFile, WriteUsers, DeleteFile, Mkdir, Cd, CdUp, Call, disk
<1>4. CASE \/ FindHit \/ FindEnd \/ FindOn \/ FindNone \/ SlotHit \/ SlotOn \/ SlotNone
           \/ ExtendWalk \/ ExtendLink \/ ExtendFails \/ ExtendSeal
           \/ FreeOne \/ FreeReadError \/ FreeDone
           \/ AllocCluster \/ AllocFails \/ LinkCluster \/ WriteBlock \/ Seal \/ Crash
  BY <1>2, <1>4 DEF FindHit, FindEnd, FindOn, FindNone, SlotHit, SlotOn, SlotNone, ExtendWalk,
       ExtendLink, ExtendFails, ExtendSeal, FreeOne, FreeReadError, FreeDone, AllocCluster, AllocFails,
       LinkCluster, WriteBlock, Seal, Crash, disk
<1>5. ASSUME NEW e, op.cl # b, dirs' = dirs \/ dirs' = [dirs EXCEPT ![op.cl] = e]
      PROVE  dirs'[b][i] = dirs[b][i]
  BY <1>1, <1>5
<1>6. CASE ExtendZero
  <2>1. pc = "xzero" /\ op.cl \in Cluster
        /\ (dirs' = dirs \/ dirs' = [dirs EXCEPT ![op.cl] = EmptyBlock(op.cl)])
    BY <1>6 DEF ExtendZero, IInv, CallSound
  <2>2. op.cl # b
    BY <1>1, <2>1, Numbers DEF InCall, Searches, Extends, DirBlocks
  <2>. QED
    BY <1>5, <2>1, <2>2
<1>7. CASE MkdirBlock
  <2>1. /\ pc = "mkblock" /\ op.cl \in Cluster
        /\ \E e : dirs' = dirs \/ dirs' = [dirs EXCEPT ![op.cl] = e]
    BY <1>7 DEF MkdirBlock, IInv, CallSound
  <2>2. op.cl # b
    BY <1>1, <2>1, Numbers DEF InCall, NewChain, DirBlocks
  <2>. QED
    BY <1>5, <2>1, <2>2
<1>8. ASSUME NEW e, NEW r, SetSlot(op.blk, op.idx, e, r), ~(op.blk = b /\ op.idx = i)
      PROVE  dirs'[b][i] = dirs[b][i]
  BY <1>1, <1>8 DEF SetSlot
<1>9. CASE SetEntry
  <2>1. pc = "entry" /\ \E r : SetSlot(op.blk, op.idx, NewEntry, r)
    BY <1>9 DEF SetEntry
  <2>2. ~(op.blk = b /\ op.idx = i)
    BY <1>1, <2>1, Numbers DEF InCall, Place, IsTarget, Building
  <2>. QED
    BY <1>8, <2>1, <2>2
<1>10. CASE MarkDeleted
  <2>1. pc = "mark" /\ \E r : SetSlot(op.blk, op.idx, Mark("deleted"), r)
    BY <1>10 DEF MarkDeleted
  <2>2. ~(op.blk = b /\ op.idx = i)
    BY <1>1, <2>1 DEF InCall, OldChain, IsTarget
  <2>. QED
    BY <1>8, <2>1, <2>2
<1>. QED
  BY <1>3, <1>4, <1>6, <1>7, <1>9, <1>10 DEF Next, Steps

(* A chain that was given up stays so until the entry is written.          *)
LEMMA GivenUpStays ==
  ASSUME IInv, NEW own \in Owners, Volume(own), OverwriteOpen, Undamaged', Next
  PROVE  SetEntry \/ (OverwriteOpen' /\ op'.blk = op.blk /\ op'.idx = op.idx)
<1>1. /\ op \in Locals /\ op.kind = "write" /\ op.found = "hit" /\ op.old \in Cluster
      /\ pc \notin Searching \cup {"idle", "mark", "mkblock"}
      /\ (pc = "free" /\ ~op.failed => op.cur # op.old /\ Unpointed(op.old))
  BY ReadsTyped DEF Volume, IInv, InCall, Searches, OldChain, NewChain, OverwriteOpen, Building
<1>2. ASSUME NEW causes, Abandon(causes) PROVE FALSE
  BY <1>2 DEF Abandon, Undamaged
<1>3. CASE FreeOne
  <2>1. pc = "free" /\ pc' = "free" /\ op' = [op EXCEPT !.cur = Successor] /\ op.cur \in Cluster
    BY <1>3 DEF FreeOne, Goto
  <2>2. op.failed \/ Successor # op.old
    BY <1>1, <2>1, Numbers DEF Unpointed, Successor, Root
  <2>. QED
    BY <1>1, <2>1, <2>2 DEF OverwriteOpen, Locals
<1>4. CASE FreeReadError
  <2>1. pc' = "free" /\ op' = [op EXCEPT !.cur = 0]
    BY <1>4 DEF FreeReadError, Goto
  <2>. QED
    BY <1>1, <2>1, Numbers DEF OverwriteOpen, Locals
<1>5. CASE FreeDone
  <2>1. pc' = "alloc" /\ op' = op
    BY <1>1, <1>2, <1>5 DEF FreeDone, Goto
  <2>. QED
    BY <1>1, <2>1 DEF OverwriteOpen
<1>6. ASSUME GiveUp PROVE OverwriteOpen' /\ op'.blk = op.blk /\ op'.idx = op.idx
  BY <1>1, <1>6 DEF GiveUp, Goto, OverwriteOpen, Locals
<1>7. CASE AllocCluster
  <2>. DEFINE cl == LowestOf(FreeClusters)
              o == [op EXCEPT !.cl = cl, !.first = IF op.n = 0 THEN cl ELSE op.first]
  <2>1. pc' # "free" /\ op' = o
    BY <1>1, <1>7 DEF AllocCluster, Goto
  <2>2. o.kind = op.kind /\ o.found = op.found /\ o.old = op.old /\ o.blk = op.blk /\ o.idx = op.idx
    BY <1>1 DEF Locals
  <2>. QED
    BY <1>1, <2>1, <2>2 DEF OverwriteOpen
<1>8. CASE AllocFails
  BY <1>1, <1>6, <1>8 DEF AllocFails
<1>9. CASE LinkCluster \/ Seal
  BY <1>1, <1>9 DEF LinkCluster, Seal, Goto, OverwriteOpen
<1>10. CASE WriteBlock
  <2>1. CASE GiveUp
    BY <1>6, <2>1
  <2>2. CASE Goto("alloc", [op EXCEPT !.prev = op.cl, !.cl = 0, !.n = op.n + 1])
    BY <1>1, <2>2 DEF OverwriteOpen, Goto, Locals
  <2>. QED
    BY <1>10, <2>1, <2>2 DEF WriteBlock
<1>11. CASE Crash
  BY <1>11 DEF Crash, Undamaged
<1>12. CASE FindHit \/ FindEnd \/ FindOn \/ FindNone \/ SlotHit \/ SlotOn \/ SlotNone \/ ExtendWalk
            \/ ExtendLink \/ ExtendFails \/ ExtendSeal \/ ExtendZero \/ MkdirBlock \/ MarkDeleted
  BY <1>1, <1>12, Zenon DEF FindHit, FindEnd, FindOn, FindNone, SlotHit, SlotOn, SlotNone, ExtendWalk,
       ExtendLink, ExtendFails, ExtendSeal, ExtendZero, MkdirBlock, MarkDeleted, Searching, Extends
<1>13. CASE Calls
  BY <1>1, <1>13, Zenon DEF Calls, WriteFile, WriteUsers, DeleteFile, Mkdir, Cd, CdUp, Call
<1>. QED
  BY <1>3, <1>4, <1>5, <1>7, <1>8, <1>9, <1>10, <1>11, <1>12, <1>13 DEF Next, Steps

(* A name after a step is one from before, or the one that was written.    *)
LEMMA NameCameFrom ==
  ASSUME IInv, NEW own \in Owners, Volume(own), Undamaged', Next,
         NEW b \in DirBlocks', NEW i \in SlotsOf(b), dirs'[b][i].name \in Names
  PROVE  \/ b \in DirBlocks /\ dirs'[b][i] = dirs[b][i]
         \/ SetEntry /\ b = op.blk /\ i = op.idx /\ dirs'[b][i] = NewEntry
<1>1. /\ InCall(own) /\ op \in Locals /\ DOMAIN dirs = Dirs
      /\ \A d \in Dirs : dirs[d] \in [SlotsOf(d) -> Slot]
  BY ReadsTyped, DiskTyped, Numbers DEF Volume, IInv, TypeOK
<1>2. CASE dirs' = dirs /\ dirSet' \subseteq dirSet
  BY <1>2 DEF DirBlocks
<1>3. CASE Calls \/ Crash
  BY <1>2, <1>3, Zenon DEF Calls, WriteFile, WriteUsers, DeleteFile, Mkdir, Cd, CdUp, Call, Crash, disk
<1>4. CASE \/ FindHit \/ FindEnd \/ FindOn \/ FindNone \/ SlotHit \/ SlotOn \/ SlotNone
           \/ ExtendWalk \/ ExtendLink \/ ExtendFails \/ ExtendSeal
           \/ FreeOne \/ FreeReadError \/ FreeDone
           \/ AllocCluster \/ AllocFails \/ LinkCluster \/ WriteBlock \/ Seal
  BY <1>2, <1>4 DEF FindHit, FindEnd, FindOn, FindNone, SlotHit, SlotOn, SlotNone, ExtendWalk,
       ExtendLink, ExtendFails, ExtendSeal, FreeOne, FreeReadError, FreeDone, AllocCluster, AllocFails,
       LinkCluster, WriteBlock, Seal, disk
<1>5. ASSUME NEW e, dirs' = [dirs EXCEPT ![op.cl] = e], op.cl \in Cluster,
             dirSet' = dirSet \cup {op.cl}, \A j \in SlotsOf(op.cl) : e[j].name \notin Names
      PROVE  b \in DirBlocks /\ dirs'[b][i] = dirs[b][i]
  <2>1. b # op.cl
    BY <1>1, <1>5, Numbers
  <2>. QED
    BY <1>1, <1>5, <2>1 DEF DirBlocks
<1>6. CASE ExtendZero
  <2>1. /\ op.cl \in Cluster /\ dirSet' = dirSet \cup {op.cl}
        /\ dirs' = [dirs EXCEPT ![op.cl] = EmptyBlock(op.cl)]
    BY <1>6 DEF ExtendZero, IInv, CallSound, Undamaged
  <2>2. \A j \in SlotsOf(op.cl) : EmptyBlock(op.cl)[j].name \notin Names
    BY Numbers DEF EmptyBlock, Mark
  <2>. QED
    BY <1>5, <2>1, <2>2
<1>7. CASE MkdirBlock
  <2>. DEFINE e == [EmptyBlock(op.cl) EXCEPT ![1] = DotSlot(".", op.cl), ![2] = DotSlot("..", Parent)]
  <2>1. /\ op.cl \in Cluster /\ dirSet' = dirSet \cup {op.cl}
        /\ dirs' = [dirs EXCEPT ![op.cl] = e]
    BY <1>7 DEF MkdirBlock, IInv, CallSound, Undamaged
  <2>2. \A j \in SlotsOf(op.cl) : e[j].name \notin Names
    BY Numbers DEF EmptyBlock, Mark, DotSlot
  <2>. HIDE DEF e
  <2>. QED
    BY <1>5, <2>1, <2>2
<1>8. ASSUME NEW e, NEW r, SetSlot(op.blk, op.idx, e, r), dirSet' = dirSet
      PROVE  \/ b \in DirBlocks /\ dirs'[b][i] = dirs[b][i]
             \/ b = op.blk /\ i = op.idx /\ dirs'[b][i] = e
  BY <1>1, <1>8, FieldsTyped DEF SetSlot, DirBlocks
<1>9. CASE SetEntry
  <2>1. PICK r : SetSlot(op.blk, op.idx, NewEntry, r) /\ dirSet' = dirSet
    BY <1>9 DEF SetEntry
  <2>. QED
    BY <1>8, <1>9, <2>1
<1>10. CASE MarkDeleted
  <2>1. PICK r : SetSlot(op.blk, op.idx, Mark("deleted"), r) /\ dirSet' = dirSet
    BY <1>10 DEF MarkDeleted
  <2>. QED
    BY <1>8, <2>1, Numbers DEF Mark
<1>. QED
  BY <1>3, <1>4, <1>6, <1>7, <1>9, <1>10 DEF Next, Steps

LEMMA FileCameFrom ==
  ASSUME IInv, NEW own \in Owners, Volume(own), Undamaged', Next,
         NEW b \in DirBlocks', NEW i \in SlotsOf(b), IsFile(b, i)', ~GivenUp(b, i)'
  PROVE  \/ b \in DirBlocks /\ IsFile(b, i) /\ ~GivenUp(b, i) /\ dirs'[b][i] = dirs[b][i]
         \/ /\ SetEntry /\ b = op.blk /\ i = op.idx /\ op.kind = "write"
            /\ dirs'[b][i] = NewEntry
<1>1. InCall(own) /\ dirs'[b][i].name \in Names /\ ~dirs'[b][i].dir
  BY DEF Volume, IsFile
<1>2. CASE SetEntry /\ b = op.blk /\ i = op.idx /\ dirs'[b][i] = NewEntry
  <2>1. op.kind \in {"write", "mkdir"}
    BY <1>1, <1>2 DEF SetEntry, InCall, NewChain, Building
  <2>2. NewEntry.dir = (op.kind = "mkdir")
    BY DEF NewEntry
  <2>3. op.kind # "mkdir"
    BY <1>1, <1>2, <2>2
  <2>. QED
    BY <1>2, <2>1, <2>3
<1>3. CASE b \in DirBlocks /\ dirs'[b][i] = dirs[b][i]
  <2>1. IsFile(b, i)
    BY <1>1, <1>3 DEF IsFile
  <2>2. CASE ~GivenUp(b, i)
    BY <1>3, <2>1, <2>2
  <2>3. CASE GivenUp(b, i)
    <3>1. SetEntry /\ b = op.blk /\ i = op.idx /\ op.kind = "write"
      BY <2>3, GivenUpStays DEF GivenUp, OverwriteOpen
    <3>2. PICK r : SetSlot(op.blk, op.idx, NewEntry, r) /\ r # "lost"
      BY <2>3, <3>1 DEF SetEntry, Abandon, Undamaged, GivenUp
    <3>3. DOMAIN dirs = Dirs /\ \A d \in Dirs : dirs[d] \in [SlotsOf(d) -> Slot]
      BY DEF IInv, TypeOK
    <3>4. dirs'[b][i] = NewEntry
      BY <3>1, <3>2, <3>3, FieldsTyped DEF SetSlot
    <3>. QED
      BY <3>1, <3>4
  <2>. QED
    BY <2>2, <2>3
<1>. QED
  BY <1>1, <1>2, <1>3, NameCameFrom

(* So is a file whose call has not given up its chain, from before to      *)
(* after the step.                                                         *)
LEMMA ChainKept ==
  ASSUME IInv, NEW own \in Owners, Volume(own), Built, Next, Undamaged',
         NEW b \in DirBlocks, NEW i \in SlotsOf(b), IsFile(b, i), ~GivenUp(b, i), ~GivenUp(b, i)', ~SetEntry,
         NEW v, NEW n \in Nat \ {0}, n = dirs[b][i].len, NEW chain \in Chains(n),
         Stores(dirs[b][i], chain, v), Apart(chain)
  PROVE  /\ \A k \in 1 .. n : SameCluster(chain[k])
         /\ Live(b, i) \/ pc' \notin Building
<1>1. b \in Dirs /\ op \in Locals /\ InCall(own)
  BY DiskTyped, ReadsTyped, Numbers DEF DirBlocks, IInv, Volume
<1>2. CASE Live(b, i)
  BY <1>1, <1>2, FileUntouched
<1>3. CASE ~Live(b, i)
  <2>1. dirs[b][i].first # 0 /\ \A k \in 1 .. n : chain[k] \in Cluster /\ chain[k] \notin dirSet
    BY Numbers DEF Stores, Strung, Chains
  <2>2. op.kind = "write" /\ op.found = "hit" /\ b = op.blk /\ i = op.idx
    BY <1>1, <1>3, <2>1 DEF Live, Used, IsFile, Vacated
  <2>3. pc \in Building \cup {"free"}
    BY <1>1, <2>2 DEF InCall, Searches, OldChain, Building, Searching, Extends, CallTyped,
         IInv, TypeOK, BusySteps
  <2>4. op.old \in Cluster
    BY <1>1, <2>1, <2>2, <2>3, FieldsTyped, Numbers DEF InCall, Place
  <2>5. pc = "free" /\ ~op.failed /\ op.cur = op.old /\ Unpointed(op.old)
    BY <1>1, <2>2, <2>4 DEF GivenUp, OverwriteOpen, InCall, OldChain
  <2>6. ~FreeOne /\ ~FreeReadError
    <3>1. Successor # op.old
      BY <2>4, <2>5, Numbers DEF Successor, Unpointed, Root
    <3>2. ASSUME FreeOne \/ FreeReadError PROVE GivenUp(b, i)'
      <4>1. \E c : pc' = "free" /\ op' = [op EXCEPT !.cur = c] /\ c # op.old
        BY <2>4, <3>1, <3>2, Numbers DEF FreeOne, FreeReadError, Goto
      <4>. QED
        BY <1>1, <2>2, <2>4, <4>1 DEF GivenUp, OverwriteOpen, Locals
    <3>. QED
      BY <3>2
  <2>7. ~FreeDone
    BY <2>4, <2>5, Numbers DEF FreeDone
  <2>8. ~Calls
    BY <2>5 DEF Calls, WriteFile, WriteUsers, DeleteFile, Mkdir, Cd, CdUp, Call
  <2>9. ~Steps
    BY <2>5, <2>6, <2>7 DEF Steps, FindHit, FindEnd, FindOn, FindNone, SlotHit, SlotOn, SlotNone,
         ExtendWalk, ExtendLink, ExtendFails, ExtendSeal, ExtendZero, AllocCluster, AllocFails,
         LinkCluster, WriteBlock, Seal, MkdirBlock, SetEntry, MarkDeleted
  <2>10. UNCHANGED <<fat, data, dirSet>> /\ pc' = "idle"
    BY <2>8, <2>9 DEF Next, Crash, disk, Return, Goto
  <2>. QED
    BY <2>1, <2>10 DEF SameCluster, Building
<1>. QED
  BY <1>2, <1>3

(* Where the end of the chain a write builds comes from.                   *)
LEMMA PrevSteps ==
  ASSUME IInv, NEW own \in Owners, Volume(own), Next, pc' \in Building, op'.kind = "write"
  PROVE  \/ op'.prev = 0 /\ op'.n = 0
         \/ pc \in Building /\ op.kind = "write" /\ op'.prev = op.prev
         \/ pc = "data" /\ op'.prev = op.cl
<1>1. op \in Locals /\ InCall(own)
  BY ReadsTyped DEF IInv, Volume
<1>2. CASE pc \in {"find", "slot"} \/ (pc = "free" /\ ~op.failed)
  <2>1. op.prev = 0 /\ op.n = 0
    BY <1>1, <1>2 DEF InCall, Searches, Searching, Fresh
  <2>2. CASE FindHit \/ FindEnd \/ FindOn \/ FindNone \/ SlotHit \/ SlotOn \/ SlotNone
    BY <1>1, <2>1, <2>2 DEF FindHit, FindEnd, FindOn, FindNone, SlotHit, SlotOn, SlotNone, Abandon,
         Return, Goto, Building, Locals
  <2>3. CASE FreeOne \/ FreeReadError \/ FreeDone
    BY <1>1, <2>1, <2>3 DEF FreeOne, FreeReadError, FreeDone, Abandon, Return, Goto, Building, Locals
  <2>4. CASE Calls \/ Crash
    BY <2>4, Zenon DEF Calls, WriteFile, WriteUsers, DeleteFile, Mkdir, Cd, CdUp, Call, Crash, Return, Goto,
         Building
  <2>. QED
    BY <1>2, <2>2, <2>3, <2>4 DEF Next, Steps, ExtendWalk, ExtendLink, ExtendFails, ExtendSeal,
         ExtendZero, AllocCluster, AllocFails, LinkCluster, WriteBlock, Seal, MkdirBlock, SetEntry, MarkDeleted
<1>3. CASE pc \in Building
  <2>1. CASE AllocCluster
    <3>. DEFINE cl == LowestOf(FreeClusters)
                o == [op EXCEPT !.cl = cl, !.first = IF op.n = 0 THEN cl ELSE op.first]
    <3>1. op' = o
      BY <2>1 DEF AllocCluster, Goto
    <3>2. o.kind = op.kind /\ o.prev = op.prev
      BY <1>1 DEF Locals
    <3>. QED
      BY <1>3, <3>1, <3>2
  <2>2. CASE AllocFails
    BY <2>2 DEF AllocFails, GiveUp, Return, Goto, Building
  <2>3. CASE LinkCluster \/ Seal \/ MkdirBlock
    BY <1>3, <2>3 DEF LinkCluster, Seal, MkdirBlock, Goto
  <2>4. CASE WriteBlock
    BY <1>1, <2>4 DEF WriteBlock, GiveUp, Goto, Building, Locals
  <2>5. CASE SetEntry \/ Crash
    BY <2>5 DEF SetEntry, Crash, Abandon, Return, Goto, Building
  <2>. QED
    BY <1>3, <2>1, <2>2, <2>3, <2>4, <2>5, Zenon DEF Next, Steps, Calls, WriteFile, WriteUsers, DeleteFile,
         Mkdir, Cd, CdUp, Call, FindHit, FindEnd, FindOn, FindNone, SlotHit, SlotOn, SlotNone, ExtendWalk,
         ExtendLink, ExtendFails, ExtendSeal, ExtendZero, FreeOne, FreeReadError, FreeDone, MarkDeleted,
         Building
<1>4. CASE pc \notin Building \cup {"find", "slot"} /\ ~(pc = "free" /\ ~op.failed)
  <2>1. CASE FreeDone
    <3>1. pc = "free" /\ op.failed /\ op.kind = "write"
      BY <1>1, <1>4, <2>1, FieldsTyped DEF FreeDone, InCall, OldChain
    <3>. QED
      BY <2>1, <3>1 DEF FreeDone, Abandon, Return, Goto, Building
  <2>2. CASE Calls \/ Crash
    BY <2>2 DEF Calls, WriteFile, WriteUsers, DeleteFile, Mkdir, Cd, CdUp, Call, Crash, Return, Goto, Building
  <2>3. CASE \/ ExtendWalk \/ ExtendLink \/ ExtendFails \/ ExtendSeal \/ ExtendZero
             \/ FreeOne \/ FreeReadError \/ MarkDeleted
    BY <2>3 DEF ExtendWalk, ExtendLink, ExtendFails, ExtendSeal, ExtendZero, FreeOne, FreeReadError,
         MarkDeleted, Abandon, Return, Goto, Building, Outcome
  <2>. QED
    BY <1>4, <2>1, <2>2, <2>3 DEF Next, Steps, FindHit, FindEnd, FindOn, FindNone, SlotHit, SlotOn, SlotNone,
         AllocCluster, AllocFails, LinkCluster, WriteBlock, Seal, MkdirBlock, SetEntry, Building
<1>. QED
  BY <1>2, <1>3, <1>4

LEMMA StoresKept ==
  ASSUME NEW s, NEW n \in Nat \ {0}, n = s.len, NEW v, NEW chain \in Chains(n), Stores(s, chain, v),
         \A k \in 1 .. n : SameCluster(chain[k])
  PROVE  Stores(s, chain, v)'
<1>1. /\ \A k \in 1 .. n : /\ chain[k] \notin dirSet' /\ data'[chain[k]] = <<v, k - 1>>
                           /\ k < n => fat'[chain[k]] = chain[k + 1]
      /\ chain[1] = s.first /\ fat'[chain[n]] = EOF
  <2>1. n \in 1 .. n
    OBVIOUS
  <2>2. /\ \A k \in 1 .. n : /\ data[chain[k]] = <<v, k - 1>>
                             /\ k < n => fat[chain[k]] = chain[k + 1]
        /\ chain[1] = s.first /\ fat[chain[n]] = EOF
    BY DEF Stores, Strung
  <2>. QED
    BY <2>1, <2>2 DEF SameCluster
<1>2. Strung(chain, n, v)'
  BY <1>1 DEF Strung
<1>. QED
  BY <1>1, <1>2 DEF Stores

LEMMA FiledStep ==
  ASSUME IInv, NEW own \in Owners, Volume(own), Filed, Built, Next, Undamaged'
  PROVE  Filed'
<1>. SUFFICES ASSUME NEW b \in DirBlocks', NEW i \in SlotsOf(b), IsFile(b, i)', ~GivenUp(b, i)'
              PROVE  IF dirs'[b][i].len = 0 THEN dirs'[b][i].first = 0
                     ELSE \E chain \in Chains(dirs'[b][i].len), v \in Data :
                            Stores(dirs[b][i], chain, v)' /\ Apart(chain)'
  BY DEF Filed, Chains
<1>1. CASE SetEntry /\ b = op.blk /\ i = op.idx /\ op.kind = "write" /\ dirs'[b][i] = NewEntry
  <2>1. /\ pc = "entry" /\ pc' = "idle" /\ UNCHANGED <<fat, data, dirSet>>
        /\ dirs'[b][i].len = op.n /\ dirs'[b][i].first = op.first /\ op.n \in Nat
    BY <1>1, FieldsTyped DEF SetEntry, Abandon, Return, Goto, NewEntry
  <2>2. CASE op.n = 0
    <3>1. op.first = 0
      BY <1>1, <2>1, <2>2 DEF Volume, InCall, NewChain, Building
    <3>. QED
      BY <2>1, <2>2, <3>1
  <2>3. CASE op.n # 0
    <3>1. PICK chain \in Chains(op.n) : Strung(chain, op.n, op.val) /\ chain[1] = op.first /\ chain[op.n] = op.prev
      BY <1>1, <2>1, <2>3 DEF Built, Building
    <3>2. op.prev \in Cluster
      BY <2>1, <2>3, <3>1 DEF Chains
    <3>3. fat[op.prev] = EOF /\ op.val \in Data
      BY <1>1, <2>1, <3>2, Numbers DEF Volume, InCall, NewChain, Building, IInv, CallSound
    <3>4. PICK v \in Data : v = op.val
      BY <3>3
    <3>5. /\ \A k \in 1 .. op.n : /\ chain[k] \notin dirSet' /\ data'[chain[k]] = <<v, k - 1>>
                                  /\ k < op.n => fat'[chain[k]] = chain[k + 1]
          /\ chain[1] = op.first /\ fat'[chain[op.n]] = EOF
      BY <2>1, <3>1, <3>3, <3>4 DEF Strung
    <3>6. Stores(dirs[b][i], chain, v)'
      BY <2>1, <3>5 DEF Stores, Strung
    <3>7. Apart(chain)'
      BY <2>1 DEF Apart, Building
    <3>. QED
      BY <2>1, <2>3, <3>1, <3>4, <3>6, <3>7
  <2>. QED
    BY <2>2, <2>3
<1>2. CASE /\ b \in DirBlocks /\ IsFile(b, i) /\ ~GivenUp(b, i) /\ dirs'[b][i] = dirs[b][i]
           /\ ~(SetEntry /\ b = op.blk /\ i = op.idx /\ op.kind = "write" /\ dirs'[b][i] = NewEntry)
  <2>1. PICK n : n = dirs[b][i].len
    OBVIOUS
  <2>2. n \in Nat /\ b \in Dirs
    BY <1>2, <2>1, LenAssumption, ReadsTyped, DiskTyped, Numbers DEF Slot, IInv, DirBlocks
  <2>3. CASE n = 0
    BY <1>2, <2>1, <2>3 DEF Filed
  <2>4. CASE n # 0
    <3>1. PICK chain \in Chains(n), v \in Data : Stores(dirs[b][i], chain, v) /\ Apart(chain)
      BY <1>2, <2>1, <2>4 DEF Filed
    <3>2. (\A k \in 1 .. n : SameCluster(chain[k])) /\ (Live(b, i) \/ pc' \notin Building)
      <4>1. CASE ~SetEntry
        BY <1>2, <2>1, <2>2, <2>4, <3>1, <4>1, ChainKept
      <4>2. CASE SetEntry
        BY <2>2, <3>1, <4>2, <2>1 DEF SetEntry, Abandon, Return, Goto, Building, SameCluster, Stores, Strung
      <4>. QED
        BY <4>1, <4>2
    <3>3. Stores(dirs[b][i], chain, v)'
      <4>1. PICK s : s = dirs[b][i]
        OBVIOUS
      <4>2. Stores(s, chain, v)'
        BY <2>1, <2>2, <2>4, <3>1, <3>2, <4>1, StoresKept
      <4>3. dirs'[b][i] = s
        BY <1>2, <4>1
      <4>. QED
        BY <4>2, <4>3
    <3>4. Apart(chain)'
      <4>. SUFFICES ASSUME pc' \in Building, op'.kind = "write", NEW k \in 1 .. n PROVE chain[k] # op'.prev
        BY DEF Apart, Chains
      <4>1. Live(b, i) /\ chain[k] \in Cluster
        BY <3>2 DEF Chains
      <4>2. CASE op'.prev = 0
        BY <4>1, <4>2, Numbers
      <4>3. CASE pc \in Building /\ op.kind = "write" /\ op'.prev = op.prev
        BY <3>1, <4>3 DEF Apart, Chains
      <4>4. CASE pc = "data" /\ op'.prev = op.cl
        BY <2>1, <2>2, <3>1, <4>1, <4>4, FileApart
      <4>. QED
        BY <4>2, <4>3, <4>4, PrevSteps
    <3>. QED
      BY <1>2, <2>1, <2>4, <3>1, <3>3, <3>4
  <2>. QED
    BY <2>3, <2>4
<1>. QED
  BY <1>1, <1>2, FileCameFrom

(* The chain that a write builds grows by the cluster just written.        *)
LEMMA BuiltStep ==
  ASSUME IInv, NEW own \in Owners, Volume(own), Built, Next, Undamaged'
  PROVE  Built'
<1>. SUFFICES ASSUME pc' \in Building, op'.kind = "write", op'.n > 0
              PROVE  \E chain \in Chains(op'.n) :
                       /\ Strung(chain, op.n, op.val)'
                       /\ chain[1] = op'.first /\ chain[op'.n] = op'.prev
                       /\ pc' = "data" => fat'[op'.prev] = op'.cl
  BY DEF Built, Chains
<1>1. /\ op \in Locals /\ InCall(own) /\ op.n \in Nat
      /\ (pc \in Building /\ op.kind = "write") \/ pc = "data"
  BY ReadsTyped, PrevSteps, FieldsTyped DEF IInv, Volume
<1>2. /\ pc \in Building /\ op.kind = "write"
      /\ op.prev # 0 /\ pc # "data" => fat[op.prev] = EOF
  BY <1>1 DEF InCall, NewChain, Building, IInv, CallSound
<1>3. AllocCluster \/ LinkCluster \/ WriteBlock \/ Seal
  <2>1. ~AllocFails
    BY <1>2 DEF AllocFails, GiveUp, Goto, Building
  <2>2. ~MkdirBlock
    BY <1>1, <1>2 DEF MkdirBlock, InCall, NewChain
  <2>3. ~SetEntry /\ ~Crash
    BY DEF SetEntry, Crash, Abandon, Return, Goto, Building
  <2>. QED
    BY <1>2, <2>1, <2>2, <2>3, Zenon DEF Next, Steps, Calls, WriteFile, WriteUsers, DeleteFile,
         Mkdir, Cd, CdUp, Call, FindHit, FindEnd, FindOn, FindNone, SlotHit, SlotOn, SlotNone, ExtendWalk,
         ExtendLink, ExtendFails, ExtendSeal, ExtendZero, FreeOne, FreeReadError, FreeDone, MarkDeleted,
         Building
<1>4. PICK n, prev, v : n = op.n /\ prev = op.prev /\ v = op.val
  OBVIOUS
<1>5. ASSUME n # 0
      PROVE  \E chain \in Chains(n) :
               /\ \A k \in 1 .. n : /\ chain[k] \in Cluster /\ chain[k] \notin dirSet
                                    /\ data[chain[k]] = <<v, k - 1>>
                                    /\ k < n => fat[chain[k]] = chain[k + 1] /\ chain[k + 1] \in Cluster
               /\ chain[1] = op.first /\ chain[n] = prev /\ prev \in Cluster
               /\ pc = "data" => fat[prev] = op.cl
               /\ pc # "data" => fat[prev] = EOF
  <2>1. PICK chain \in Chains(n) :
               /\ Strung(chain, n, v) /\ chain[1] = op.first /\ chain[n] = prev
               /\ pc = "data" => fat[prev] = op.cl
    BY <1>1, <1>2, <1>4, <1>5 DEF Built
  <2>2. \A k \in 1 .. n : /\ chain[k] \in Cluster
                          /\ k < n => k + 1 \in 1 .. n /\ chain[k + 1] \in Cluster
    BY <1>1, <1>4 DEF Chains
  <2>3. n \in 1 .. n
    BY <1>1, <1>4, <1>5
  <2>4. prev \in Cluster /\ prev # 0
    BY <2>1, <2>2, <2>3, Numbers
  <2>. QED
    BY <1>2, <1>4, <2>1, <2>2, <2>4 DEF Strung
<1>6. CASE AllocCluster
  <2>. DEFINE cl == LowestOf(FreeClusters)
              o == [op EXCEPT !.cl = cl, !.first = IF op.n = 0 THEN cl ELSE op.first]
  <2>1. /\ pc = "alloc" /\ op' = o /\ (op.prev # 0 => pc' = "link") /\ UNCHANGED <<data, dirSet>>
        /\ \E r : SetFat(cl, EOF, r)
        /\ FreeClusters # {}
    BY <1>2, <1>6 DEF AllocCluster, Goto
  <2>2. /\ o.n = op.n /\ o.prev = op.prev /\ o.val = op.val
        /\ o.first = (IF op.n = 0 THEN cl ELSE op.first)
    BY <1>1 DEF Locals
  <2>. HIDE DEF o
  <2>3. n # 0
    BY <1>4, <2>1, <2>2
  <2>4. PICK chain \in Chains(n) :
               /\ \A k \in 1 .. n : /\ chain[k] \in Cluster /\ chain[k] \notin dirSet
                                    /\ data[chain[k]] = <<v, k - 1>>
                                    /\ k < n => fat[chain[k]] = chain[k + 1] /\ chain[k + 1] \in Cluster
               /\ chain[1] = op.first /\ chain[n] = prev /\ prev \in Cluster /\ fat[prev] = EOF
    BY <1>5, <2>1, <2>3
  <2>5. fat[cl] = Free
    BY <2>1, FreeIsFree
  <2>6. \A k \in 1 .. n : k < n => chain[k] # cl /\ fat'[chain[k]] = chain[k + 1]
    BY <2>1, <2>4, <2>5, Elsewhere, Numbers DEF Free, Root
  <2>7. Strung(chain, n, v)'
    BY <2>1, <2>4, <2>6 DEF Strung
  <2>8. prev # 0
    BY <2>4, Numbers
  <2>9. pc' # "data"
    BY <1>4, <2>1, <2>8
  <2>. QED
    BY <1>4, <2>1, <2>2, <2>3, <2>4, <2>7, <2>9
<1>7. CASE LinkCluster
  <2>1. /\ pc = "link" /\ op' = op /\ UNCHANGED <<data, dirSet>>
        /\ \E r : SetFat(op.prev, op.cl, r) /\ r # "lost"
    BY <1>7 DEF LinkCluster, Goto, Undamaged
  <2>2. n # 0
    BY <1>4, <2>1
  <2>3. PICK chain \in Chains(n) :
               /\ \A k \in 1 .. n : /\ chain[k] \in Cluster /\ chain[k] \notin dirSet
                                    /\ data[chain[k]] = <<v, k - 1>>
                                    /\ k < n => fat[chain[k]] = chain[k + 1] /\ chain[k + 1] \in Cluster
               /\ chain[1] = op.first /\ chain[n] = prev /\ prev \in Cluster /\ fat[prev] = EOF
    BY <1>5, <2>1, <2>2
  <2>4. \A k \in 1 .. n : k < n => chain[k] # prev
    BY <2>3, Numbers
  <2>5. fat'[prev] = op.cl /\ \A k \in 1 .. n : k < n => fat'[chain[k]] = chain[k + 1]
    BY <1>4, <2>1, <2>3, <2>4, Rewritten
  <2>6. Strung(chain, n, v)'
    BY <2>1, <2>3, <2>5 DEF Strung
  <2>. QED
    BY <1>4, <2>1, <2>3, <2>5, <2>6
<1>8. CASE WriteBlock
  <2>1. /\ pc = "data" /\ UNCHANGED <<fat, dirSet>>
        /\ op' = [op EXCEPT !.prev = op.cl, !.cl = 0, !.n = op.n + 1] /\ pc' = "alloc"
        /\ data' = [data EXCEPT ![op.cl] = <<op.val, op.n>>]
    BY <1>8 DEF WriteBlock, GiveUp, Goto, Building, BlockFailed
  <2>2. PICK cl : cl = op.cl
    OBVIOUS
  <2>3. /\ cl \in Cluster /\ cl \notin dirSet /\ fat[cl] = EOF /\ (n = 0 => op.first = cl)
    BY <1>1, <1>4, <2>1, <2>2 DEF IInv, CallSound, InCall, NewChain
  <2>4. /\ data'[cl] = <<v, n>> /\ \A d \in Cluster : d # cl => data'[d] = data[d]
    BY <1>4, <2>1, <2>2, <2>3 DEF IInv, TypeOK
  <2>5. op'.n = n + 1 /\ op'.prev = cl /\ op'.val = v /\ op'.first = op.first
    BY <1>1, <1>4, <2>1, <2>2 DEF Locals
  <2>6. CASE n = 0
    <3>. DEFINE chain == [k \in 1 .. 1 |-> cl]
    <3>1. chain \in Chains(1) /\ chain[1] = cl
      BY <2>3 DEF Chains
    <3>. HIDE DEF chain
    <3>2. \A k \in 1 .. 1 : k = 1 /\ k - 1 = 0 /\ ~(k < 1)
      OBVIOUS
    <3>3. Strung(chain, 1, v)'
      BY <2>1, <2>3, <2>4, <2>6, <3>1, <3>2 DEF Strung
    <3>4. op'.n = 1
      BY <2>5, <2>6
    <3>. QED
      BY <2>1, <2>3, <2>5, <2>6, <3>1, <3>3, <3>4
  <2>7. CASE n # 0
    <3>1. PICK chain \in Chains(n) :
               /\ \A k \in 1 .. n : /\ chain[k] \in Cluster /\ chain[k] \notin dirSet
                                    /\ data[chain[k]] = <<v, k - 1>>
                                    /\ k < n => fat[chain[k]] = chain[k + 1] /\ chain[k + 1] \in Cluster
               /\ chain[1] = op.first /\ chain[n] = prev /\ fat[prev] = cl
      BY <1>5, <2>1, <2>2, <2>7
    <3>2. \A k \in 1 .. n : chain[k] # cl
      <4>1. \A k \in 1 .. n : k < n \/ k = n
        BY <1>1, <1>4
      <4>2. fat[cl] \notin Cluster
        BY <2>3, Numbers
      <4>. QED
        BY <2>3, <3>1, <4>1, <4>2
    <3>. DEFINE longer == [k \in 1 .. n + 1 |-> IF k = n + 1 THEN cl ELSE chain[k]]
    <3>3. longer \in Chains(n + 1)
      BY <1>1, <1>4, <2>3, <3>1 DEF Chains
    <3>4. longer[n + 1] = cl /\ \A k \in 1 .. n : longer[k] = chain[k] /\ longer[k] # cl
      BY <1>1, <1>4, <3>2
    <3>. HIDE DEF longer
    <3>5. \A k \in 1 .. n + 1 : /\ longer[k] \notin dirSet' /\ data'[longer[k]] = <<v, k - 1>>
                                /\ k < n + 1 => fat'[longer[k]] = longer[k + 1]
      <4>. SUFFICES ASSUME NEW k \in 1 .. n + 1
                    PROVE  /\ longer[k] \notin dirSet' /\ data'[longer[k]] = <<v, k - 1>>
                           /\ k < n + 1 => fat'[longer[k]] = longer[k + 1]
        OBVIOUS
      <4>1. CASE k = n + 1
        BY <1>1, <1>4, <2>1, <2>3, <2>4, <3>4, <4>1
      <4>2. CASE k = n
        BY <1>1, <1>4, <2>1, <2>4, <2>7, <3>1, <3>4, <4>2
      <4>3. CASE k < n
        <5>1. k \in 1 .. n /\ k + 1 \in 1 .. n
          BY <1>1, <1>4, <4>3
        <5>. QED
          BY <2>1, <2>4, <3>1, <3>4, <4>3, <5>1
      <4>. QED
        BY <1>1, <1>4, <4>1, <4>2, <4>3
    <3>6. Strung(longer, n + 1, v)'
      BY <3>5 DEF Strung
    <3>7. longer[1] = op.first
      BY <1>1, <1>4, <2>7, <3>1, <3>4
    <3>. QED
      BY <2>1, <2>5, <3>3, <3>4, <3>6, <3>7
  <2>. QED
    BY <2>6, <2>7
<1>9. CASE Seal
  <2>1. /\ pc = "alloc" /\ op' = op /\ UNCHANGED <<data, dirSet>> /\ pc' = "entry"
        /\ fat' = fat \/ \E r : SetFat(op.prev, EOF, r)
    BY <1>9 DEF Seal, Goto
  <2>2. n # 0
    BY <1>4, <2>1
  <2>3. PICK chain \in Chains(n) :
               /\ \A k \in 1 .. n : /\ chain[k] \in Cluster /\ chain[k] \notin dirSet
                                    /\ data[chain[k]] = <<v, k - 1>>
                                    /\ k < n => fat[chain[k]] = chain[k + 1] /\ chain[k + 1] \in Cluster
               /\ chain[1] = op.first /\ chain[n] = prev /\ prev \in Cluster /\ fat[prev] = EOF
    BY <1>5, <2>1, <2>2
  <2>4. \A k \in 1 .. n : k < n => chain[k] # prev
    BY <2>3, Numbers
  <2>5. \A k \in 1 .. n : k < n => fat'[chain[k]] = chain[k + 1]
    BY <1>4, <2>1, <2>3, <2>4, Elsewhere
  <2>6. Strung(chain, n, v)'
    BY <2>1, <2>3, <2>5 DEF Strung
  <2>. QED
    BY <1>4, <2>1, <2>3, <2>6
<1>. QED
  BY <1>3, <1>6, <1>7, <1>8, <1>9

LEMMA FilesStutter ==
  ASSUME UNCHANGED vars, Filed, Built
  PROVE  Filed' /\ Built'
<1>1. UNCHANGED <<fat, dirs, data, pc, op, dirSet>>
  BY DEF vars
<1>2. \A chain, n, v : Strung(chain, n, v)' <=> Strung(chain, n, v)
  BY <1>1 DEF Strung
<1>3. Built'
  BY <1>1, <1>2 DEF Built
<1>4. \A b, i : (IsFile(b, i)' <=> IsFile(b, i)) /\ (GivenUp(b, i)' <=> GivenUp(b, i))
  BY <1>1 DEF IsFile, GivenUp, DirBlocks, OverwriteOpen
<1>5. \A chain : Apart(chain)' <=> Apart(chain)
  BY <1>1 DEF Apart
<1>6. \A b, i, chain, v : Stores(dirs[b][i], chain, v)' <=> Stores(dirs[b][i], chain, v)
  BY <1>1, <1>2 DEF Stores
<1>7. Filed'
  BY <1>1, <1>4, <1>5, <1>6 DEF Filed, DirBlocks
<1>. QED
  BY <1>3, <1>7

(* The inductive invariant: every file's chain, and the one that is being  *)
(* built apart from them.                                                  *)
THEOREM FilesStaySound == Spec => []FilesSound
<1>1. Init => FilesSound
  <2>. SUFFICES ASSUME Init PROVE Filed /\ Built
    BY DEF FilesSound
  <2>1. Built
    BY DEF Init, Built, Building
  <2>2. \A b \in Dirs : \A i \in SlotsOf(b) : dirs[b][i].name = "end"
    BY DEF Init, EmptyBlock, Mark
  <2>3. \A b, i : b \in DirBlocks => ~IsFile(b, i)
    BY <2>2, Numbers DEF Init, IsFile, DirBlocks
  <2>. QED
    BY <2>1, <2>3 DEF Filed
<1>2. IInv /\ VolumeSound /\ FilesSound /\ [Next]_vars => FilesSound'
  <2>. SUFFICES ASSUME IInv, VolumeSound, FilesSound, [Next]_vars, Undamaged' PROVE Filed' /\ Built'
    BY DEF FilesSound
  <2>1. Undamaged
    BY DamageStays DEF vars, Undamaged
  <2>2. PICK own \in Owners : Volume(own)
    BY <2>1 DEF VolumeSound
  <2>3. Filed /\ Built
    BY <2>1 DEF FilesSound
  <2>. QED
    BY <2>2, <2>3, FiledStep, BuiltStep, FilesStutter
<1>. QED
  BY <1>1, <1>2, Invariance, VolumeStaysSound, PTL DEF Spec

(* FilesIntact: on a volume no call has damaged every file named in a      *)
(* directory has the clusters its entry says, in order, with the blocks of *)
(* one write, unless its own chain was just given up for a new one.        *)
THEOREM FilesStayIntact == Spec => []FilesIntact
<1>1. FilesSound => FilesIntact
  BY DEF FilesSound, Filed, FilesIntact, Whole
<1>. QED
  BY <1>1, FilesStaySound, PTL

(* OthersUntouched: no step of a call, and no reset within it, changes the *)
(* entry or the contents of a file the call is not about.                  *)
THEOREM OthersStay == Spec => OthersUntouched
<1>1. IInv /\ VolumeSound /\ FilesSound /\ Next => OthersKept
  <2>. SUFFICES ASSUME IInv, VolumeSound, FilesSound, Next, Undamaged,
                       NEW b \in DirBlocks, NEW i \in SlotsOf(b), IsFile(b, i), ~IsTarget(b, i)
                PROVE  dirs'[b][i] = dirs[b][i] /\ KeepsFile(dirs[b][i])
    BY DEF OthersKept
  <2>1. PICK own \in Owners : Volume(own)
    BY DEF VolumeSound
  <2>2. dirs'[b][i] = dirs[b][i]
    BY <2>1, EntryKept DEF IsFile
  <2>3. PICK s, n : s = dirs[b][i] /\ n = s.len
    OBVIOUS
  <2>4. n \in Nat /\ b \in Dirs
    BY <2>3, LenAssumption, ReadsTyped, DiskTyped, Numbers DEF Slot, IInv, DirBlocks
  <2>5. ~GivenUp(b, i) /\ Filed /\ Built
    BY DEF FilesSound, GivenUp, OverwriteOpen, IsTarget
  <2>6. ASSUME n # 0 PROVE \E chain \in Chains(n), v \in Data : Stores(s, chain, v) /\ Stores(s, chain, v)'
    <3>1. PICK chain \in Chains(n), v \in Data : Stores(dirs[b][i], chain, v) /\ Apart(chain)
      BY <2>3, <2>5, <2>6 DEF Filed
    <3>2. dirs[b][i].first # 0
      BY <2>3, <2>4, <2>6, <3>1, Numbers DEF Stores, Chains
    <3>3. Live(b, i)
      BY <3>2 DEF Live, Used, Vacated, IsFile, IsTarget
    <3>4. \A k \in 1 .. n : SameCluster(chain[k])
      BY <2>1, <2>3, <2>4, <2>5, <3>1, <3>3, FileUntouched
    <3>5. Stores(s, chain, v)
      BY <2>3, <3>1
    <3>6. Stores(s, chain, v)'
      BY <2>3, <2>4, <2>6, <3>4, <3>5, StoresKept
    <3>. QED
      BY <3>5, <3>6
  <2>7. KeepsFile(s)
    BY <2>3, <2>4, <2>6 DEF KeepsFile
  <2>. QED
    BY <2>2, <2>3, <2>7
<1>2. IInv /\ VolumeSound /\ FilesSound /\ [Next]_vars => [OthersKept]_vars
  BY <1>1
<1>. QED
  BY <1>2, Invariance, VolumeStaysSound, FilesStaySound, PTL DEF Spec, OthersUntouched

(* The attribute that is set for the next write.                           *)
LEMMA FlagStep ==
  ASSUME IInv, NEW own \in Owners, Volume(own), Flagged, Next, "attr" \notin damage'
  PROVE  Flagged'
<1>. SUFFICES ASSUME nextHidden'
              PROVE  pc' # "idle" /\ op'.kind = "write" /\ op'.dir = Root /\ op'.name = UsersDat
  BY DEF Flagged
<1>1. op \in Locals /\ InCall(own)
  BY ReadsTyped DEF IInv, Volume
<1>2. CASE Calls
  <2>1. CASE \E val \in Data, len \in 1 .. MaxLen : WriteUsers(val, len)
    <3>1. PICK val \in Data, len \in 1 .. MaxLen : WriteUsers(val, len)
      BY <2>1
    <3>. DEFINE o == [NoOp EXCEPT !.kind = "write", !.name = UsersDat, !.val = val, !.len = len]
    <3>2. pc' = "find" /\ op' = [o EXCEPT !.at = o.dir]
      BY <3>1 DEF WriteUsers, Call, Goto
    <3>. QED
      BY <3>2 DEF NoOp
  <2>2. CASE ~\E val \in Data, len \in 1 .. MaxLen : WriteUsers(val, len)
    <3>1. UNCHANGED nextHidden /\ pc = "idle"
      BY <1>2, <2>2, Zenon DEF Calls, WriteFile, DeleteFile, Mkdir, Cd, CdUp, Call
    <3>. QED
      BY <3>1 DEF Flagged
  <2>. QED
    BY <2>1, <2>2
<1>3. CASE Crash
  BY <1>3 DEF Crash
<1>4. CASE Steps
  <2>1. ASSUME UNCHANGED nextHidden, NEW o, op' = o, pc' # "idle",
               op.kind = "write" => o.kind = op.kind /\ o.dir = op.dir /\ o.name = op.name
        PROVE  pc' # "idle" /\ op'.kind = "write" /\ op'.dir = Root /\ op'.name = UsersDat
    BY <2>1 DEF Flagged
  <2>2. CASE UNCHANGED nextHidden
    <3>1. op.kind = "write" /\ op.dir = Root /\ op.name = UsersDat /\ pc # "idle"
      BY <2>2 DEF Flagged
    <3>2. ASSUME NEW causes, Abandon(causes) PROVE FALSE
      BY <3>1, <3>2 DEF Abandon
    <3>3. CASE FindHit
      <4>1. PICK hit : hit = [op EXCEPT !.found = "hit", !.blk = op.at, !.idx = FirstStop,
                                        !.old = Found.first, !.cur = Found.first]
        OBVIOUS
      <4>2. pc' = "free" /\ op' = hit
        BY <3>1, <3>3, <4>1 DEF FindHit, Goto
      <4>. QED
        BY <1>1, <3>1, <4>1, <4>2 DEF Locals
    <3>4. CASE FindEnd \/ FindOn \/ FindNone \/ SlotHit \/ SlotOn \/ ExtendWalk
      BY <1>1, <3>1, <3>4, ZenonT(30) DEF FindEnd, FindOn, FindNone, SlotHit, SlotOn, ExtendWalk, Goto, Locals
    <3>5. CASE SlotNone
      BY <1>1, <3>1, <3>2, <3>5 DEF SlotNone, Goto, Locals
    <3>6. CASE ExtendLink
      <4>1. PICK nc : pc' = "xeof" /\ op' = [op EXCEPT !.cl = nc]
        BY <3>2, <3>6 DEF ExtendLink, Outcome, Goto
      <4>. QED
        BY <1>1, <3>1, <4>1 DEF Locals
    <3>7. CASE ExtendFails \/ ExtendSeal \/ ExtendZero
      BY <1>1, <3>1, <3>2, <3>7 DEF ExtendFails, ExtendSeal, ExtendZero, Goto, Locals
    <3>8. CASE FreeOne \/ FreeReadError \/ FreeDone
      BY <1>1, <3>1, <3>2, <3>8 DEF FreeOne, FreeReadError, FreeDone, Goto, Locals
    <3>9. CASE AllocCluster
      <4>. DEFINE cl == LowestOf(FreeClusters)
                  o == [op EXCEPT !.cl = cl, !.first = IF op.n = 0 THEN cl ELSE op.first]
      <4>1. op' = o /\ pc' # "idle"
        BY <3>1, <3>9 DEF AllocCluster, Goto
      <4>2. o.kind = op.kind /\ o.dir = op.dir /\ o.name = op.name
        BY <1>1 DEF Locals
      <4>. QED
        BY <3>1, <4>1, <4>2
    <3>10. CASE AllocFails \/ LinkCluster \/ WriteBlock \/ Seal
      BY <1>1, <3>1, <3>10, ZenonT(30) DEF AllocFails, LinkCluster, WriteBlock, Seal, GiveUp, Goto, Locals
    <3>11. CASE MkdirBlock
      BY <3>1, <3>11 DEF MkdirBlock, Goto
    <3>12. CASE SetEntry
      BY <3>1, <3>12 DEF SetEntry, HiddenAfterEntry
    <3>13. CASE MarkDeleted
      BY <1>1, <3>1, <3>13 DEF MarkDeleted, InCall, OldChain
    <3>. QED
      BY <1>4, <3>3, <3>4, <3>5, <3>6, <3>7, <3>8, <3>9, <3>10, <3>11, <3>12, <3>13 DEF Steps
  <2>3. CASE SetEntry
    <3>1. op.kind = "mkdir" /\ nextHidden
      BY <2>3 DEF SetEntry, HiddenAfterEntry
    <3>. QED
      BY <3>1 DEF Flagged
  <2>4. CASE ~SetEntry
    <3>1. UNCHANGED nextHidden
      BY <1>4, <2>4 DEF Steps, FindHit, FindEnd, FindOn, FindNone, SlotHit, SlotOn, SlotNone, ExtendWalk,
           ExtendLink, ExtendFails, ExtendSeal, ExtendZero, FreeOne, FreeReadError, FreeDone, AllocCluster,
           AllocFails, LinkCluster, WriteBlock, Seal, MkdirBlock, MarkDeleted, session
    <3>. QED
      BY <2>2, <3>1
  <2>. QED
    BY <2>3, <2>4
<1>. QED
  BY <1>2, <1>3, <1>4 DEF Next

LEMMA AttributesStep ==
  ASSUME IInv, VolumeSound, AttributesSound, [Next]_vars
  PROVE  AttributesSound'
<1>. SUFFICES ASSUME Undamaged', "attr" \notin damage' PROVE Flagged' /\ OnlyUsersHidden'
  BY DEF AttributesSound
<1>1. CASE UNCHANGED vars
  <2>1. UNCHANGED <<dirs, nextHidden, pc, op, dirSet, damage>> /\ Undamaged /\ "attr" \notin damage
    BY <1>1 DEF vars, Undamaged
  <2>. QED
    BY <2>1 DEF AttributesSound, Flagged, OnlyUsersHidden, DirBlocks, Undamaged
<1>2. CASE Next
  <2>1. Undamaged /\ "attr" \notin damage
    BY <1>2, DamageStays
  <2>2. Flagged /\ OnlyUsersHidden
    BY <2>1 DEF AttributesSound
  <2>3. PICK own \in Owners : Volume(own)
    BY <2>1 DEF VolumeSound
  <2>4. Flagged'
    BY <1>2, <2>2, <2>3, FlagStep
  <2>5. ASSUME NEW b \in DirBlocks', NEW i \in SlotsOf(b), dirs'[b][i].name \in Names, dirs'[b][i].hidden
        PROVE  b = Root /\ dirs'[b][i].name = UsersDat
    <3>1. CASE b \in DirBlocks /\ dirs'[b][i] = dirs[b][i]
      BY <2>1, <2>2, <2>5, <3>1 DEF OnlyUsersHidden
    <3>2. CASE SetEntry /\ b = op.blk /\ i = op.idx /\ dirs'[b][i] = NewEntry
      <4>1. NewEntry.hidden = (op.kind = "write" /\ nextHidden) /\ NewEntry.name = op.name
        BY DEF NewEntry
      <4>2. nextHidden
        BY <2>5, <3>2, <4>1
      <4>3. op.dir = Root /\ op.name = UsersDat
        BY <2>2, <4>2 DEF Flagged
      <4>4. op.blk \in DirBlocks /\ own[op.blk] = Root
        BY <2>3, <3>2, <4>3 DEF SetEntry, Volume, InCall, Place, Building
      <4>5. op.blk = Root
        BY <2>3, <4>4 DEF Volume, OnDisk, Chained, DirBlocks
      <4>. QED
        BY <3>2, <4>1, <4>3, <4>5
    <3>. QED
      BY <1>2, <2>3, <2>5, <3>1, <3>2, NameCameFrom
  <2>. QED
    BY <2>4, <2>5 DEF OnlyUsersHidden
<1>. QED
  BY <1>1, <1>2

(* OnlyUsersHidden: unless a write was abandoned with the attribute set,   *)
(* no entry is hidden but USERS.DAT in the root.                           *)
THEOREM HiddenStaysUsers == Spec => []OnlyUsersHidden
<1>1. Init => AttributesSound
  <2>. SUFFICES ASSUME Init PROVE Flagged /\ OnlyUsersHidden
    BY DEF AttributesSound
  <2>1. \A b \in Dirs : \A i \in SlotsOf(b) : dirs[b][i].name = "end"
    BY DEF Init, EmptyBlock, Mark
  <2>. QED
    BY <2>1, Numbers DEF Init, Flagged, OnlyUsersHidden, DirBlocks
<1>2. IInv /\ VolumeSound /\ AttributesSound /\ [Next]_vars => AttributesSound'
  BY AttributesStep
<1>3. AttributesSound => OnlyUsersHidden
  BY DEF AttributesSound, OnlyUsersHidden
<1>. QED
  BY <1>1, <1>2, <1>3, Invariance, VolumeStaysSound, PTL DEF Spec

-----------------------------------------------------------------------------
(* The tree of directories.  Being linked is least among what is closed    *)
(* under the links: to show that c is linked from b, or is not, one        *)
(* exhibits a set.                                                         *)
(* Being linked: reflexive, transitive, from block to block.               *)
LEMMA LinkedOn ==
  /\ \A b \in Dirs : Linked(b, b)
  /\ \A b, c : Linked(b, c) /\ c \in dirSet /\ fat[c] \in dirSet => Linked(b, fat[c])
  /\ \A b, c, d : Linked(b, c) /\ Linked(c, d) => Linked(b, d)
BY DEF Linked, Follows

LEMMA LinkedClosed ==
  ASSUME NEW b, NEW T \in SUBSET Dirs, b \in T, Follows(T), NEW c, Linked(b, c)
  PROVE  c \in T
BY DEF Linked

LEMMA LinkedBlock ==
  ASSUME IInv, NEW b \in Dirs, NEW c, Linked(b, c)
  PROVE  c = b \/ (b \in dirSet /\ c \in dirSet)
<1>. DEFINE T == {b} \cup (IF b \in dirSet THEN dirSet ELSE {})
<1>1. T \in SUBSET Dirs /\ b \in T /\ Follows(T)
  BY DiskTyped, Numbers DEF Follows
<1>2. c \in T
  <2>. HIDE DEF T
  <2>. QED
    BY <1>1, LinkedClosed
<1>. QED
  BY <1>2

(* The first and the last link of the way from one block to another.       *)
LEMMA FirstLink ==
  ASSUME IInv, NEW b \in Dirs, NEW c, Linked(b, c), b # c
  PROVE  b \in dirSet /\ fat[b] \in dirSet /\ Linked(fat[b], c)
<1>1. CASE b \notin dirSet \/ fat[b] \notin dirSet
  <2>. DEFINE T == {b}
  <2>1. T \in SUBSET Dirs /\ b \in T /\ Follows(T)
    BY <1>1 DEF Follows
  <2>. QED
    BY <2>1, LinkedClosed
<1>2. CASE b \in dirSet /\ fat[b] \in dirSet
  <2>1. ASSUME NEW S \in SUBSET Dirs, fat[b] \in S, Follows(S) PROVE c \in S
    <3>. DEFINE T == S \cup {b}
    <3>1. T \in SUBSET Dirs /\ b \in T /\ Follows(T)
      BY <2>1 DEF Follows
    <3>. HIDE DEF T
    <3>2. c \in T
      BY <3>1, LinkedClosed
    <3>. QED
      BY <3>2 DEF T
  <2>. QED
    BY <1>2, <2>1 DEF Linked
<1>. QED
  BY <1>1, <1>2

LEMMA LastLink ==
  ASSUME IInv, NEW b \in Dirs, NEW c, Linked(b, c), b # c
  PROVE  \E x \in dirSet : Linked(b, x) /\ fat[x] = c /\ c \in dirSet
<1>. DEFINE T == {x \in Dirs : Linked(b, x) /\ x # c}
<1>1. T \in SUBSET Dirs /\ b \in T /\ c \notin T
  BY LinkedOn
<1>2. ~Follows(T)
  <2>. HIDE DEF T
  <2>. QED
    BY <1>1, LinkedClosed
<1>3. PICK x \in dirSet : x \in T /\ fat[x] \in dirSet /\ fat[x] \notin T
  BY <1>2 DEF Follows
<1>4. Linked(b, fat[x]) /\ fat[x] \in Dirs
  BY <1>3, LinkedOn, DiskTyped, Numbers
<1>. QED
  BY <1>3, <1>4

(* Two blocks of one directory come one after the other.                   *)
LEMMA LinkedLine ==
  ASSUME IInv, NEW d \in Dirs, NEW b, NEW c, Linked(d, b), Linked(d, c)
  PROVE  Linked(b, c) \/ Linked(c, b)
<1>1. b \in Dirs /\ c \in Dirs
  BY LinkedBlock, DiskTyped, Numbers
<1>. DEFINE T == {x \in Dirs : Linked(x, b) \/ Linked(b, x)}
<1>2. T \in SUBSET Dirs /\ d \in T
  OBVIOUS
<1>3. ASSUME NEW x \in T \cap dirSet, fat[x] \in dirSet PROVE fat[x] \in T
  <2>1. fat[x] \in Dirs
    BY <1>3, DiskTyped, Numbers
  <2>2. CASE Linked(b, x) \/ x = b
    BY <1>1, <1>3, <2>1, <2>2, LinkedOn
  <2>3. CASE Linked(x, b) /\ x # b
    BY <2>1, <2>3, FirstLink
  <2>. QED
    BY <2>2, <2>3
<1>4. Follows(T)
  BY <1>3 DEF Follows
<1>5. c \in T
  <2>. HIDE DEF T
  <2>. QED
    BY <1>2, <1>4, LinkedClosed
<1>. QED
  BY <1>5

(* What comes before a block of a directory is in that directory.          *)
LEMMA LinkedBack ==
  ASSUME IInv, NEW own \in Owners, OnDisk(own), NEW d \in Dirs, d = Root \/ Unpointed(d),
         NEW b \in Dirs, NEW c, Linked(d, c), Linked(b, c)
  PROVE  Linked(d, b)
<1>. SUFFICES ASSUME ~Linked(d, b) PROVE FALSE
  OBVIOUS
<1>. DEFINE T == {x \in Dirs : Linked(d, x) /\ ~Linked(b, x)}
<1>1. ~Linked(b, d)
  <2>. SUFFICES ASSUME Linked(b, d) PROVE FALSE
    OBVIOUS
  <2>1. b # d
    BY LinkedOn
  <2>2. \E x \in dirSet : fat[x] = d /\ d \in dirSet
    BY <2>1, LastLink
  <2>. QED
    BY <2>2, DiskTyped, Numbers DEF Unpointed
<1>2. T \in SUBSET Dirs /\ d \in T
  BY <1>1, LinkedOn
<1>3. ASSUME NEW x \in T \cap dirSet, fat[x] \in dirSet PROVE fat[x] \in T
  <2>1. fat[x] \in Dirs /\ Linked(d, fat[x])
    BY <1>3, DiskTyped, Numbers, LinkedOn
  <2>2. ASSUME Linked(b, fat[x]) PROVE FALSE
    <3>1. b # fat[x]
      BY <2>1
    <3>2. PICK y \in dirSet : Linked(b, y) /\ fat[y] = fat[x]
      BY <2>2, <3>1, LastLink
    <3>3. y = x
      BY <1>3, <3>2, DiskTyped DEF OnDisk, Chained
    <3>. QED
      BY <1>3, <3>2, <3>3
  <2>. QED
    BY <2>1, <2>2
<1>4. Follows(T)
  BY <1>3 DEF Follows
<1>5. c \in T
  <2>. HIDE DEF T
  <2>. QED
    BY <1>2, <1>4, LinkedClosed
<1>. QED
  BY <1>5

LEMMA LinkedShrinks ==
  ASSUME \A x \in dirSet' : fat'[x] \in dirSet' => x \in dirSet /\ fat'[x] = fat[x] /\ fat[x] \in dirSet
  PROVE  \A b, c : Linked(b, c)' => Linked(b, c)
<1>1. \A S : Follows(S) => Follows(S)'
  BY DEF Follows
<1>. QED
  BY <1>1 DEF Linked

LEMMA LinkedStays ==
  ASSUME \A x \in dirSet : fat[x] \in dirSet => x \in dirSet' /\ fat'[x] = fat[x] /\ fat[x] \in dirSet'
  PROVE  \A b, c : Linked(b, c) => Linked(b, c)'
<1>1. \A S : Follows(S)' => Follows(S)
  BY DEF Follows
<1>. QED
  BY <1>1 DEF Linked

(* Most steps change no link between directory blocks.                     *)
SameLinks == /\ dirSet' = dirSet
             /\ \A x \in dirSet : fat[x] \in dirSet \/ fat'[x] \in dirSet => fat'[x] = fat[x]

LEMMA SameLinksSteps ==
  ASSUME IInv, NEW own \in Owners, Volume(own), Undamaged', Next, ~ExtendZero, ~MkdirBlock, ~FreeOne
  PROVE  SameLinks
<1>1. /\ OnDisk(own) /\ InCall(own) /\ dirSet \subseteq Cluster
  BY DiskTyped DEF Volume
<1>2. ASSUME NEW c, NEW v, NEW r, SetFat(c, v, r), dirSet' = dirSet,
             c \notin dirSet \/ (fat[c] \notin dirSet /\ v \notin dirSet)
      PROVE  SameLinks
  <2>1. \A x \in dirSet : x # c => fat'[x] = fat[x]
    BY <1>1, <1>2, Elsewhere
  <2>2. c \in dirSet => fat'[c] \in {v, fat[c]}
    BY <1>1, <1>2 DEF SetFat, IInv, TypeOK
  <2>. QED
    BY <1>2, <2>1, <2>2 DEF SameLinks
<1>3. CASE UNCHANGED <<fat, dirSet>>
  BY <1>3 DEF SameLinks
<1>4. CASE Calls \/ Crash
  BY <1>3, <1>4, Zenon DEF Calls, WriteFile, WriteUsers, DeleteFile, Mkdir, Cd, CdUp, Call, Crash, disk
<1>5. CASE \/ FindHit \/ FindEnd \/ FindOn \/ FindNone \/ SlotHit \/ SlotOn \/ SlotNone
           \/ ExtendWalk \/ ExtendFails \/ FreeReadError \/ FreeDone
           \/ AllocFails \/ WriteBlock \/ SetEntry \/ MarkDeleted
  BY <1>3, <1>5 DEF FindHit, FindEnd, FindOn, FindNone, SlotHit, SlotOn, SlotNone, ExtendWalk,
       ExtendFails, FreeReadError, FreeDone, AllocFails, WriteBlock, SetEntry, MarkDeleted, disk
<1>6. EOF \notin dirSet
  BY <1>1, Numbers
<1>7. FreeClusters # {} /\ pc # "xeof" => LowestOf(FreeClusters) \notin dirSet
  BY <1>1, FreeIsFree, FreeFacts
<1>8. CASE ExtendLink
  <2>1. pc = "extend" /\ fat[op.at] = EOF /\ FreeClusters # {} /\ dirSet' = dirSet
        /\ \E r : SetFat(op.at, LowestOf(FreeClusters), r)
    BY <1>8 DEF ExtendLink
  <2>. QED
    BY <1>2, <1>6, <1>7, <2>1
<1>9. CASE ExtendSeal
  <2>1. pc = "xeof" /\ dirSet' = dirSet /\ \E r : SetFat(op.cl, EOF, r)
    BY <1>9 DEF ExtendSeal
  <2>2. op.cl \notin dirSet
    BY <1>1, <2>1 DEF InCall, Searches, Extends
  <2>. QED
    BY <1>2, <2>1, <2>2
<1>10. CASE AllocCluster
  <2>1. pc = "alloc" /\ FreeClusters # {} /\ dirSet' = dirSet
        /\ \E r : SetFat(LowestOf(FreeClusters), EOF, r)
    BY <1>10 DEF AllocCluster
  <2>. QED
    BY <1>2, <1>7, <2>1
<1>11. CASE LinkCluster
  <2>1. pc = "link" /\ dirSet' = dirSet /\ \E r : SetFat(op.prev, op.cl, r)
    BY <1>11 DEF LinkCluster
  <2>2. op.prev \notin dirSet
    BY <1>1, <2>1 DEF InCall, NewChain, Building, IInv, CallSound
  <2>. QED
    BY <1>2, <2>1, <2>2
<1>12. CASE Seal
  <2>1. pc = "alloc" /\ op.kind = "write" /\ dirSet' = dirSet
        /\ (fat' = fat \/ \E r : SetFat(op.prev, EOF, r))
    BY <1>12 DEF Seal
  <2>2. op.prev \notin dirSet
    BY <1>1, <2>1 DEF InCall, NewChain, Building
  <2>. QED
    BY <1>2, <1>3, <2>1, <2>2
<1>. QED
  BY <1>4, <1>5, <1>8, <1>9, <1>10, <1>11, <1>12 DEF Next, Steps

(* The block that a directory gets first, or last.                         *)
LEMMA NewBlock ==
  ASSUME IInv, NEW own \in Owners, Volume(own), ExtendZero \/ MkdirBlock
  PROVE  /\ op.cl \in Cluster /\ op.cl \notin dirSet /\ dirSet' = dirSet \cup {op.cl} /\ fat' = fat
         /\ fat[op.cl] = EOF
         /\ MkdirBlock => Unpointed(op.cl)
<1>1. CASE ExtendZero
  <2>1. pc = "xzero" /\ op.cl \in Cluster /\ dirSet' = dirSet \cup {op.cl} /\ fat' = fat
    BY <1>1 DEF ExtendZero, IInv, CallSound
  <2>2. op.cl \notin dirSet /\ fat[op.cl] = EOF
    BY <2>1 DEF Volume, InCall, Searches, Extends
  <2>3. ~MkdirBlock
    BY <2>1 DEF MkdirBlock
  <2>. QED
    BY <2>1, <2>2, <2>3
<1>2. CASE MkdirBlock
  BY <1>2 DEF MkdirBlock, IInv, CallSound, Volume, InCall, NewChain, Building
<1>. QED
  BY <1>1, <1>2

LEMMA FreedBlock ==
  ASSUME IInv, NEW own \in Owners, Volume(own), Undamaged', FreeOne
  PROVE  /\ op.cur \in Cluster /\ dirSet' = dirSet \ {op.cur} /\ fat'[op.cur] = Free
         /\ \A x \in Cluster : x # op.cur => fat'[x] = fat[x]
         /\ Unpointed(op.cur) /\ Unnamed(op.cur) /\ pc = "free" /\ pc' = "free"
<1>1. PICK r : /\ SetFat(op.cur, Free, r) /\ pc = "free" /\ pc' = "free" /\ op.cur \in Cluster
               /\ dirSet' = IF r = "lost" THEN dirSet ELSE dirSet \ {op.cur}
               /\ r = "lost" => "stalelink" \in damage'
  BY DEF FreeOne, Goto
<1>2. r # "lost"
  BY <1>1 DEF Undamaged
<1>3. Alone(op.cur)
  BY <1>1 DEF Volume, InCall, OldChain
<1>. QED
  BY <1>1, <1>2, <1>3, Rewritten DEF Alone

(* Directories get no links but to the block they grow by.                 *)
LEMMA NoNewLinks ==
  ASSUME IInv, NEW own \in Owners, Volume(own), Undamaged', Next, ~ExtendZero
  PROVE  \A b, c : Linked(b, c)' => Linked(b, c)
<1>1. CASE MkdirBlock
  <2>1. \A x \in dirSet' : fat'[x] \in dirSet' => x \in dirSet /\ fat'[x] = fat[x] /\ fat[x] \in dirSet
    BY <1>1, NewBlock, DiskTyped, Numbers DEF Unpointed
  <2>. QED
    BY <2>1, LinkedShrinks
<1>2. CASE FreeOne
  <2>1. \A x \in dirSet' : fat'[x] \in dirSet' => x \in dirSet /\ fat'[x] = fat[x] /\ fat[x] \in dirSet
    BY <1>2, FreedBlock, DiskTyped
  <2>. QED
    BY <2>1, LinkedShrinks
<1>3. CASE SameLinks
  BY <1>3, LinkedShrinks DEF SameLinks
<1>. QED
  BY <1>1, <1>2, <1>3, SameLinksSteps

(* No block is cut off from what comes before it, but behind one freed.    *)
LEMMA LinksKept ==
  ASSUME IInv, NEW own \in Owners, Volume(own), Undamaged', Next,
         NEW b \in Dirs, FreeOne => b # op.cur, NEW c, Linked(b, c)
  PROVE  Linked(b, c)'
<1>1. CASE ExtendZero \/ MkdirBlock
  BY <1>1, NewBlock, LinkedStays
<1>2. CASE FreeOne
  <2>1. ASSUME NEW S \in SUBSET Dirs, b \in S, Follows(S)' PROVE c \in S
    <3>. DEFINE T == S \ {op.cur}
    <3>1. T \in SUBSET Dirs /\ b \in T /\ Follows(T)
      BY <1>2, <2>1, FreedBlock, DiskTyped DEF Follows, Unpointed
    <3>. HIDE DEF T
    <3>2. c \in T
      BY <3>1, LinkedClosed
    <3>. QED
      BY <3>2 DEF T
  <2>. QED
    BY <2>1 DEF Linked
<1>3. CASE SameLinks
  BY <1>3, LinkedStays DEF SameLinks
<1>. QED
  BY <1>1, <1>2, <1>3, SameLinksSteps

(* What a directory that grew is linked to.                                *)
LEMMA GrownLinks ==
  ASSUME IInv, NEW own \in Owners, Volume(own), ExtendZero, NEW b \in Dirs, NEW c, Linked(b, c)'
  PROVE  \/ c = op.cl /\ (b = op.cl \/ Linked(b, op.at))
         \/ c # op.cl /\ Linked(b, c)
<1>1. /\ op.cl \in Cluster /\ op.cl \notin dirSet /\ dirSet' = dirSet \cup {op.cl} /\ fat' = fat
      /\ fat[op.cl] = EOF /\ fat[op.at] = op.cl /\ op.at \in DirBlocks /\ op.at # Root
  BY NewBlock DEF ExtendZero, Volume, InCall, Searches, Searching, Extends
<1>2. op.at \in dirSet /\ \A x \in Cluster : fat[x] = op.cl => x = op.at
  BY <1>1, DiskTyped DEF DirBlocks, Volume, OnDisk, Chained
<1>3. PICK T \in SUBSET Dirs :
        T = {x \in Dirs : IF x = op.cl THEN b = op.cl \/ Linked(b, op.at) ELSE Linked(b, x)}
  OBVIOUS
<1>4. b \in T
  BY <1>3, LinkedOn
<1>5. ASSUME NEW x \in T \cap dirSet', fat'[x] \in dirSet' PROVE fat'[x] \in T
  <2>1. x # op.cl
    BY <1>1, <1>5, DiskTyped, Numbers
  <2>2. x \in dirSet /\ Linked(b, x) /\ fat'[x] = fat[x]
    BY <1>3, <1>1, <1>5, <2>1
  <2>3. fat[x] \in Dirs
    BY <1>1, <1>5, <2>2, DiskTyped, Numbers
  <2>4. CASE fat[x] = op.cl
    BY <1>3, <1>2, <2>2, <2>3, <2>4, DiskTyped
  <2>5. CASE fat[x] # op.cl
    <3>1. fat[x] \in dirSet
      BY <1>1, <1>5, <2>2, <2>5
    <3>2. Linked(b, fat[x])
      BY <2>2, <3>1, LinkedOn
    <3>. QED
      BY <1>3, <2>2, <2>3, <2>5, <3>2
  <2>. QED
    BY <2>4, <2>5
<1>6. Follows(T)'
  BY <1>5 DEF Follows
<1>7. c \in T
  BY <1>4, <1>6 DEF Linked
<1>. QED
  BY <1>3, <1>7

(* Of the directories entered a step leaves what was there, but for cd.    *)
LEMMA TrailSteps ==
  ASSUME IInv, NEW own \in Owners, Volume(own), Next, NEW i \in 1 .. Len(trail')
  PROVE  \/ i \in 1 .. Len(trail) /\ trail'[i] = trail[i] /\ Above(i)' = Above(i)
         \/ /\ FindHit /\ op.kind = "cd" /\ Found.dir /\ Return
            /\ trail'[i] = Found.first /\ Above(i)' = cwd
<1>1. /\ trail \in Seq(Dirs) /\ Len(trail) \in Nat /\ cwd = Above(Len(trail) + 1)
  BY DiskTyped DEF Volume, OnDisk, Entered
<1>2. CASE trail' = trail
  BY <1>2 DEF Above
<1>3. CASE Crash
  BY <1>3 DEF Crash
<1>4. CASE CdUp /\ trail' # trail
  <2>1. trail' = SubSeq(trail, 1, Len(trail) - 1) /\ cwd # Root
    BY <1>4 DEF CdUp
  <2>. PICK n : n = Len(trail)
    OBVIOUS
  <2>2. n \in Nat /\ n >= 1
    BY <1>1, <2>1, CurrentSound DEF Volume
  <2>3. 1 \in 1 .. n + 1 /\ n - 1 \in 0 .. n /\ \A k \in 1 .. n - 1 : trail[k] \in Dirs
    BY <1>1, <2>2
  <2>4. /\ Len(SubSeq(trail, 1, n - 1)) = IF 1 <= n - 1 THEN (n - 1) - 1 + 1 ELSE 0
        /\ \A k \in 1 .. (n - 1) - 1 + 1 : SubSeq(trail, 1, n - 1)[k] = trail[1 + k - 1]
    BY <2>3, SubSeqProperties
  <2>5. Len(trail') = n - 1 /\ \A k \in 1 .. n - 1 : trail'[k] = trail[k]
    <3>1. \A k \in 1 .. n - 1 : 1 + k - 1 = k
      BY <2>2
    <3>. QED
      BY <2>1, <2>2, <2>4, <3>1
  <2>6. i \in 1 .. n - 1 /\ (i # 1 => i - 1 \in 1 .. n - 1)
    BY <2>2, <2>5
  <2>. QED
    BY <2>2, <2>5, <2>6 DEF Above
<1>5. CASE FindHit /\ trail' # trail
  <2>1. /\ op.kind = "cd" /\ Found.dir /\ Return /\ trail' = Append(trail, Found.first)
    BY <1>5 DEF FindHit, session
  <2>. PICK n : n = Len(trail)
    OBVIOUS
  <2>2. n \in Nat /\ Len(trail') = n + 1 /\ trail'[n + 1] = Found.first
        /\ \A k \in 1 .. n : trail'[k] = trail[k]
    BY <1>1, <1>5, <2>1, AppendProperties, StopIsSlot, DiskTyped, FieldsTyped DEF FindHit, Found
  <2>3. Above(i)' = Above(i)
    BY <2>2 DEF Above
  <2>. QED
    BY <1>1, <1>5, <2>1, <2>2, <2>3
<1>6. CASE Calls /\ ~CdUp
  BY <1>2, <1>6, Zenon DEF Calls, WriteFile, WriteUsers, DeleteFile, Mkdir, Cd, Call
<1>7. CASE Steps /\ ~FindHit
  BY <1>2, <1>7 DEF Steps, FindEnd, FindOn, FindNone, SlotHit, SlotOn, SlotNone, ExtendWalk,
       ExtendLink, ExtendFails, ExtendSeal, ExtendZero, FreeOne, FreeReadError, FreeDone, AllocCluster,
       AllocFails, LinkCluster, WriteBlock, Seal, MkdirBlock, SetEntry, MarkDeleted, session
<1>. QED
  BY <1>2, <1>3, <1>4, <1>5, <1>6, <1>7 DEF Next, Calls

(* The entry of a directory on the way to the current one stays.           *)
LEMMA EnteredKept ==
  ASSUME IInv, NEW own \in Owners, Volume(own), NEW next \in Owners, Volume(next)', Undamaged', Next,
         NEW i \in 1 .. Len(trail), i \in 1 .. Len(trail'), trail'[i] = trail[i],
         NEW b \in DirBlocks, NEW j \in SlotsOf(b), Heads(trail[i], b, j)
  PROVE  b \in DirBlocks' /\ Heads(trail[i], b, j)'
<1>1. OnDisk(own) /\ InCall(own) /\ trail[i] \in Cluster /\ DirBlocks \subseteq Dirs
  BY DiskTyped, Numbers DEF Volume, OnDisk, Entered, DirBlocks
<1>2. NamedAbove(i, next)'
  BY DEF Volume, OnDisk, Entered
<1>3. PICK c \in Dirs : \E k \in SlotsOf(c) : Heads(trail[i], c, k)'
  BY <1>2 DEF NamedAbove
<1>4. PICK k \in SlotsOf(c) : Heads(trail[i], c, k)'
  BY <1>3
<1>5. c \in DirBlocks' /\ dirs'[c][k].name \in Names /\ dirs'[c][k].first = trail[i] /\ dirs'[c][k].first # 0
  BY <1>4 DEF Heads, Live, Used
<1>6. CASE c \in DirBlocks /\ dirs'[c][k] = dirs[c][k]
  <2>1. Used(c, k)
    BY <1>5, <1>6 DEF Used
  <2>2. ~Vacated(c, k)
    <3>. SUFFICES ASSUME Vacated(c, k) PROVE FALSE
      OBVIOUS
    <3>1. op.found = "hit" /\ c = op.blk /\ k = op.idx /\ op.kind = "write"
      BY DEF Vacated
    <3>2. pc # "idle" /\ trail[i] # op.old /\ pc \notin Searching
      BY <1>1, <3>1 DEF InCall, OldChain, Searches
    <3>3. pc \in Building \cup {"mark", "free"}
      BY <3>2 DEF IInv, TypeOK, BusySteps, Searching, Extends, Building
    <3>4. dirs[c][k].first = op.old
      BY <1>1, <3>1, <3>3 DEF InCall, Place
    <3>. QED
      BY <1>5, <1>6, <3>2, <3>4
  <2>3. Live(c, k) /\ Live(b, j) /\ dirs[c][k].first = dirs[b][j].first
    BY <1>5, <1>6, <2>1, <2>2 DEF Live, Heads
  <2>4. c = b /\ k = j
    BY <1>1, <2>3 DEF OnDisk, Named
  <2>. QED
    BY <1>4, <1>5, <2>4
<1>7. CASE SetEntry /\ dirs'[c][k] = NewEntry
  <2>1. op.first = trail[i] /\ pc = "entry"
    BY <1>5, <1>7 DEF NewEntry, SetEntry
  <2>2. Unnamed(trail[i])
    BY <1>1, <2>1 DEF InCall, NewChain, Alone, Building
  <2>. QED
    BY <1>1, <2>2 DEF Unnamed
<1>. QED
  BY <1>4, <1>5, <1>6, <1>7, NameCameFrom

(* A call's directory is not among the clusters that it frees.             *)
LEMMA HomeNotFreed ==
  ASSUME IInv, NEW own \in Owners, Volume(own), Undamaged', FreeOne
  PROVE  /\ op.dir # op.cur
         /\ \A i \in 1 .. Len(trail) : Above(i) # op.cur
<1>1. /\ OnDisk(own) /\ InCall(own) /\ op.cur \in Cluster /\ Unnamed(op.cur) /\ pc = "free"
      /\ Len(trail) \in Nat /\ op.cur # Root
  BY FreedBlock, DiskTyped, Numbers DEF Volume
<1>2. \A i \in 1 .. Len(trail) : trail[i] # op.cur
  BY <1>1 DEF OnDisk, Entered, NamedAbove, Unnamed
<1>3. \A i \in 1 .. Len(trail) + 1 : Above(i) # op.cur
  BY <1>1, <1>2 DEF Above
<1>4. op.dir = Root \/ op.dir = Above(Len(trail) + 1)
  BY <1>1 DEF InCall, Asked, OnDisk, Entered
<1>. QED
  BY <1>1, <1>3, <1>4

LEMMA LedStep ==
  ASSUME IInv, NEW own \in Owners, Volume(own), NEW next \in Owners, Volume(next)', Undamaged', Next,
         Placed, Led
  PROVE  Led'
<1>1. ASSUME NEW i \in 1 .. Len(trail')
      PROVE  \E b \in DirBlocks' : \E j \in SlotsOf(b) :
               Linked(Above(i), b)' /\ Heads(trail[i], b, j)'
  <2>1. CASE i \in 1 .. Len(trail) /\ trail'[i] = trail[i] /\ Above(i)' = Above(i)
    <3>1. PICK b \in DirBlocks : \E j \in SlotsOf(b) : Linked(Above(i), b) /\ Heads(trail[i], b, j)
      BY <2>1 DEF Led
    <3>2. PICK j \in SlotsOf(b) : Linked(Above(i), b) /\ Heads(trail[i], b, j)
      BY <3>1
    <3>3. b \in DirBlocks' /\ Heads(trail[i], b, j)'
      BY <2>1, <3>2, EnteredKept
    <3>4. PICK a : a = Above(i)
      OBVIOUS
    <3>5. a \in Dirs
      BY <2>1, <3>4, DiskTyped, Numbers DEF Above
    <3>6. Linked(a, b)'
      BY <2>1, <3>2, <3>4, <3>5, LinksKept, HomeNotFreed
    <3>. QED
      BY <2>1, <3>2, <3>3, <3>4, <3>6
  <2>2. CASE /\ FindHit /\ op.kind = "cd" /\ Found.dir /\ Return
             /\ trail'[i] = Found.first /\ Above(i)' = cwd
    <3>1. /\ pc = "find" /\ Stops # {} /\ Found.name = op.name /\ UNCHANGED <<fat, dirs, dirSet>>
          /\ OnDisk(own) /\ InCall(own)
      BY <2>2 DEF FindHit, disk, Volume
    <3>2. op.name \in Names /\ op.dir = cwd /\ Linked(cwd, op.at) /\ op.at \in DirBlocks
      BY <2>2, <3>1 DEF InCall, Asked, Searches, Placed, Searching
    <3>3. PICK k, p, d : k = FirstStop /\ p = op.at /\ d = cwd
      OBVIOUS
    <3>4. k \in SlotsOf(p) /\ dirs[p][k] = Found /\ p \in DirBlocks /\ d \in Dirs
      BY <3>1, <3>2, <3>3, StopIsSlot, DiskTyped DEF Found
    <3>5. Used(p, k)
      BY <2>2, <3>1, <3>2, <3>4 DEF Used, OnDisk, Headed
    <3>6. Heads(trail[i], p, k)'
      BY <2>2, <3>1, <3>4, <3>5, ReturnInCall DEF Heads, Live, Used, Vacated, DirBlocks, Replacing
    <3>7. Linked(d, p)'
      BY <2>2, <3>2, <3>3, <3>4, LinksKept DEF FreeOne, FindHit
    <3>8. p \in DirBlocks'
      BY <3>1, <3>4 DEF DirBlocks
    <3>. QED
      BY <2>2, <3>3, <3>4, <3>6, <3>7, <3>8
  <2>. QED
    BY <2>1, <2>2, TrailSteps
<1>. QED
  BY <1>1 DEF Led

(* Where a step leads a call: on in its directory, or to its slot.         *)
LEMMA PlacedAt ==
  ASSUME NEW d, NEW p, op'.dir = d, op'.at = p, Linked(d, p)', pc' \in Searching
  PROVE  Placed'
BY DEF Placed, Searching, Extends, Building

LEMMA PlacedSlot ==
  ASSUME NEW d, NEW p, op'.dir = d, op'.blk = p, Linked(d, p)', pc' \notin Searching
  PROVE  Placed'
BY DEF Placed, Searching, Extends, Building

LEMMA PlacedStep ==
  ASSUME IInv, NEW own \in Owners, Volume(own), Undamaged', Next, Placed
  PROVE  Placed'
<1>1. /\ OnDisk(own) /\ InCall(own) /\ op \in Locals /\ op.dir \in Dirs /\ op.at \in Dirs
  BY ReadsTyped, FieldsTyped DEF Volume, IInv
<1>2. PICK d, p, q : d = op.dir /\ p = op.at /\ q = op.blk /\ d \in Dirs /\ p \in Dirs
  BY <1>1
<1>3. \A c \in Dirs : Linked(c, c)'
  BY DEF Linked
<1>4. /\ pc \in Searching => Linked(d, p) /\ p \in DirBlocks /\ ~FreeOne /\ op.found # "hit" /\ Fresh
      /\ op.kind \in {"write", "mkdir"} /\ (pc \in Building \/ (pc = "free" /\ ~op.failed)) => Linked(d, q)
  BY <1>1, <1>2 DEF Placed, FreeOne, InCall, Searches, Searching, Extends
<1>5. FreeOne => d # op.cur
  BY <1>2, HomeNotFreed
<1>6. \A c : Linked(d, c) => Linked(d, c)'
  BY <1>2, <1>5, LinksKept
<1>7. pc' = "idle" => Placed'
  BY DEF Placed, Searching, Extends, Building
<1>8. ASSUME NEW causes, Abandon(causes) PROVE Placed'
  BY <1>7, <1>8 DEF Abandon, Return, Goto
<1>9. CASE Calls
  <2>1. ASSUME NEW o, Call(o), o.dir \in Dirs, o \in Locals PROVE Placed'
    <3>1. pc' = "find" /\ op'.dir = o.dir /\ op'.at = o.dir
      BY <2>1 DEF Call, Goto, Locals
    <3>2. Linked(o.dir, o.dir)'
      BY <1>3, <2>1
    <3>. QED
      BY <3>1, <3>2, PlacedAt DEF Searching
  <2>2. NoOp \in Locals /\ NoOp.dir \in Dirs /\ cwd \in Dirs
    BY NoOpTyped, DiskTyped DEF Locals
  <2>3. ASSUME NEW name \in Names, NEW val \in Data, NEW len \in 0 .. MaxLen,
               WriteFile(name, val, len)
        PROVE  Placed'
    <3>. DEFINE o == [NoOp EXCEPT !.kind = "write", !.dir = cwd, !.name = name, !.val = val, !.len = len]
    <3>1. o \in Locals /\ o.dir \in Dirs
      BY <2>2 DEF Locals, Kinds
    <3>2. Call(o)
      BY <2>3 DEF WriteFile
    <3>. HIDE DEF o
    <3>. QED
      BY <2>1, <3>1, <3>2
  <2>4. ASSUME NEW val \in Data, NEW len \in 1 .. MaxLen, WriteUsers(val, len)
        PROVE  Placed'
    <3>. DEFINE o == [NoOp EXCEPT !.kind = "write", !.name = UsersDat, !.val = val, !.len = len]
    <3>1. len \in 0 .. MaxLen /\ UsersDat \in Names
      BY NamesAssumption
    <3>2. o \in Locals /\ o.dir \in Dirs
      BY <2>2, <3>1 DEF Locals, Kinds
    <3>3. Call(o)
      BY <2>4 DEF WriteUsers
    <3>. HIDE DEF o
    <3>. QED
      BY <2>1, <3>2, <3>3
  <2>5. ASSUME NEW name \in Names, NEW k \in Kinds,
               Call([NoOp EXCEPT !.kind = k, !.dir = cwd, !.name = name])
        PROVE  Placed'
    <3>. DEFINE o == [NoOp EXCEPT !.kind = k, !.dir = cwd, !.name = name]
    <3>1. o \in Locals /\ o.dir \in Dirs
      BY <2>2 DEF Locals
    <3>2. Call(o)
      BY <2>5
    <3>. HIDE DEF o
    <3>. QED
      BY <2>1, <3>1, <3>2
  <2>6. CASE CdUp
    BY <1>7, <2>6 DEF CdUp
  <2>. QED
    BY <1>9, <2>3, <2>4, <2>5, <2>6, Zenon DEF Calls, DeleteFile, Mkdir, Cd, Kinds
<1>10. CASE Crash
  BY <1>7, <1>10 DEF Crash, Return, Goto
<1>11. CASE FindHit
  <2>1. CASE op.kind \in {"write", "delete"}
    <3>. DEFINE hit == [op EXCEPT !.found = "hit", !.blk = op.at, !.idx = FirstStop,
                                  !.old = Found.first, !.cur = Found.first]
    <3>1. pc = "find" /\ pc' \in {"free", "mark"} /\ op' = hit
      BY <1>11, <2>1 DEF FindHit, Goto
    <3>2. hit.dir = op.dir /\ hit.blk = op.at
      BY <1>1 DEF Locals
    <3>. HIDE DEF hit
    <3>. QED
      BY <1>2, <1>4, <1>6, <3>1, <3>2, PlacedSlot DEF Searching, Extends
  <2>2. CASE op.kind \notin {"write", "delete"}
    BY <1>7, <1>11, <2>2 DEF FindHit, Return, Goto
  <2>. QED
    BY <2>1, <2>2
<1>12. CASE FindEnd \/ SlotHit
  <2>1. CASE pc' = "alloc"
    <3>1. op'.dir = d /\ op'.blk = p /\ pc \in Searching
      BY <1>1, <1>2, <1>12, <2>1 DEF FindEnd, SlotHit, Return, Goto, Locals, Searching
    <3>. QED
      BY <1>4, <1>6, <2>1, <3>1, PlacedSlot DEF Searching, Extends
  <2>2. CASE pc' = "idle"
    BY <1>7, <2>2
  <2>. QED
    BY <1>12, <2>1, <2>2 DEF FindEnd, SlotHit, Return, Goto
<1>13. ASSUME pc \in Searching \ Extends, pc' \in Searching, op'.dir = d, op'.at = fat[p], p \in Cluster, fat[p] \in Cluster
       PROVE  Placed'
  <2>1. p \in dirSet /\ fat[p] \in dirSet
    BY <1>1, <1>4, <1>13, Numbers, NextBlock, DiskTyped DEF DirBlocks
  <2>2. Linked(d, fat[p])
    BY <1>4, <1>13, <2>1, LinkedOn
  <2>3. PICK c : c = fat[p]
    OBVIOUS
  <2>. QED
    BY <1>6, <1>13, <2>2, <2>3, PlacedAt
<1>14. CASE FindOn \/ SlotOn \/ ExtendWalk
  <2>1. /\ pc \in Searching \ Extends /\ pc' = pc /\ fat[p] \in Cluster
        /\ op' = [op EXCEPT !.at = fat[op.at]]
    BY <1>2, <1>14 DEF FindOn, SlotOn, ExtendWalk, Goto, ChainGoesOn, Searching, Extends
  <2>2. op'.dir = d /\ op'.at = fat[p]
    BY <1>1, <1>2, <2>1 DEF Locals
  <2>3. p \in Cluster
    BY <1>2, <1>14, Numbers DEF FindOn, SlotOn, ExtendWalk, ChainGoesOn, IInv, CallSound
  <2>. QED
    BY <1>13, <2>1, <2>2, <2>3
<1>15. ASSUME op'.dir = d, op'.at = d, pc' \in Searching
       PROVE  Placed'
  BY <1>2, <1>3, <1>15, PlacedAt
<1>16. CASE FindNone \/ SlotNone \/ ExtendZero
  <2>1. CASE \E causes : Abandon(causes)
    BY <1>8, <2>1
  <2>2. CASE Return
    BY <1>7, <2>2 DEF Return, Goto
  <2>3. CASE ~Return /\ ~\E causes : Abandon(causes)
    <3>1. op'.dir = d /\ op'.at = d /\ pc' \in Searching
      BY <1>1, <1>2, <1>16, <2>3 DEF FindNone, SlotNone, ExtendZero, Goto, Locals, Searching
    <3>. QED
      BY <1>15, <3>1
  <2>. QED
    BY <2>1, <2>2, <2>3
<1>17. CASE ExtendLink \/ ExtendFails \/ ExtendSeal
  <2>1. CASE \E causes : Abandon(causes)
    BY <1>8, <2>1
  <2>2. CASE ~\E causes : Abandon(causes)
    <3>1. pc \in Searching /\ pc' \in Extends /\ \E nc : op' = [op EXCEPT !.cl = nc] \/ op' = op
      BY <1>17, <2>2 DEF ExtendLink, ExtendFails, ExtendSeal, Outcome, Goto, Searching, Extends
    <3>2. op'.dir = d /\ op'.at = p
      BY <1>1, <1>2, <3>1 DEF Locals
    <3>. QED
      BY <1>4, <1>6, <3>1, <3>2, PlacedAt DEF Searching
  <2>. QED
    BY <2>1, <2>2
<1>18. ASSUME op'.dir = op.dir, op'.blk = op.blk, op'.kind = op.kind, pc' \notin Searching,
              op.kind \in {"write", "mkdir"} /\ (pc' \in Building \/ (pc' = "free" /\ ~op'.failed)) =>
                pc \in Building \/ (pc = "free" /\ ~op.failed)
       PROVE  Placed'
  <2>1. CASE op.kind \in {"write", "mkdir"} /\ (pc' \in Building \/ (pc' = "free" /\ ~op'.failed))
    BY <1>2, <1>4, <1>6, <1>18, <2>1, PlacedSlot
  <2>2. CASE ~(op.kind \in {"write", "mkdir"} /\ (pc' \in Building \/ (pc' = "free" /\ ~op'.failed)))
    BY <1>18, <2>2 DEF Placed
  <2>. QED
    BY <2>1, <2>2
<1>19. CASE FreeOne \/ FreeReadError
  <2>1. pc = "free" /\ pc' = "free" /\ \E c : op' = [op EXCEPT !.cur = c]
    BY <1>19 DEF FreeOne, FreeReadError, Goto
  <2>2. op'.dir = op.dir /\ op'.blk = op.blk /\ op'.kind = op.kind /\ op'.failed = op.failed
    BY <1>1, <2>1 DEF Locals
  <2>. QED
    BY <1>18, <2>1, <2>2 DEF Searching, Extends
<1>20. CASE FreeDone
  <2>1. CASE \E causes : Abandon(causes)
    BY <1>8, <2>1
  <2>2. CASE Return
    BY <1>7, <2>2 DEF Return, Goto
  <2>3. CASE ~Return /\ ~\E causes : Abandon(causes)
    <3>1. pc = "free" /\ pc' = "alloc" /\ op' = op
      BY <1>20, <2>3 DEF FreeDone, Goto
    <3>2. ~op.failed
      BY <1>1, <1>20, <2>3, <3>1 DEF FreeDone, InCall, OldChain
    <3>. QED
      BY <1>18, <3>1, <3>2 DEF Searching, Extends
  <2>. QED
    BY <2>1, <2>2, <2>3
<1>21. ASSUME GiveUp PROVE Placed'
  BY <1>1, <1>21 DEF GiveUp, Goto, Locals, Placed, Searching, Extends, Building
<1>22. CASE AllocCluster
  <2>. DEFINE cl == LowestOf(FreeClusters)
              o == [op EXCEPT !.cl = cl, !.first = IF op.n = 0 THEN cl ELSE op.first]
  <2>1. pc = "alloc" /\ op' = o /\ pc' \in {"mkblock", "link", "data"}
    BY <1>22 DEF AllocCluster, Goto
  <2>2. o.dir = op.dir /\ o.blk = op.blk /\ o.kind = op.kind
    BY <1>1 DEF Locals
  <2>. HIDE DEF o
  <2>. QED
    BY <1>18, <2>1, <2>2 DEF Searching, Extends, Building
<1>23. CASE AllocFails
  BY <1>7, <1>21, <1>23 DEF AllocFails, Return, Goto
<1>24. CASE LinkCluster \/ Seal \/ MkdirBlock
  BY <1>18, <1>24 DEF LinkCluster, Seal, MkdirBlock, Goto, Searching, Extends, Building
<1>25. CASE WriteBlock
  <2>1. CASE GiveUp
    BY <1>21, <2>1
  <2>2. CASE ~GiveUp
    <3>1. pc = "data" /\ pc' = "alloc" /\ op' = [op EXCEPT !.prev = op.cl, !.cl = 0, !.n = op.n + 1]
      BY <1>25, <2>2 DEF WriteBlock, Goto
    <3>2. op'.dir = op.dir /\ op'.blk = op.blk /\ op'.kind = op.kind
      BY <1>1, <3>1 DEF Locals
    <3>. QED
      BY <1>18, <3>1, <3>2 DEF Searching, Extends, Building
  <2>. QED
    BY <2>1, <2>2
<1>26. CASE SetEntry
  BY <1>7, <1>8, <1>26 DEF SetEntry, Return, Goto
<1>27. CASE MarkDeleted
  <2>1. op.kind = "delete"
    BY <1>1, <1>27 DEF MarkDeleted, InCall, OldChain
  <2>. QED
    BY <1>7, <1>18, <1>27, <2>1 DEF MarkDeleted, Return, Goto, Searching, Extends
<1>. QED
  BY <1>9, <1>10, <1>11, <1>12, <1>14, <1>16, <1>17, <1>19, <1>20, <1>22, <1>23, <1>24, <1>25, <1>26,
     <1>27 DEF Next, Steps

LEMMA InitWalk == Init => WalkSound
<1>. SUFFICES ASSUME Init PROVE Placed /\ Led
  BY DEF WalkSound
<1>1. Placed
  BY DEF Init, Placed, Searching, Extends, Building
<1>2. Led
  BY DEF Init, Led
<1>. QED
  BY <1>1, <1>2

LEMMA WalkStep == IInv /\ VolumeSound /\ VolumeSound' /\ WalkSound /\ [Next]_vars => WalkSound'
<1>. SUFFICES ASSUME IInv, VolumeSound, VolumeSound', WalkSound, [Next]_vars, Undamaged'
              PROVE  Placed' /\ Led'
  BY DEF WalkSound
<1>1. CASE UNCHANGED vars
  <2>1. UNCHANGED <<fat, dirs, pc, op, trail, dirSet, damage>>
    BY <1>1 DEF vars
  <2>2. \A b, c : Linked(b, c)' <=> Linked(b, c)
    BY <2>1 DEF Linked, Follows
  <2>3. \A c, b, i : Heads(c, b, i)' <=> Heads(c, b, i)
    BY <2>1 DEF Heads, Live, Used, Vacated, DirBlocks
  <2>4. \A i : Above(i)' = Above(i)
    BY <2>1 DEF Above
  <2>5. Placed /\ Led
    BY <2>1 DEF WalkSound, Undamaged
  <2>. QED
    BY <2>1, <2>2, <2>3, <2>4, <2>5 DEF Placed, Led, DirBlocks
<1>2. CASE Next
  <2>1. Undamaged
    BY <1>2, DamageStays
  <2>2. PICK own \in Owners : Volume(own)
    BY <2>1 DEF VolumeSound
  <2>3. PICK next \in Owners : Volume(next)'
    BY DEF VolumeSound
  <2>4. Placed /\ Led
    BY <2>1 DEF WalkSound
  <2>. QED
    BY <1>2, <2>2, <2>3, <2>4, PlacedStep, LedStep
<1>. QED
  BY <1>1, <1>2

THEOREM WalkStaysSound == Spec => []WalkSound
BY InitWalk, WalkStep, Invariance, VolumeStaysSound, PTL DEF Spec

(* What is linked from something reached is reached.                       *)
LEMMA GrownFollows ==
  ASSUME IInv, NEW S \in SUBSET Dirs, Grown(S)
  PROVE  Follows(S)
BY DiskTyped DEF Grown, Follows

(* What is true of the root and of each directory entered in one that has  *)
(* it is true of them all.                                                 *)
LEMMA AlongTrail ==
  ASSUME IInv, NEW own \in Owners, OnDisk(own), NEW S, Root \in S,
         \A i \in 1 .. Len(trail) : Above(i) \in S => trail[i] \in S
  PROVE  (\A i \in 1 .. Len(trail) : trail[i] \in S) /\ cwd \in S
<1>1. Len(trail) \in Nat /\ cwd = Above(Len(trail) + 1)
  BY DiskTyped DEF OnDisk, Entered
<1>. DEFINE Lost == {i \in 1 .. Len(trail) : trail[i] \notin S}
<1>2. Lost = {}
  <2>. SUFFICES ASSUME Lost # {} PROVE FALSE
    OBVIOUS
  <2>1. Lost \in SUBSET Nat /\ IsFiniteSet(Lost)
    <3>1. IsFiniteSet(1 .. Len(trail))
      BY <1>1, FS_Interval
    <3>. QED
      BY <1>1, <3>1, FS_Subset
  <2>2. PICK i \in Lost : \A j \in Lost : i <= j
    <3>. HIDE DEF Lost
    <3>. QED
      BY <2>1, LowestExists
  <2>3. i \in 1 .. Len(trail) /\ Above(i) \notin S
    BY <2>2
  <2>4. i # 1 /\ i - 1 \in 1 .. Len(trail) /\ trail[i - 1] \notin S
    BY <1>1, <2>3 DEF Above
  <2>. QED
    BY <1>1, <2>2, <2>4
<1>. QED
  BY <1>1, <1>2 DEF Above

LEMMA TrailReached ==
  ASSUME IInv, NEW own \in Owners, OnDisk(own), Led, NEW S \in SUBSET Dirs, Root \in S, Grown(S)
  PROVE  (\A i \in 1 .. Len(trail) : trail[i] \in S) /\ cwd \in S
<1>1. ASSUME NEW i \in 1 .. Len(trail), Above(i) \in S PROVE trail[i] \in S
  <2>1. PICK b \in DirBlocks : \E j \in SlotsOf(b) : Linked(Above(i), b) /\ Heads(trail[i], b, j)
    BY DEF Led
  <2>2. PICK j \in SlotsOf(b) : Linked(Above(i), b) /\ Heads(trail[i], b, j)
    BY <2>1
  <2>3. b \in S
    BY <1>1, <2>2, GrownFollows, LinkedClosed
  <2>. QED
    BY <2>2, <2>3 DEF Grown, Heads
<1>. QED
  BY <1>1, AlongTrail

(* TrailSound: on a volume no call has damaged, at every step, the ".."    *)
(* slots lead from the current directory back through those that cd        *)
(* entered, and each of them can still be reached from the root.           *)
THEOREM TrailStaysSound == Spec => []TrailSound
<1>1. IInv /\ VolumeSound /\ WalkSound => TrailSound
  <2>. SUFFICES ASSUME IInv, VolumeSound, WalkSound, Undamaged
                PROVE  /\ cwd = Above(Len(trail) + 1)
                       /\ \A i \in 1 .. Len(trail) : /\ dirs[trail[i]][2].first = Above(i)
                                                     /\ Reached({Root}, trail[i])
    BY DEF TrailSound
  <2>1. PICK own \in Owners : OnDisk(own)
    BY DEF VolumeSound, Volume
  <2>2. Led
    BY DEF WalkSound
  <2>3. ASSUME NEW i \in 1 .. Len(trail) PROVE dirs[trail[i]][2].first = Above(i)
    <3>1. trail[i] \in dirSet /\ NamedAbove(i, own)
      BY <2>1 DEF OnDisk, Entered
    <3>2. PICK b \in Dirs : \E j \in SlotsOf(b) : Heads(trail[i], b, j) /\ own[b] = Above(i)
      BY <3>1 DEF NamedAbove
    <3>3. PICK j \in SlotsOf(b) : Heads(trail[i], b, j)
      BY <3>2
    <3>4. NamesChain(dirs[b][j], b, own) /\ dirs[b][j].first = trail[i]
      BY <2>1, <3>3 DEF OnDisk, Named, Heads
    <3>. QED
      BY <3>1, <3>2, <3>4 DEF NamesChain
  <2>4. ASSUME NEW i \in 1 .. Len(trail) PROVE Reached({Root}, trail[i])
    BY <2>1, <2>2, TrailReached DEF Reached
  <2>. QED
    BY <2>1, <2>3, <2>4 DEF OnDisk, Entered
<1>. QED
  BY <1>1, Invariance, VolumeStaysSound, WalkStaysSound, PTL

-----------------------------------------------------------------------------
(* The directory of a call heads its chain: nothing comes before it.       *)
LEMMA HomeHead ==
  ASSUME IInv, NEW own \in Owners, OnDisk(own)
  PROVE  cwd = Root \/ Unpointed(cwd)
<1>. SUFFICES ASSUME cwd # Root PROVE Unpointed(cwd)
  OBVIOUS
<1>1. Len(trail) >= 1 /\ cwd = trail[Len(trail)] /\ Len(trail) \in Nat
  BY CurrentSound, DiskTyped
<1>2. NamedAbove(Len(trail), own)
  BY <1>1 DEF OnDisk, Entered
<1>3. PICK b \in Dirs : \E j \in SlotsOf(b) : Heads(cwd, b, j)
  BY <1>1, <1>2 DEF NamedAbove
<1>. QED
  BY <1>3, HeadFacts DEF Heads

LEMMA CallHome ==
  ASSUME IInv, NEW own \in Owners, Volume(own), pc # "idle"
  PROVE  op.dir \in DirBlocks /\ (op.dir = Root \/ Unpointed(op.dir)) /\ op.name \in Names
BY HomeSound, HomeHead DEF Volume, InCall, Asked

LEMMA NothingBefore ==
  ASSUME IInv, NEW d \in Dirs, d = Root \/ Unpointed(d), NEW b \in Dirs
  PROVE  ~Before(b, d)
<1>. SUFFICES ASSUME Before(b, d) PROVE FALSE
  OBVIOUS
<1>1. \E x \in dirSet : fat[x] = d /\ d \in dirSet
  BY LastLink DEF Before
<1>. QED
  BY <1>1, DiskTyped, Numbers DEF Unpointed

(* What comes before the next block is this one, or comes before it.       *)
LEMMA BeforeNext ==
  ASSUME IInv, NEW own \in Owners, OnDisk(own), NEW c \in dirSet, fat[c] \in dirSet,
         NEW b \in Dirs, Before(b, fat[c])
  PROVE  b = c \/ Before(b, c)
<1>1. PICK x \in dirSet : Linked(b, x) /\ fat[x] = fat[c]
  BY LastLink DEF Before
<1>2. x = c
  BY <1>1, DiskTyped DEF OnDisk, Chained
<1>. QED
  BY <1>1, <1>2 DEF Before

(* End marks after a step are from before, or in a new block; and only the *)
(* new entry takes the place of one.                                       *)
LEMMA EndCameFrom ==
  ASSUME IInv, NEW own \in Owners, Volume(own), Undamaged', Next,
         NEW b \in DirBlocks', NEW i \in SlotsOf(b), dirs'[b][i].name = "end"
  PROVE  \/ b \in DirBlocks /\ dirs[b][i].name = "end"
         \/ (ExtendZero \/ MkdirBlock) /\ b = op.cl
<1>1. /\ InCall(own) /\ op \in Locals /\ DOMAIN dirs = Dirs
      /\ \A d \in Dirs : dirs[d] \in [SlotsOf(d) -> Slot]
  BY ReadsTyped DEF Volume, IInv, TypeOK
<1>2. CASE dirs' = dirs /\ dirSet' \subseteq dirSet
  BY <1>2 DEF DirBlocks
<1>3. CASE Calls \/ Crash
  BY <1>2, <1>3, Zenon DEF Calls, WriteFile, WriteUsers, DeleteFile, Mkdir, Cd, CdUp, Call, Crash, disk
<1>4. CASE \/ FindHit \/ FindEnd \/ FindOn \/ FindNone \/ SlotHit \/ SlotOn \/ SlotNone
           \/ ExtendWalk \/ ExtendLink \/ ExtendFails \/ ExtendSeal
           \/ FreeOne \/ FreeReadError \/ FreeDone
           \/ AllocCluster \/ AllocFails \/ LinkCluster \/ WriteBlock \/ Seal
  BY <1>2, <1>4 DEF FindHit, FindEnd, FindOn, FindNone, SlotHit, SlotOn, SlotNone, ExtendWalk,
       ExtendLink, ExtendFails, ExtendSeal, FreeOne, FreeReadError, FreeDone, AllocCluster, AllocFails,
       LinkCluster, WriteBlock, Seal, disk
<1>5. ASSUME NEW e, dirs' = dirs \/ dirs' = [dirs EXCEPT ![op.cl] = e],
             dirSet' = dirSet \cup {op.cl}, b # op.cl
      PROVE  b \in DirBlocks /\ dirs[b][i].name = "end"
  BY <1>1, <1>5, DiskTyped, Numbers DEF DirBlocks
<1>6. CASE ExtendZero
  BY <1>5, <1>6 DEF ExtendZero
<1>7. CASE MkdirBlock
  BY <1>5, <1>7 DEF MkdirBlock
<1>8. ASSUME NEW e, NEW r, SetSlot(op.blk, op.idx, e, r), dirSet' = dirSet, e.name # "end"
      PROVE  b \in DirBlocks /\ dirs[b][i].name = "end"
  BY <1>1, <1>8, FieldsTyped, DiskTyped, Numbers DEF SetSlot, DirBlocks
<1>9. CASE SetEntry
  <2>1. pc = "entry" /\ dirSet' = dirSet /\ \E r : SetSlot(op.blk, op.idx, NewEntry, r)
    BY <1>9 DEF SetEntry
  <2>2. NewEntry.name \in Names
    BY <2>1, CallHome DEF NewEntry
  <2>. QED
    BY <1>8, <2>1, <2>2, Numbers
<1>10. CASE MarkDeleted
  <2>1. dirSet' = dirSet /\ \E r : SetSlot(op.blk, op.idx, Mark("deleted"), r)
    BY <1>10 DEF MarkDeleted
  <2>. QED
    BY <1>8, <2>1 DEF Mark
<1>. QED
  BY <1>3, <1>4, <1>6, <1>7, <1>9, <1>10 DEF Next, Steps

LEMMA EndStays ==
  ASSUME IInv, NEW own \in Owners, Volume(own), Next,
         NEW b \in DirBlocks, NEW i \in SlotsOf(b), dirs[b][i].name = "end"
  PROVE  dirs'[b][i].name = "end" \/ (SetEntry /\ op.found # "hit" /\ b = op.blk /\ i = op.idx)
<1>1. /\ InCall(own) /\ op \in Locals /\ DOMAIN dirs = Dirs /\ b \in Dirs
      /\ \A d \in Dirs : dirs[d] \in [SlotsOf(d) -> Slot]
  BY ReadsTyped, DiskTyped, Numbers DEF Volume, IInv, TypeOK, DirBlocks
<1>2. CASE dirs' = dirs
  BY <1>2
<1>3. CASE Calls \/ Crash
  BY <1>2, <1>3, Zenon DEF Calls, WriteFile, WriteUsers, DeleteFile, Mkdir, Cd, CdUp, Call, Crash, disk
<1>4. CASE \/ FindHit \/ FindEnd \/ FindOn \/ FindNone \/ SlotHit \/ SlotOn \/ SlotNone
           \/ ExtendWalk \/ ExtendLink \/ ExtendFails \/ ExtendSeal
           \/ FreeOne \/ FreeReadError \/ FreeDone
           \/ AllocCluster \/ AllocFails \/ LinkCluster \/ WriteBlock \/ Seal
  BY <1>2, <1>4 DEF FindHit, FindEnd, FindOn, FindNone, SlotHit, SlotOn, SlotNone, ExtendWalk,
       ExtendLink, ExtendFails, ExtendSeal, FreeOne, FreeReadError, FreeDone, AllocCluster, AllocFails,
       LinkCluster, WriteBlock, Seal, disk
<1>5. CASE ExtendZero \/ MkdirBlock
  <2>1. b # op.cl
    BY <1>5, NewBlock, Numbers DEF DirBlocks
  <2>2. \E e : dirs' = dirs \/ dirs' = [dirs EXCEPT ![op.cl] = e]
    BY <1>5 DEF ExtendZero, MkdirBlock
  <2>. QED
    BY <1>1, <2>1, <2>2
<1>6. ASSUME NEW e, NEW r, SetSlot(op.blk, op.idx, e, r), b # op.blk \/ i # op.idx
      PROVE  dirs'[b][i].name = "end"
  BY <1>1, <1>6 DEF SetSlot
<1>7. ASSUME pc \in {"entry", "mark"}, op.found = "hit" PROVE b # op.blk \/ i # op.idx
  BY <1>1, <1>7, CallHome, Numbers DEF InCall, Place, Building
<1>8. CASE SetEntry
  BY <1>6, <1>7, <1>8 DEF SetEntry
<1>9. CASE MarkDeleted
  <2>1. pc = "mark" /\ op.found = "hit"
    BY <1>1, <1>9 DEF MarkDeleted, InCall, OldChain
  <2>. QED
    BY <1>6, <1>7, <1>9, <2>1 DEF MarkDeleted
<1>. QED
  BY <1>3, <1>4, <1>5, <1>8, <1>9 DEF Next, Steps

(* A link after a step between blocks of before is one from before.        *)
LEMMA OldLink ==
  ASSUME IInv, NEW own \in Owners, Volume(own), Undamaged', Next,
         NEW b \in Dirs, NEW c \in DirBlocks, Linked(b, c)'
  PROVE  Linked(b, c)
<1>1. CASE ExtendZero
  <2>1. c # op.cl
    BY <1>1, NewBlock, Numbers DEF DirBlocks
  <2>. QED
    BY <1>1, <2>1, GrownLinks
<1>. QED
  BY <1>1, NoNewLinks

(* To the new block of a directory there is a link only when it grows, and *)
(* from it there is none.                                                  *)
LEMMA NewBlockLinks ==
  ASSUME IInv, NEW own \in Owners, Volume(own), Undamaged', Next, ExtendZero \/ MkdirBlock
  PROVE  /\ \A c \in DirBlocks : ~Linked(op.cl, c)
         /\ MkdirBlock => \A b \in Dirs : Linked(b, op.cl) => b = op.cl
<1>1. op.cl \in Cluster /\ op.cl \in Dirs /\ op.cl \notin dirSet /\ op.cl # Root
  BY NewBlock, Numbers
<1>. QED
  BY <1>1, LinkedBlock DEF DirBlocks

LEMMA UniqueStep ==
  ASSUME IInv, NEW own \in Owners, Volume(own), Undamaged', Next, Placed, Unique, Sought
  PROVE  Unique'
<1>. SUFFICES ASSUME NEW b \in DirBlocks', NEW c \in DirBlocks', Linked(b, c)',
                     NEW i \in SlotsOf(b), NEW j \in SlotsOf(c),
                     dirs'[b][i].name \in Names, dirs'[c][j].name = dirs'[b][i].name
              PROVE  b = c /\ i = j
  BY DEF Unique
<1>1. OnDisk(own) /\ InCall(own) /\ DirBlocks \subseteq Dirs
  BY DiskTyped, Numbers DEF Volume, DirBlocks
<1>. DEFINE Old(d, k) == d \in DirBlocks /\ dirs'[d][k] = dirs[d][k]
            New(d, k) == SetEntry /\ d = op.blk /\ k = op.idx /\ dirs'[d][k] = NewEntry
<1>2. (Old(b, i) \/ New(b, i)) /\ (Old(c, j) \/ New(c, j))
  BY NameCameFrom
<1>3. CASE Old(b, i) /\ Old(c, j)
  <2>1. Linked(b, c)
    BY <1>1, <1>3, OldLink
  <2>. QED
    BY <1>3, <2>1 DEF Unique
<1>4. CASE New(b, i) /\ New(c, j)
  BY <1>4
<1>5. ASSUME SetEntry, NEW d \in DirBlocks, NEW k \in SlotsOf(d), dirs[d][k].name = op.name,
             Linked(d, op.blk) \/ Linked(op.blk, d)
      PROVE  d = op.blk /\ k = op.idx
  <2>1. /\ pc = "entry" /\ op.blk \in DirBlocks /\ op.name \in Names /\ op.dir \in Dirs
        /\ Linked(op.dir, op.blk) /\ (op.dir = Root \/ Unpointed(op.dir)) /\ op.idx \in SlotsOf(op.blk)
    BY <1>1, <1>5, CallHome, FieldsTyped DEF SetEntry, InCall, Place, NewChain, Placed, Building
  <2>2. CASE op.found = "hit"
    <3>1. dirs[op.blk][op.idx].name = op.name
      BY <1>1, <2>1, <2>2 DEF InCall, Place, Building
    <3>. QED
      BY <1>5, <2>1, <3>1 DEF Unique
  <2>3. CASE op.found # "hit"
    <3>1. Linked(op.dir, d)
      BY <1>1, <1>5, <2>1, LinkedOn, LinkedBack
    <3>. QED
      BY <1>5, <2>1, <2>3, <3>1 DEF Sought, Absent, Lacks, Building
  <2>. QED
    BY <2>2, <2>3
<1>6. NewEntry.name = op.name
  BY DEF NewEntry
<1>7. ASSUME SetEntry PROVE Linked(b, c)
  <2>1. ~ExtendZero
    BY <1>7 DEF SetEntry, ExtendZero
  <2>. QED
    BY <2>1, NoNewLinks
<1>8. CASE New(b, i) /\ Old(c, j)
  BY <1>5, <1>6, <1>7, <1>8
<1>9. CASE Old(b, i) /\ New(c, j)
  BY <1>5, <1>6, <1>7, <1>9
<1>. QED
  BY <1>2, <1>3, <1>4, <1>8, <1>9

LEMMA EndedStep ==
  ASSUME IInv, NEW own \in Owners, Volume(own), Undamaged', Next, Ended, Sought
  PROVE  Ended'
<1>. SUFFICES ASSUME NEW b \in DirBlocks', NEW c \in DirBlocks', Linked(b, c)',
                     NEW i \in SlotsOf(b), NEW j \in SlotsOf(c),
                     dirs'[b][i].name = "end", b = c => i < j
              PROVE  dirs'[c][j].name = "end"
  BY DEF Ended
<1>1. OnDisk(own) /\ InCall(own) /\ DirBlocks \subseteq Dirs /\ DOMAIN dirs = Dirs
  BY DiskTyped, Numbers DEF Volume, DirBlocks, IInv, TypeOK
<1>2. ASSUME ExtendZero \/ MkdirBlock, b = op.cl \/ c = op.cl PROVE dirs'[c][j].name = "end"
  <2>1. op.cl \in Cluster /\ op.cl \in Dirs /\ dirSet' = dirSet \cup {op.cl}
    BY <1>2, NewBlock, Numbers
  <2>2. c = op.cl
    <3>. SUFFICES ASSUME b = op.cl, c # op.cl PROVE FALSE
      BY <1>2
    <3>1. c \in DirBlocks
      BY <2>1 DEF DirBlocks
    <3>2. Linked(b, c)
      BY <2>1, <3>1, OldLink
    <3>. QED
      BY <1>2, <3>1, <3>2, NewBlockLinks
  <2>3. CASE ExtendZero
    <3>1. dirs' = [dirs EXCEPT ![op.cl] = EmptyBlock(op.cl)]
      BY <2>3 DEF ExtendZero, Undamaged
    <3>. QED
      BY <1>1, <2>1, <2>2, <3>1 DEF EmptyBlock, Mark
  <2>4. CASE MkdirBlock
    <3>. DEFINE e == [EmptyBlock(op.cl) EXCEPT ![1] = DotSlot(".", op.cl), ![2] = DotSlot("..", Parent)]
    <3>1. dirs' = [dirs EXCEPT ![op.cl] = e]
      BY <2>4 DEF MkdirBlock, Undamaged
    <3>2. \A k \in SlotsOf(op.cl) : e[k].name = "end" <=> k # 1 /\ k # 2
      BY DEF EmptyBlock, Mark, DotSlot
    <3>3. ~ExtendZero
      BY <2>4 DEF MkdirBlock, ExtendZero
    <3>4. b \in Dirs /\ Linked(b, op.cl)
      <4>1. b \in Dirs
        BY <1>1, <2>1 DEF DirBlocks
      <4>. QED
        BY <2>2, <3>3, <4>1, NoNewLinks
    <3>5. b = op.cl
      BY <2>4, <3>4, NewBlockLinks
    <3>. HIDE DEF e
    <3>6. i < j /\ i \in Nat /\ j \in Nat /\ dirs'[b] = e /\ dirs'[c] = e
      BY <1>1, <2>1, <2>2, <3>1, <3>5, SlotsFinite
    <3>. QED
      BY <2>2, <3>2, <3>5, <3>6, SlotsFinite DEF SlotsOf
  <2>. QED
    BY <1>2, <2>3, <2>4
<1>3. CASE b \in DirBlocks /\ c \in DirBlocks
  <2>1. CASE (ExtendZero \/ MkdirBlock) /\ b = op.cl
    BY <1>2, <2>1
  <2>2. CASE dirs[b][i].name = "end"
    <3>1. Linked(b, c)
      BY <1>1, <1>3, OldLink
    <3>2. dirs[c][j].name = "end"
      BY <1>3, <2>2, <3>1 DEF Ended
    <3>3. CASE SetEntry /\ op.found # "hit" /\ c = op.blk /\ j = op.idx
      <4>1. NoEndBefore(op.blk) /\ \A k \in SlotsOf(op.blk) : k < op.idx => dirs[op.blk][k].name # "end"
        BY <3>3 DEF SetEntry, Sought, Building
      <4>2. b # c
        BY <2>2, <3>3, <4>1
      <4>. QED
        BY <1>3, <2>2, <3>1, <3>3, <4>1, <4>2 DEF NoEndBefore, Before, Lacks
    <3>. QED
      BY <1>3, <3>2, <3>3, EndStays
  <2>. QED
    BY <2>1, <2>2, EndCameFrom
<1>4. ASSUME NEW d \in DirBlocks', d \notin DirBlocks PROVE (ExtendZero \/ MkdirBlock) /\ d = op.cl
  <2>1. CASE ExtendZero \/ MkdirBlock
    BY <1>4, <2>1, NewBlock DEF DirBlocks
  <2>2. CASE FreeOne
    BY <1>4, <2>2, FreedBlock DEF DirBlocks
  <2>3. CASE SameLinks
    BY <1>4, <2>3 DEF SameLinks, DirBlocks
  <2>. QED
    BY <2>1, <2>2, <2>3, SameLinksSteps
<1>. QED
  BY <1>2, <1>3, <1>4

(* What a search has found out stays true while the call goes on.          *)
LEMMA AbsentKept ==
  ASSUME IInv, NEW own \in Owners, Volume(own), Undamaged', Next, pc # "idle", ~SetEntry, Absent,
         op'.dir = op.dir, op'.name = op.name
  PROVE  Absent'
<1>. SUFFICES ASSUME NEW b \in DirBlocks', Linked(op.dir, b)', NEW i \in SlotsOf(b),
                     dirs'[b][i].name = op.name
              PROVE  FALSE
  BY DEF Absent, Lacks
<1>1. op.name \in Names /\ op.dir \in Dirs
  BY CallHome, FieldsTyped
<1>2. b \in DirBlocks /\ dirs'[b][i] = dirs[b][i]
  BY <1>1, NameCameFrom
<1>3. PICK d : d = op.dir
  OBVIOUS
<1>4. Linked(d, b)'
  BY <1>3
<1>5. Linked(d, b)
  BY <1>1, <1>2, <1>3, <1>4, OldLink
<1>. QED
  BY <1>2, <1>3, <1>5 DEF Absent, Lacks

LEMMA NoEndKept ==
  ASSUME IInv, NEW own \in Owners, Volume(own), Undamaged', Next,
         NEW c \in DirBlocks, NoEndBefore(c)
  PROVE  NoEndBefore(c)'
<1>. SUFFICES ASSUME NEW b \in DirBlocks', Linked(b, c)', b # c, NEW i \in SlotsOf(b),
                     dirs'[b][i].name = "end"
              PROVE  FALSE
  BY DEF NoEndBefore, Before, Lacks
<1>1. b \in Dirs
  <2>1. CASE ExtendZero \/ MkdirBlock
    BY <2>1, NewBlock, DiskTyped, Numbers DEF DirBlocks
  <2>2. CASE FreeOne
    BY <2>2, FreedBlock, DiskTyped, Numbers DEF DirBlocks
  <2>3. CASE SameLinks
    BY <2>3, DiskTyped, Numbers DEF DirBlocks, SameLinks
  <2>. QED
    BY <2>1, <2>2, <2>3, SameLinksSteps
<1>2. Linked(b, c)
  BY <1>1, OldLink
<1>3. CASE b \in DirBlocks /\ dirs[b][i].name = "end"
  BY <1>2, <1>3 DEF NoEndBefore, Before, Lacks
<1>4. CASE (ExtendZero \/ MkdirBlock) /\ b = op.cl
  BY <1>2, <1>4, NewBlockLinks
<1>. QED
  BY <1>3, <1>4, EndCameFrom

(* A search that passed all blocks, or came to the end mark, has seen that *)
(* the name is not there.                                                  *)
LEMMA SeenAll ==
  ASSUME IInv, NEW own \in Owners, Volume(own), pc = "find", Placed, Ended, Sought,
         \A i \in SlotsOf(op.at) : dirs[op.at][i].name # op.name,
         Stops = {} => ~ChainGoesOn(op.at)
  PROVE  Absent
<1>. SUFFICES ASSUME NEW b \in DirBlocks, Linked(op.dir, b), NEW i \in SlotsOf(b),
                     dirs[b][i].name = op.name
              PROVE  FALSE
  BY DEF Absent, Lacks
<1>1. /\ Linked(op.dir, op.at) /\ op.at \in DirBlocks /\ op.dir \in Dirs /\ op.at \in Dirs
      /\ op.name \in Names /\ b \in Dirs
  BY CallHome, FieldsTyped, DiskTyped, Numbers DEF Placed, Searching, Volume, InCall, Searches, DirBlocks
<1>2. b # op.at
  OBVIOUS
<1>3. ~Linked(b, op.at)
  BY <1>2 DEF Sought, Before, Lacks
<1>4. Linked(op.at, b)
  BY <1>1, <1>3, LinkedLine
<1>5. op.at \in dirSet /\ fat[op.at] \in dirSet
  BY <1>1, <1>2, <1>4, FirstLink
<1>6. Stops # {}
  BY <1>5, DiskTyped, Numbers DEF ChainGoesOn
<1>7. PICK k \in SlotsOf(op.at) : dirs[op.at][k].name = "end"
  BY <1>6 DEF Stops
<1>8. dirs[b][i].name = "end"
  BY <1>1, <1>2, <1>4, <1>7 DEF Ended
<1>. QED
  BY <1>1, <1>8, Numbers

LEMMA SoughtStep ==
  ASSUME IInv, NEW own \in Owners, Volume(own), Undamaged', "blind" \notin damage', Next,
         Placed, Ended, Sought
  PROVE  Sought'
<1>1. /\ OnDisk(own) /\ InCall(own) /\ op \in Locals /\ op.dir \in Dirs /\ op.at \in Dirs
      /\ op.blk \in Dirs /\ DirBlocks \subseteq Dirs
  BY ReadsTyped, FieldsTyped, DiskTyped, Numbers DEF Volume, IInv, DirBlocks
<1>2. pc \in Searching => op.at \in DirBlocks /\ op.found # "hit" /\ pc # "idle" /\ ~SetEntry
  BY <1>1 DEF InCall, Searches, SetEntry, Searching, Extends
<1>3. pc' \notin Searching \cup Building => Sought'
  BY DEF Sought, Searching, Extends, Building
<1>4. ASSUME NEW causes, Abandon(causes) PROVE Sought'
  BY <1>3, <1>4 DEF Abandon, Return, Goto, Searching, Extends, Building
<1>5. Return => Sought'
  BY <1>3 DEF Return, Goto, Searching, Extends, Building
<1>6. \A d \in Dirs : d = Root \/ Unpointed(d) => NoEndBefore(d)
  BY <1>1, NothingBefore DEF NoEndBefore
<1>7. ASSUME pc' = "find", UNCHANGED <<fat, dirSet>>,
             NEW d \in Dirs, d = Root \/ Unpointed(d), op'.at = d
      PROVE  Sought'
  <2>1. \A b \in Dirs : ~Before(b, d)'
    <3>1. \A b \in Dirs : Before(b, d)' <=> Before(b, d)
      BY <1>7 DEF Before, Linked, Follows
    <3>. QED
      BY <1>7, <3>1, NothingBefore
  <2>2. \A b \in DirBlocks' : ~Before(b, d)'
    BY <1>1, <1>7, <2>1 DEF DirBlocks
  <2>3. \A b \in DirBlocks' : ~Before(b, op.at)'
    BY <1>7, <2>2
  <2>. QED
    BY <1>7, <2>3 DEF Sought, NoEndBefore, Searching, Extends, Building
<1>8. CASE Calls
  <2>1. ASSUME NEW o, Call(o), o.dir \in {Root, cwd}, o \in Locals PROVE Sought'
    <3>1. pc' = "find" /\ op'.at = o.dir /\ UNCHANGED <<fat, dirSet>>
      BY <2>1 DEF Call, Goto, Locals, disk
    <3>2. o.dir \in Dirs /\ (o.dir = Root \/ Unpointed(o.dir))
      BY <1>1, <2>1, HomeHead, DiskTyped, Numbers
    <3>. QED
      BY <1>7, <3>1, <3>2
  <2>2. NoOp \in Locals /\ NoOp.dir = Root /\ cwd \in Dirs
    BY NoOpTyped, DiskTyped DEF NoOp
  <2>3. ASSUME NEW name \in Names, NEW val \in Data, NEW len \in 0 .. MaxLen,
               WriteFile(name, val, len)
        PROVE  Sought'
    <3>. DEFINE o == [NoOp EXCEPT !.kind = "write", !.dir = cwd, !.name = name, !.val = val, !.len = len]
    <3>1. o \in Locals /\ o.dir = cwd
      BY <2>2 DEF Locals, Kinds
    <3>2. Call(o)
      BY <2>3 DEF WriteFile
    <3>. HIDE DEF o
    <3>. QED
      BY <2>1, <3>1, <3>2
  <2>4. ASSUME NEW val \in Data, NEW len \in 1 .. MaxLen, WriteUsers(val, len)
        PROVE  Sought'
    <3>. DEFINE o == [NoOp EXCEPT !.kind = "write", !.name = UsersDat, !.val = val, !.len = len]
    <3>1. len \in 0 .. MaxLen /\ UsersDat \in Names
      BY NamesAssumption
    <3>2. o \in Locals /\ o.dir = Root
      BY <2>2, <3>1 DEF Locals, Kinds
    <3>3. Call(o)
      BY <2>4 DEF WriteUsers
    <3>. HIDE DEF o
    <3>. QED
      BY <2>1, <3>2, <3>3
  <2>5. ASSUME NEW name \in Names, NEW k \in Kinds,
               Call([NoOp EXCEPT !.kind = k, !.dir = cwd, !.name = name])
        PROVE  Sought'
    <3>. DEFINE o == [NoOp EXCEPT !.kind = k, !.dir = cwd, !.name = name]
    <3>1. o \in Locals /\ o.dir = cwd
      BY <2>2 DEF Locals
    <3>2. Call(o)
      BY <2>5
    <3>. HIDE DEF o
    <3>. QED
      BY <2>1, <3>1, <3>2
  <2>6. CASE CdUp
    BY <1>3, <2>6 DEF CdUp, Searching, Extends, Building
  <2>. QED
    BY <1>8, <2>3, <2>4, <2>5, <2>6, Zenon DEF Calls, DeleteFile, Mkdir, Cd, Kinds
<1>9. CASE Crash
  BY <1>5, <1>9 DEF Crash
<1>10. CASE FindHit
  BY <1>3, <1>5, <1>10 DEF FindHit, Goto, Searching, Extends, Building
<1>11. \A c \in DirBlocks : NoEndBefore(c) => NoEndBefore(c)'
  BY NoEndKept
<1>12. ASSUME pc \in Searching, pc' = "alloc", Absent, op'.dir = op.dir, op'.name = op.name,
              NEW c, c = op.at, op'.blk = c, NoEndBefore(c), dirs' = dirs,
              \A j \in SlotsOf(c) : j < op'.idx => dirs[c][j].name # "end"
       PROVE  Sought'
  <2>1. Absent'
    BY <1>2, <1>12, AbsentKept
  <2>2. NoEndBefore(c)'
    BY <1>2, <1>11, <1>12
  <2>. QED
    BY <1>12, <2>1, <2>2 DEF Sought, Searching, Extends, Building
<1>13. CASE FindEnd
  <2>1. CASE Return
    BY <1>5, <2>1
  <2>2. CASE ~Return
    <3>1. /\ pc = "find" /\ pc' = "alloc" /\ Stops # {} /\ Found.name # op.name /\ dirs' = dirs
          /\ op' = [op EXCEPT !.found = "end", !.blk = op.at, !.idx = FirstStop]
      BY <1>13, <2>2 DEF FindEnd, Goto, disk
    <3>2. op'.dir = op.dir /\ op'.name = op.name /\ op'.blk = op.at /\ op'.idx = FirstStop
      BY <1>1, <3>1 DEF Locals
    <3>3. FirstStop \in Stops /\ \A j \in Stops : FirstStop <= j
      <4>1. Stops \in SUBSET SlotsOf(op.at)
        BY DEF Stops
      <4>. QED
        BY <3>1, <4>1, LowestSlot DEF FirstStop
    <3>4. \A j \in SlotsOf(op.at) : j < FirstStop =>
             dirs[op.at][j].name # "end" /\ dirs[op.at][j].name # op.name
      <4>1. ASSUME NEW j \in SlotsOf(op.at), j < FirstStop PROVE j \notin Stops
        BY <3>3, <4>1, SlotsFinite DEF Stops
      <4>. QED
        BY <4>1 DEF Stops
    <3>5. FirstStop \in SlotsOf(op.at) /\ dirs[op.at][FirstStop].name = "end"
      BY <3>1, <3>3 DEF Stops, Found
    <3>6. ASSUME NEW j \in SlotsOf(op.at) PROVE dirs[op.at][j].name # op.name
      <4>1. op.name \in Names
        BY <3>1, CallHome
      <4>2. CASE j < FirstStop
        BY <3>4, <4>2
      <4>3. CASE j = FirstStop
        BY <3>5, <4>1, <4>3, Numbers
      <4>4. CASE FirstStop < j
        <5>1. Linked(op.at, op.at) /\ op.at \in DirBlocks
          BY <1>1, <1>2, <3>1, LinkedOn DEF Searching
        <5>2. dirs[op.at][j].name = "end"
          BY <3>5, <4>4, <5>1 DEF Ended
        <5>. QED
          BY <4>1, <5>2, Numbers
      <4>. QED
        BY <3>5, <4>2, <4>3, <4>4, SlotsFinite
    <3>7. Absent
      BY <3>1, <3>6, SeenAll
    <3>8. NoEndBefore(op.at)
      BY <3>1 DEF Sought
    <3>9. PICK c : c = op.at
      OBVIOUS
    <3>. QED
      BY <1>12, <3>1, <3>2, <3>4, <3>7, <3>8, <3>9 DEF Searching
  <2>. QED
    BY <2>1, <2>2
<1>14. ASSUME pc \in {"find", "slot"}, ChainGoesOn(op.at), Lacks(op.at, "end")
       PROVE  /\ fat[op.at] \in DirBlocks /\ NoEndBefore(fat[op.at])
              /\ \A b \in DirBlocks : Before(b, fat[op.at]) => b = op.at \/ Before(b, op.at)
  <2>1. op.at \in DirBlocks /\ op.at \in Cluster /\ fat[op.at] \in Cluster
    BY <1>1, <1>2, <1>14, Numbers DEF ChainGoesOn, Searching
  <2>2. op.at \in dirSet /\ fat[op.at] \in dirSet
    BY <1>1, <1>14, <2>1, NextBlock, Numbers DEF DirBlocks, Extends
  <2>3. \A b \in DirBlocks : Before(b, fat[op.at]) => b = op.at \/ Before(b, op.at)
    BY <1>1, <2>2, BeforeNext
  <2>4. NoEndBefore(op.at)
    BY <1>14 DEF Sought
  <2>. QED
    BY <1>14, <2>2, <2>3, <2>4 DEF NoEndBefore, DirBlocks
<1>15. CASE FindOn
  <2>1. /\ pc = "find" /\ pc' = "find" /\ Stops = {} /\ ChainGoesOn(op.at)
        /\ op' = [op EXCEPT !.at = fat[op.at]] /\ UNCHANGED <<fat, dirs, dirSet>>
    BY <1>15 DEF FindOn, Goto, disk
  <2>2. op'.at = fat[op.at] /\ op'.name = op.name
    BY <1>1, <2>1 DEF Locals
  <2>3. Lacks(op.at, "end") /\ Lacks(op.at, op.name)
    BY <2>1 DEF Stops, Lacks
  <2>4. PICK c : c = fat[op.at]
    OBVIOUS
  <2>5. c \in DirBlocks /\ NoEndBefore(c)'
    BY <1>11, <1>14, <2>1, <2>3, <2>4
  <2>6. ASSUME NEW b \in DirBlocks, Before(b, c)' PROVE Lacks(b, op.name)
    <3>1. Before(b, c)
      BY <2>1, <2>6 DEF Before, Linked, Follows
    <3>. QED
      BY <1>14, <2>1, <2>3, <2>4, <2>6, <3>1 DEF Sought
  <2>7. \A b \in DirBlocks' : Before(b, op.at)' => Lacks(b, op.name)'
    BY <2>1, <2>2, <2>4, <2>6 DEF DirBlocks, Lacks
  <2>. QED
    BY <2>1, <2>2, <2>4, <2>5, <2>7 DEF Sought, Searching, Extends, Building
<1>16. ASSUME pc \in Searching, pc' \in Searching \ {"find"}, Absent, op'.dir = op.dir, op'.name = op.name,
              NEW c \in DirBlocks, pc' = "slot" => NoEndBefore(c) /\ op'.at = c
       PROVE  Sought'
  <2>1. Absent'
    BY <1>2, <1>16, AbsentKept
  <2>2. NoEndBefore(c) => NoEndBefore(c)'
    BY <1>11
  <2>. QED
    BY <1>16, <2>1, <2>2 DEF Sought, Searching, Extends, Building
<1>17. pc \in Searching => op.dir \in DirBlocks /\ NoEndBefore(op.dir)
  BY <1>1, <1>2, <1>6, CallHome
<1>18. CASE FindNone
  <2>1. CASE Return
    BY <1>5, <2>1
  <2>2. CASE ~Return
    <3>1. /\ pc = "find" /\ pc' = "slot" /\ Stops = {} /\ ~ChainGoesOn(op.at)
          /\ op' = [op EXCEPT !.at = op.dir]
      BY <1>18, <2>2 DEF FindNone, Goto
    <3>2. op'.dir = op.dir /\ op'.name = op.name /\ op'.at = op.dir
      BY <1>1, <3>1 DEF Locals
    <3>3. Absent
      BY <3>1, SeenAll DEF Stops
    <3>. QED
      BY <1>16, <1>17, <3>1, <3>2, <3>3 DEF Searching
  <2>. QED
    BY <2>1, <2>2
<1>19. pc \in Searching \ {"find"} => Absent
  BY DEF Sought
<1>20. CASE SlotHit
  <2>1. /\ pc = "slot" /\ pc' = "alloc" /\ Vacant # {} /\ dirs' = dirs
        /\ op' = [op EXCEPT !.blk = op.at, !.idx = VacantSlot]
    BY <1>20 DEF SlotHit, Goto, disk
  <2>2. op'.dir = op.dir /\ op'.name = op.name /\ op'.blk = op.at /\ op'.idx = VacantSlot
    BY <1>1, <2>1 DEF Locals
  <2>3. VacantSlot \in Vacant /\ \A j \in Vacant : VacantSlot <= j
    <3>1. Vacant \in SUBSET SlotsOf(op.at)
      BY DEF Vacant
    <3>. QED
      BY <2>1, <3>1, LowestSlot DEF VacantSlot
  <2>4. \A j \in SlotsOf(op.at) : j < VacantSlot => dirs[op.at][j].name # "end"
    <3>1. ASSUME NEW j \in SlotsOf(op.at), j < VacantSlot PROVE j \notin Vacant
      BY <2>3, <3>1, SlotsFinite DEF Vacant
    <3>. QED
      BY <3>1 DEF Vacant
  <2>5. NoEndBefore(op.at) /\ Absent
    BY <1>19, <2>1 DEF Sought, Searching
  <2>6. PICK c : c = op.at
    OBVIOUS
  <2>. QED
    BY <1>12, <2>1, <2>2, <2>4, <2>5, <2>6 DEF Searching
<1>21. CASE SlotOn
  <2>1. /\ pc = "slot" /\ pc' = "slot" /\ Vacant = {} /\ ChainGoesOn(op.at)
        /\ op' = [op EXCEPT !.at = fat[op.at]]
    BY <1>21 DEF SlotOn, Goto
  <2>2. op'.at = fat[op.at] /\ op'.name = op.name /\ op'.dir = op.dir
    BY <1>1, <2>1 DEF Locals
  <2>3. Lacks(op.at, "end")
    BY <2>1 DEF Vacant, Lacks
  <2>. QED
    BY <1>14, <1>16, <1>19, <2>1, <2>2, <2>3 DEF Searching
<1>22. CASE SlotNone \/ ExtendWalk \/ ExtendLink \/ ExtendFails \/ ExtendSeal \/ ExtendZero
  <2>1. CASE \E causes : Abandon(causes)
    BY <1>4, <2>1
  <2>2. CASE ~\E causes : Abandon(causes)
    <3>1. /\ pc \in Searching \ {"find"} /\ pc' \in Searching \ {"find"}
          /\ op'.name = op.name /\ op'.dir = op.dir /\ (pc' = "slot" => op'.at = op.dir)
      <4>1. CASE SlotNone
        <5>1. pc = "slot" /\ pc' = "extend" /\ op' = [op EXCEPT !.at = op.dir]
          BY <2>2, <4>1 DEF SlotNone, Goto
        <5>. QED
          BY <1>1, <5>1 DEF Locals, Searching, Extends
      <4>2. CASE ExtendWalk
        <5>1. pc = "extend" /\ pc' = "extend" /\ op' = [op EXCEPT !.at = fat[op.at]]
          BY <4>2 DEF ExtendWalk, Goto
        <5>. QED
          BY <1>1, <5>1 DEF Locals, Searching, Extends
      <4>3. CASE ExtendLink
        <5>. DEFINE nc == LowestOf(FreeClusters)
        <5>1. PICK r \in Outcome :
                CASE r = "ok"   -> Goto("xeof", [op EXCEPT !.cl = nc]) /\ UNCHANGED damage
                  [] r = "lost" -> Abandon({})
                  [] r = "late" -> Abandon({"extend"})
          BY <4>3 DEF ExtendLink
        <5>2. r \in {"ok", "lost", "late"}
          BY DEF Outcome
        <5>. HIDE DEF nc
        <5>3. r = "ok"
          BY <2>2, <5>1, <5>2
        <5>4. pc = "extend" /\ pc' = "xeof" /\ op' = [op EXCEPT !.cl = nc]
          BY <4>3, <5>1, <5>3 DEF ExtendLink, Goto
        <5>. QED
          BY <1>1, <5>4 DEF Locals, Searching, Extends
      <4>4. CASE ExtendFails
        BY <2>2, <4>4 DEF ExtendFails
      <4>5. CASE ExtendSeal
        <5>1. pc = "xeof" /\ pc' = "xzero" /\ op' = op
          BY <2>2, <4>5 DEF ExtendSeal, Goto
        <5>. QED
          BY <5>1 DEF Searching, Extends
      <4>6. CASE ExtendZero
        <5>1. /\ pc = "xzero" /\ pc' = "slot"
              /\ op' = [op EXCEPT !.at = op.dir, !.cl = 0, !.extended = TRUE]
          BY <4>6 DEF ExtendZero, Goto
        <5>. QED
          BY <1>1, <5>1 DEF Locals, Searching, Extends
      <4>. QED
        BY <1>22, <4>1, <4>2, <4>3, <4>4, <4>5, <4>6
    <3>2. PICK c : c = op.dir
      OBVIOUS
    <3>3. pc' = "slot" => NoEndBefore(c) /\ op'.at = c
      BY <1>17, <3>1, <3>2
    <3>. QED
      BY <1>16, <1>17, <1>19, <3>1, <3>2, <3>3
  <2>. QED
    BY <2>1, <2>2
<1>23. CASE FreeOne \/ FreeReadError
  BY <1>3, <1>23 DEF FreeOne, FreeReadError, Goto, Searching, Extends, Building
<1>24. CASE FreeDone
  <2>1. CASE (\E causes : Abandon(causes)) \/ Return
    BY <1>4, <1>5, <2>1
  <2>2. CASE ~((\E causes : Abandon(causes)) \/ Return)
    <3>1. pc = "free" /\ pc' = "alloc" /\ op' = op /\ ~(op.kind = "write" /\ op.failed) /\ op.kind # "delete"
      BY <1>24, <2>2 DEF FreeDone, Goto
    <3>2. op.found = "hit"
      BY <1>1, <3>1 DEF InCall, OldChain
    <3>. QED
      BY <3>1, <3>2 DEF Sought, Searching, Extends
  <2>. QED
    BY <2>1, <2>2
<1>25. ASSUME pc \in Building, pc' \in Building, ~SetEntry, op'.dir = op.dir, op'.name = op.name,
              op'.found = op.found, op'.blk = op.blk, op'.idx = op.idx
       PROVE  Sought'
  <2>. SUFFICES ASSUME op.found # "hit"
                PROVE  /\ Absent' /\ NoEndBefore(op.blk)'
                       /\ \A j \in SlotsOf(op.blk) : j < op.idx => dirs'[op.blk][j].name # "end"
    BY <1>25 DEF Sought, Searching, Extends, Building
  <2>1. /\ pc # "idle" /\ Absent /\ NoEndBefore(op.blk) /\ op.blk \in DirBlocks
        /\ \A j \in SlotsOf(op.blk) : j < op.idx => dirs[op.blk][j].name # "end"
    BY <1>1, <1>25 DEF Sought, Building, InCall, Place
  <2>2. Absent'
    BY <1>25, <2>1, AbsentKept
  <2>3. PICK c : c = op.blk
    OBVIOUS
  <2>4. NoEndBefore(c)'
    BY <1>11, <2>1, <2>3
  <2>5. (ExtendZero \/ MkdirBlock) => op.blk # op.cl
    BY <1>1, <2>1, NewBlock, Numbers DEF DirBlocks
  <2>6. op.blk \in DirBlocks'
    <3>1. CASE ExtendZero \/ MkdirBlock
      BY <2>1, <3>1, NewBlock DEF DirBlocks
    <3>2. CASE SameLinks
      BY <2>1, <3>2 DEF SameLinks, DirBlocks
    <3>3. ~FreeOne
      BY <1>25 DEF FreeOne, Building
    <3>. QED
      BY <3>1, <3>2, <3>3, SameLinksSteps
  <2>7. \A j \in SlotsOf(op.blk) : j < op.idx => dirs'[op.blk][j].name # "end"
    BY <2>1, <2>5, <2>6, EndCameFrom
  <2>. QED
    BY <1>25, <2>2, <2>3, <2>4, <2>7
<1>26. GiveUp => Sought'
  BY <1>3 DEF GiveUp, Goto, Searching, Extends, Building
<1>27. CASE AllocCluster
  <2>. DEFINE cl == LowestOf(FreeClusters)
              o == [op EXCEPT !.cl = cl, !.first = IF op.n = 0 THEN cl ELSE op.first]
  <2>1. pc = "alloc" /\ op' = o /\ pc' \in {"mkblock", "link", "data"}
    BY <1>27 DEF AllocCluster, Goto
  <2>2. o.dir = op.dir /\ o.name = op.name /\ o.found = op.found /\ o.blk = op.blk /\ o.idx = op.idx
    BY <1>1 DEF Locals
  <2>. HIDE DEF o
  <2>. QED
    BY <1>25, <2>1, <2>2 DEF SetEntry, Building
<1>28. CASE AllocFails
  BY <1>5, <1>26, <1>28 DEF AllocFails
<1>29. CASE LinkCluster \/ Seal \/ MkdirBlock
  BY <1>25, <1>29 DEF LinkCluster, Seal, MkdirBlock, SetEntry, Goto, Building
<1>30. CASE WriteBlock
  <2>1. CASE ~GiveUp
    <3>1. pc = "data" /\ pc' = "alloc" /\ op' = [op EXCEPT !.prev = op.cl, !.cl = 0, !.n = op.n + 1]
      BY <1>30, <2>1 DEF WriteBlock, Goto
    <3>2. op'.dir = op.dir /\ op'.name = op.name /\ op'.found = op.found /\ op'.blk = op.blk
          /\ op'.idx = op.idx
      BY <1>1, <3>1 DEF Locals
    <3>. QED
      BY <1>25, <3>1, <3>2 DEF SetEntry, Building
  <2>. QED
    BY <1>26, <2>1
<1>31. CASE SetEntry
  BY <1>4, <1>5, <1>31 DEF SetEntry
<1>32. CASE MarkDeleted
  BY <1>3, <1>5, <1>32 DEF MarkDeleted, Goto, Searching, Extends, Building
<1>. QED
  BY <1>8, <1>9, <1>10, <1>13, <1>15, <1>18, <1>20, <1>21, <1>22, <1>23, <1>24, <1>27, <1>28, <1>29,
     <1>30, <1>31, <1>32 DEF Next, Steps

LEMMA InitNames == Init => NamesSound
<1>. SUFFICES ASSUME Init PROVE Unique /\ Ended /\ Sought
  BY DEF NamesSound
<1>1. /\ \A b \in DirBlocks : \A i \in SlotsOf(b) : dirs[b][i].name = "end"
      /\ pc = "idle"
  BY Numbers DEF Init, EmptyBlock, Mark, DirBlocks
<1>2. Unique
  BY <1>1, NamesAssumption DEF Unique, Marks
<1>3. Ended
  BY <1>1 DEF Ended
<1>4. Sought
  BY <1>1 DEF Sought, Searching, Extends, Building
<1>. QED
  BY <1>2, <1>3, <1>4

LEMMA NamesStep ==
  IInv /\ VolumeSound /\ WalkSound /\ NamesSound /\ [Next]_vars => NamesSound'
<1>. SUFFICES ASSUME IInv, VolumeSound, WalkSound, NamesSound, [Next]_vars,
                     Undamaged', "blind" \notin damage'
              PROVE  Unique' /\ Ended' /\ Sought'
  BY DEF NamesSound
<1>1. CASE UNCHANGED vars
  <2>1. UNCHANGED <<fat, dirs, pc, op, dirSet, damage>>
    BY <1>1 DEF vars
  <2>2. \A b, c : Linked(b, c)' <=> Linked(b, c)
    BY <2>1 DEF Linked, Follows
  <2>3. Unique /\ Ended /\ Sought
    BY <2>1 DEF NamesSound, Undamaged
  <2>4. \A b, c : Before(b, c)' <=> Before(b, c)
    BY <2>2 DEF Before
  <2>5. \A b, name : Lacks(b, name)' <=> Lacks(b, name)
    BY <2>1 DEF Lacks
  <2>6. \A c : NoEndBefore(c)' <=> NoEndBefore(c)
    BY <2>1, <2>4, <2>5 DEF NoEndBefore, DirBlocks
  <2>7. Unique' /\ Ended'
    BY <2>1, <2>2, <2>3 DEF Unique, Ended, DirBlocks
  <2>8. Absent' <=> Absent
    BY <2>1, <2>2, <2>5 DEF Absent, DirBlocks
  <2>9. Sought'
    BY <2>1, <2>3, <2>4, <2>5, <2>6, <2>8 DEF Sought, DirBlocks
  <2>. QED
    BY <2>7, <2>9
<1>2. CASE Next
  <2>1. Undamaged /\ "blind" \notin damage
    BY <1>2, DamageStays
  <2>2. PICK own \in Owners : Volume(own)
    BY <2>1 DEF VolumeSound
  <2>3. Placed /\ Unique /\ Ended /\ Sought
    BY <2>1 DEF WalkSound, NamesSound
  <2>. QED
    BY <1>2, <2>2, <2>3, UniqueStep, EndedStep, SoughtStep
<1>. QED
  BY <1>1, <1>2

THEOREM NamesStaySound == Spec => []NamesSound
BY InitNames, NamesStep, Invariance, VolumeStaysSound, WalkStaysSound, PTL DEF Spec

(* EntriesSound: unless a look-up was blinded by a read error, no two      *)
(* entries of a directory have one name, however the directory grew between *)
(* the look-up and the entry; and none but USERS.DAT is hidden.            *)
THEOREM EntriesStaySound == Spec => []EntriesSound
<1>1. IInv /\ NamesSound => NamesUnique
  <2>. SUFFICES ASSUME IInv, Unique, NEW d \in DirBlocks, NEW b \in DirBlocks, NEW c \in DirBlocks,
                       Linked(d, b), Linked(d, c), NEW i \in SlotsOf(b), NEW j \in SlotsOf(c),
                       dirs[b][i].name \in Names, dirs[c][j].name = dirs[b][i].name
                PROVE  b = c /\ i = j
    BY DEF NamesSound, NamesUnique
  <2>1. d \in Dirs
    BY DiskTyped, Numbers DEF DirBlocks
  <2>2. Linked(b, c) \/ Linked(c, b)
    BY <2>1, LinkedLine
  <2>. QED
    BY <2>2 DEF Unique
<1>. QED
  BY <1>1, Invariance, NamesStaySound, HiddenStaysUsers, PTL DEF EntriesSound

-----------------------------------------------------------------------------
(* Whatever is closed under the links and the entries, and contains what a *)
(* call holds, has every cluster in use.                                   *)
AllIn(S) == \A c \in Cluster : fat[c] # Free => c \in S
AllReached == \A c \in Cluster : fat[c] # Free => Reached(Held, c)

LEMMA CoveredBy ==
  ASSUME AllReached, NEW S \in SUBSET Dirs, Held \subseteq S, Grown(S)
  PROVE  AllIn(S)
BY DEF AllReached, AllIn, Reached

LEMMA HeldIs ==
  /\ Root \in Held
  /\ pc \notin Building \cup {"free"} => Held = {Root}
  /\ pc = "free" => Held = {Root, op.cur}
  /\ pc \in Building \ {"link"} => Held = {Root, op.first}
  /\ pc = "link" => Held = {Root, op.first, op.cl}
BY DEF Held, Building

LEMMA NextHeldIs ==
  /\ Root \in Held'
  /\ pc' \notin Building \cup {"free"} => Held' = {Root}
  /\ pc' = "free" => Held' = {Root, op'.cur}
  /\ pc' \in Building \ {"link"} => Held' = {Root, op'.first}
  /\ pc' = "link" => Held' = {Root, op'.first, op'.cl}
BY DEF Held, Building

(* A set closed after a step was so before, but for what the step took out *)
(* of it.                                                                  *)
LEMMA GrownBack ==
  ASSUME NEW S, NEW T, T \subseteq S, Grown(T)',
         \A c \in S \cap Cluster : fat[c] \in Cluster =>
            fat[c] \in S \/ (c \in T /\ fat'[c] = fat[c]),
         \A b \in S \cap DirBlocks : \A i \in SlotsOf(b) : Live(b, i) =>
            dirs[b][i].first \in S \/ (b \in T /\ Live(b, i)' /\ dirs'[b][i].first = dirs[b][i].first)
  PROVE  Grown(S)
<1>1. ASSUME NEW c \in S, c \in Cluster, fat[c] \in Cluster PROVE fat[c] \in S
  BY <1>1 DEF Grown
<1>2. ASSUME NEW c \in S, c \in DirBlocks, NEW i \in SlotsOf(c), Live(c, i)
      PROVE  dirs[c][i].first \in S
  <2>1. CASE c \in T /\ Live(c, i)' /\ dirs'[c][i].first = dirs[c][i].first
    BY <2>1 DEF Grown, Live, Used
  <2>. QED
    BY <1>2, <2>1
<1>. QED
  BY <1>1, <1>2 DEF Grown

(* A step that leaves the disk alone.                                      *)
LEMMA QuietCover ==
  ASSUME AllReached, UNCHANGED <<fat, dirs, dirSet>>, NEW S \in SUBSET Dirs, Grown(S)',
         Held \subseteq S,
         \A b \in DirBlocks : \A i \in SlotsOf(b) :
            Live(b, i) => Live(b, i)' \/ dirs[b][i].first \in S
  PROVE  AllIn(S)'
<1>1. Grown(S)
  BY GrownBack
<1>2. AllIn(S)
  BY <1>1, CoveredBy
<1>. QED
  BY <1>2 DEF AllIn

LEMMA CoverLookUp ==
  ASSUME IInv, NEW own \in Owners, Volume(own), Reliable, AllReached,
         \/ Calls \/ FindHit \/ FindEnd \/ FindOn \/ FindNone \/ SlotHit \/ SlotOn \/ SlotNone
         \/ ExtendWalk \/ ExtendFails,
         NEW S \in SUBSET Dirs, Held' \subseteq S, Grown(S)'
  PROVE  AllIn(S)'
<1>1. InCall(own) /\ op \in Locals /\ Root \in S
  BY ReadsTyped, NextHeldIs DEF Volume, IInv
<1>2. UNCHANGED <<fat, dirs, dirSet>>
  BY Zenon DEF Calls, WriteFile, WriteUsers, DeleteFile, Mkdir, Cd, CdUp, Call, disk,
         FindHit, FindEnd, FindOn, FindNone, SlotHit, SlotOn, SlotNone, ExtendWalk, ExtendFails
<1>3. pc \in {"idle", "find", "slot", "extend"} /\ op.found # "hit"
  <2>1. pc \in {"idle", "find", "slot", "extend"}
    BY Zenon DEF Calls, WriteFile, WriteUsers, DeleteFile, Mkdir, Cd, CdUp, Call, Searching, Extends,
         FindHit, FindEnd, FindOn, FindNone, SlotHit, SlotOn, SlotNone, ExtendWalk, ExtendFails
  <2>. QED
    BY <1>1, <2>1 DEF InCall, Searches, OldChain, Searching, Extends
<1>4. Held = {Root}
  BY <1>3, HeldIs DEF Building
<1>5. SUFFICES \A b \in DirBlocks : \A i \in SlotsOf(b) :
                 Live(b, i) => Live(b, i)' \/ dirs[b][i].first \in S
  BY <1>1, <1>2, <1>4, QuietCover
<1>6. CASE FindHit /\ op.kind = "write"
  <2>1. /\ pc' = "free"
        /\ op' = [op EXCEPT !.found = "hit", !.blk = op.at, !.idx = FirstStop,
                            !.old = Found.first, !.cur = Found.first]
    BY <1>6 DEF FindHit, Goto
  <2>2. op'.blk = op.at /\ op'.idx = FirstStop /\ op'.cur = Found.first
    BY <1>1, <2>1 DEF Locals
  <2>3. Found.first \in S
    BY <2>1, <2>2, NextHeldIs
  <2>. QED
    BY <1>2, <2>2, <2>3 DEF Live, Used, Vacated, Found, DirBlocks
<1>7. CASE ~(FindHit /\ op.kind = "write")
  <2>1. op'.found # "hit" \/ op'.kind # "write"
    <3>1. CASE Return \/ (\E causes : Abandon(causes))
      BY <3>1 DEF Abandon, Return, Goto, NoOp
    <3>2. ASSUME NEW o, Call(o), o.found = "none" PROVE op'.found # "hit"
      BY <3>2 DEF Call, Goto
    <3>3. CASE Calls
      <4>1. CASE CdUp
        BY <1>3, <4>1 DEF CdUp
      <4>. QED
        BY <1>7, <3>2, <3>3, <4>1, Zenon DEF Calls, WriteFile, WriteUsers, DeleteFile, Mkdir, Cd, NoOp
    <3>4. CASE FindHit
      <4>1. CASE op.kind = "delete"
        <5>1. op' = [op EXCEPT !.found = "hit", !.blk = op.at, !.idx = FirstStop,
                               !.old = Found.first, !.cur = Found.first]
          BY <3>4, <4>1 DEF FindHit, Goto
        <5>. QED
          BY <1>1, <4>1, <5>1 DEF Locals
      <4>. QED
        BY <1>7, <3>1, <3>4, <4>1 DEF FindHit
    <3>5. CASE FindEnd
      BY <1>1, <3>1, <3>5 DEF FindEnd, Goto, Locals
    <3>6. CASE FindOn \/ FindNone
      BY <1>1, <1>3, <3>1, <3>6 DEF FindOn, FindNone, Goto, Locals
    <3>7. CASE SlotHit \/ SlotOn \/ SlotNone
      BY <1>1, <1>3, <3>1, <3>7 DEF SlotHit, SlotOn, SlotNone, Goto, Locals
    <3>8. CASE ExtendWalk \/ ExtendFails
      BY <1>1, <1>3, <3>1, <3>8 DEF ExtendWalk, ExtendFails, Goto, Locals
    <3>. QED
      BY <3>3, <3>4, <3>5, <3>6, <3>7, <3>8
  <2>. QED
    BY <1>2, <2>1 DEF Live, Used, Vacated, DirBlocks
<1>. QED
  BY <1>6, <1>7

LEMMA DiskWorks == Reliable => Outcome = {"ok"} /\ ~ReadError
BY FaultAssumption DEF Reliable, Outcome, ReadError

(* The directory grows by a block that is linked before it is in use.      *)
LEMMA CoverExtend ==
  ASSUME IInv, NEW own \in Owners, Volume(own), Reliable, AllReached,
         ExtendLink \/ ExtendSeal \/ ExtendZero,
         NEW S \in SUBSET Dirs, Held' \subseteq S, Grown(S)'
  PROVE  AllIn(S)'
<1>1. InCall(own) /\ op \in Locals /\ Root \in S /\ Outcome = {"ok"}
  BY ReadsTyped, NextHeldIs, DiskWorks DEF Volume, IInv
<1>2. pc \in {"extend", "xeof", "xzero"} /\ Held = {Root} /\ op.found # "hit"
  BY <1>1, HeldIs DEF ExtendLink, ExtendSeal, ExtendZero, InCall, Searches, Searching, Extends, Building
<1>3. op'.found # "hit" /\ \A b, i : ~Vacated(b, i)
  <2>1. CASE \E causes : Abandon(causes)
    BY <1>2, <2>1 DEF Abandon, Return, Goto, NoOp, Vacated
  <2>2. CASE ~\E causes : Abandon(causes)
    <3>1. \/ \E c : op' = [op EXCEPT !.cl = c]
          \/ op' = op
          \/ op' = [op EXCEPT !.at = op.dir, !.cl = 0, !.extended = TRUE]
      BY <1>1, <2>2 DEF ExtendLink, ExtendSeal, ExtendZero, Goto
    <3>. QED
      BY <1>1, <1>2, <3>1 DEF Locals, Vacated
  <2>. QED
    BY <2>1, <2>2
<1>4. ASSUME NEW b \in DirBlocks, NEW i \in SlotsOf(b), Live(b, i), dirs'[b] = dirs[b], dirSet \subseteq dirSet'
      PROVE  Live(b, i)' /\ dirs'[b][i].first = dirs[b][i].first
  BY <1>3, <1>4 DEF Live, Used, Vacated, DirBlocks
<1>5. CASE ExtendLink
  <2>1. /\ UNCHANGED <<dirs, dirSet>> /\ SetFat(op.at, LowestOf(FreeClusters), "ok")
        /\ fat[op.at] = EOF
    BY <1>1, <1>5 DEF ExtendLink
  <2>2. \A c \in Cluster : c # op.at => fat'[c] = fat[c]
    BY <2>1, Elsewhere
  <2>3. Grown(S)
    BY <1>4, <2>1, <2>2, GrownBack, Numbers
  <2>4. AllIn(S)
    BY <1>1, <1>2, <2>3, CoveredBy
  <2>. QED
    BY <2>1, <2>2, <2>4, Numbers DEF AllIn
<1>6. CASE ExtendSeal
  <2>1. /\ UNCHANGED <<dirs, dirSet>> /\ SetFat(op.cl, EOF, "ok") /\ op.cl \in Cluster
        /\ fat[op.at] = op.cl /\ fat[op.cl] = Free /\ op.at \in DirBlocks /\ op.at # Root
    BY <1>1, <1>6 DEF ExtendSeal, IInv, CallSound, InCall, Searches, Searching, Extends
  <2>2. op.at \in Cluster /\ op.at # op.cl
    BY <2>1, DiskTyped, Numbers DEF DirBlocks
  <2>3. \A c \in Cluster : c # op.cl => fat'[c] = fat[c]
    BY <2>1, Elsewhere
  <2>4. Grown(S)
    BY <1>4, <2>1, <2>3, GrownBack, Numbers
  <2>5. AllIn(S)
    BY <1>1, <1>2, <2>4, CoveredBy
  <2>6. op.at \in S /\ op.cl \in S
    BY <2>1, <2>2, <2>4, <2>5, Numbers DEF AllIn, Grown
  <2>. QED
    BY <2>3, <2>5, <2>6 DEF AllIn
<1>7. CASE ExtendZero
  <2>1. /\ fat' = fat /\ dirSet' = dirSet \cup {op.cl} /\ op.cl \notin DirBlocks
        /\ dirs' = [dirs EXCEPT ![op.cl] = EmptyBlock(op.cl)]
    BY <1>1, <1>7, NewBlock, Numbers DEF ExtendZero, DirBlocks
  <2>2. \A b \in DirBlocks : dirs'[b] = dirs[b]
    BY <2>1, DiskTyped, Numbers DEF DirBlocks, IInv, TypeOK
  <2>3. Grown(S)
    BY <1>4, <2>1, <2>2, GrownBack
  <2>. QED
    BY <1>1, <1>2, <2>1, <2>3, CoveredBy DEF AllIn
<1>. QED
  BY <1>5, <1>6, <1>7

(* What is freed was held, and what it led to is held next.                *)
LEMMA CoverFree ==
  ASSUME IInv, NEW own \in Owners, Volume(own), Reliable, AllReached, damage' = {},
         FreeOne \/ FreeReadError \/ FreeDone,
         NEW S \in SUBSET Dirs, Held' \subseteq S, Grown(S)'
  PROVE  AllIn(S)'
<1>1. InCall(own) /\ op \in Locals /\ Root \in S /\ Outcome = {"ok"} /\ ~ReadError
  BY ReadsTyped, NextHeldIs, DiskWorks DEF Volume, IInv
<1>2. CASE FreeOne
  <2>1. /\ pc = "free" /\ pc' = "free" /\ op.cur \in Cluster /\ UNCHANGED dirs
        /\ op' = [op EXCEPT !.cur = Successor] /\ dirSet' = dirSet \ {op.cur}
        /\ SetFat(op.cur, Free, "ok")
        /\ ~(op.cur \in dirSet /\ \E i \in SlotsOf(op.cur) : dirs[op.cur][i].name \in Names)
    <3>1. PICK r \in Outcome :
            /\ SetFat(op.cur, Free, r)
            /\ dirSet' = IF r = "lost" THEN dirSet ELSE dirSet \ {op.cur}
            /\ damage' = damage
                 \cup (IF r = "lost" THEN {"stalelink"} ELSE {})
                 \cup (IF op.cur \in dirSet
                           /\ \E i \in SlotsOf(op.cur) : dirs[op.cur][i].name \in Names
                         THEN {"orphan"} ELSE {})
      BY <1>2 DEF FreeOne
    <3>2. r = "ok"
      BY <1>1, <3>1
    <3>3. ~(op.cur \in dirSet /\ \E i \in SlotsOf(op.cur) : dirs[op.cur][i].name \in Names)
      BY <3>1
    <3>. QED
      BY <1>2, <3>1, <3>2, <3>3 DEF FreeOne, Goto
  <2>2. op'.cur = Successor /\ SameCall /\ SameSlot
    BY <1>1, <2>1 DEF Locals, SameCall, SameSlot
  <2>. DEFINE T == S \cup {op.cur}
  <2>3. T \in SUBSET Dirs /\ Held \subseteq T /\ S \subseteq T /\ Successor \in S
    BY <1>1, <2>1, <2>2, HeldIs, NextHeldIs, Numbers
  <2>4. fat'[op.cur] = Free /\ \A c \in Cluster : c # op.cur => fat'[c] = fat[c]
    BY <2>1, Rewritten
  <2>5. \A c \in T \cap Cluster : fat[c] \in Cluster => fat[c] \in T \/ (c \in S /\ fat'[c] = fat[c])
    <3>1. fat[op.cur] \in Cluster => fat[op.cur] \in T
      BY <2>3 DEF Successor
    <3>. QED
      BY <2>4, <3>1
  <2>6. ASSUME NEW b \in T, b \in DirBlocks, NEW i \in SlotsOf(b), Live(b, i)
        PROVE  b \in S /\ Live(b, i)' /\ dirs'[b][i].first = dirs[b][i].first
    <3>1. b # op.cur
      BY <2>1, <2>6, Numbers DEF Live, Used, DirBlocks
    <3>2. Vacated(b, i)' <=> Vacated(b, i)
      BY <2>2, VacatedKept DEF SameVacated
    <3>. QED
      BY <2>1, <2>6, <3>1, <3>2 DEF Live, Used, DirBlocks
  <2>. HIDE DEF T
  <2>7. Grown(T)
    BY <2>3, <2>5, <2>6, GrownBack
  <2>8. AllIn(T)
    BY <2>3, <2>7, CoveredBy
  <2>. QED
    BY <2>4, <2>8 DEF AllIn, T
<1>3. CASE FreeReadError
  BY <1>1, <1>3 DEF FreeReadError
<1>4. CASE FreeDone
  <2>1. pc = "free" /\ op.cur = 0 /\ UNCHANGED <<fat, dirs, dirSet>> /\ Held = {Root}
    BY <1>4, HeldIs, Numbers DEF FreeDone, disk
  <2>2. ASSUME NEW b \in DirBlocks, NEW i \in SlotsOf(b), Live(b, i)
        PROVE  Live(b, i)'
    <3>1. CASE Return \/ Abandon({})
      BY <2>1, <2>2, <3>1 DEF Abandon, Return, Goto, NoOp, Live, Used, Vacated, DirBlocks
    <3>2. CASE op' = op
      BY <2>1, <2>2, <3>2 DEF Live, Used, Vacated, DirBlocks
    <3>. QED
      BY <1>4, <3>1, <3>2 DEF FreeDone, Goto
  <2>. QED
    BY <1>1, <2>1, <2>2, QuietCover
<1>. QED
  BY <1>2, <1>3, <1>4

(* The chain that is built is held by its first cluster, and its next      *)
(* cluster until it is linked.                                             *)
LEMMA CoverBuild ==
  ASSUME IInv, NEW own \in Owners, Volume(own), Reliable, AllReached, Built, damage' = {},
         AllocCluster \/ AllocFails \/ LinkCluster \/ WriteBlock \/ Seal \/ MkdirBlock,
         NEW S \in SUBSET Dirs, Held' \subseteq S, Grown(S)'
  PROVE  AllIn(S)'
<1>1. InCall(own) /\ op \in Locals /\ Root \in S /\ Outcome = {"ok"} /\ ~ReadError
  BY ReadsTyped, NextHeldIs, DiskWorks DEF Volume, IInv
<1>2. pc \in Building
  BY DEF AllocCluster, AllocFails, LinkCluster, WriteBlock, Seal, MkdirBlock, Building
<1>3. ASSUME SameCall, SameSlot, NEW b \in DirBlocks, NEW i \in SlotsOf(b), Live(b, i),
             dirs'[b] = dirs[b], dirSet \subseteq dirSet'
      PROVE  Live(b, i)' /\ dirs'[b][i].first = dirs[b][i].first
  <2>1. Vacated(b, i)' <=> Vacated(b, i)
    BY <1>3, VacatedKept DEF SameVacated
  <2>. QED
    BY <1>3, <2>1 DEF Live, Used, DirBlocks
<1>4. CASE AllocCluster
  <2>. DEFINE cl == LowestOf(FreeClusters)
              o == [op EXCEPT !.cl = cl, !.first = IF op.n = 0 THEN cl ELSE op.first]
  <2>1. /\ pc = "alloc" /\ op' = o /\ UNCHANGED <<dirs, dirSet>> /\ SetFat(cl, EOF, "ok")
        /\ FreeClusters # {} /\ (MoreToWrite \/ op.kind = "mkdir")
        /\ pc' = IF op.kind = "mkdir" THEN "mkblock"
                 ELSE IF op.kind = "write" /\ op.prev # 0 THEN "link" ELSE "data"
    BY <1>1, <1>4 DEF AllocCluster, Goto
  <2>2. /\ SameCall /\ SameSlot /\ op'.cl = cl
        /\ op'.first = IF op.n = 0 THEN cl ELSE op.first
    BY <1>1, <2>1 DEF Locals, SameCall, SameSlot
  <2>. HIDE DEF o
  <2>3. cl \in Cluster /\ fat[cl] = Free
    BY <2>1, FreeIsFree
  <2>. HIDE DEF cl
  <2>4. fat'[cl] = EOF /\ \A c \in Cluster : c # cl => fat'[c] = fat[c]
    BY <2>1, <2>3, Rewritten
  <2>5. Grown(S)
    BY <1>3, <2>1, <2>2, <2>3, <2>4, GrownBack, Numbers
  <2>6. op.n # 0 => op.kind = "write" /\ op.prev # 0
    <3>1. op.n # 0 => op.kind = "write" /\ op.n > 0
      BY <1>1, <2>1, FieldsTyped DEF InCall, NewChain, Fresh, MoreToWrite, Building
    <3>. SUFFICES ASSUME op.n # 0 PROVE op.prev # 0
      BY <3>1
    <3>2. PICK chain \in Chains(op.n) : chain[op.n] = op.prev
      BY <1>2, <3>1 DEF Built
    <3>. QED
      BY <3>1, <3>2, FieldsTyped, Numbers DEF Chains
  <2>7. op.n = 0 => op.first = 0
    BY <1>1, <2>1 DEF InCall, NewChain, Fresh, MoreToWrite, Building
  <2>8. Held \subseteq S /\ cl \in S
    <3>1. Held = {Root, op.first}
      BY <2>1, HeldIs DEF Building
    <3>2. CASE op.n = 0
      <4>1. op'.first = cl /\ pc' \in Building
        BY <2>1, <2>2, <3>2 DEF Building
      <4>. QED
        BY <1>1, <2>7, <3>1, <3>2, <4>1, NextHeldIs, Numbers DEF Building
    <3>3. CASE op.n # 0
      <4>1. op'.first = op.first /\ pc' = "link" /\ op'.cl = cl
        BY <1>1, <2>1, <2>2, <2>6, <3>3
      <4>. QED
        BY <1>1, <3>1, <4>1, NextHeldIs
    <3>. QED
      BY <3>2, <3>3
  <2>9. AllIn(S)
    BY <2>5, <2>8, CoveredBy
  <2>. QED
    BY <2>4, <2>8, <2>9 DEF AllIn
<1>5. CASE AllocFails
  <2>1. pc = "alloc" /\ UNCHANGED <<fat, dirs, dirSet>> /\ Held = {Root, op.first}
    BY <1>5, HeldIs DEF AllocFails, disk, Building
  <2>2. CASE op.kind = "mkdir" /\ Return
    <3>1. op.first = 0 /\ op.found # "hit"
      BY <1>1, <1>2, <2>1, <2>2 DEF InCall, NewChain, Fresh
    <3>2. \A b \in DirBlocks : \A i \in SlotsOf(b) : Live(b, i) => Live(b, i)'
      BY <2>1, <2>2 DEF Return, Goto, NoOp, Live, Used, Vacated, DirBlocks
    <3>3. Held \subseteq S
      BY <1>1, <2>1, <3>1, Numbers
    <3>. QED
      BY <2>1, <3>2, <3>3, QuietCover
  <2>3. CASE GiveUp
    <3>1. pc' = "free" /\ op'.cur = op.first /\ SameCall /\ SameSlot
      BY <1>1, <2>3 DEF GiveUp, Goto, Locals, SameCall, SameSlot
    <3>2. Held \subseteq S
      BY <1>1, <2>1, <3>1, NextHeldIs
    <3>. QED
      BY <1>3, <2>1, <3>1, <3>2, QuietCover
  <2>. QED
    BY <1>5, <2>2, <2>3 DEF AllocFails
<1>6. CASE LinkCluster
  <2>1. /\ pc = "link" /\ pc' = "data" /\ op' = op /\ UNCHANGED <<dirs, dirSet>>
        /\ SetFat(op.prev, op.cl, "ok")
    BY <1>1, <1>6 DEF LinkCluster, Goto
  <2>2. /\ op.prev \in Cluster /\ op.cl \in Cluster /\ fat[op.prev] = EOF /\ fat[op.cl] = EOF
        /\ op.cl \notin dirSet /\ op.cl # op.prev /\ op.kind = "write"
    BY <1>1, <1>2, <2>1, Numbers DEF IInv, CallSound, InCall, NewChain
  <2>3. SameCall /\ SameSlot
    BY <2>1 DEF SameCall, SameSlot
  <2>. DEFINE T == S \cup {op.cl}
  <2>4. fat'[op.prev] = op.cl /\ \A c \in Cluster : c # op.prev => fat'[c] = fat[c]
    BY <2>1, <2>2, Rewritten
  <2>5. T \in SUBSET Dirs /\ S \subseteq T /\ Held \subseteq T
    BY <1>1, <2>1, <2>2, HeldIs, NextHeldIs, Numbers DEF Building
  <2>6. \A c \in T \cap Cluster : fat[c] \in Cluster => fat[c] \in T \/ (c \in S /\ fat'[c] = fat[c])
    BY <2>2, <2>4, Numbers
  <2>7. \A b \in T \cap DirBlocks : \A i \in SlotsOf(b) : Live(b, i) =>
          dirs[b][i].first \in T \/ (b \in S /\ Live(b, i)' /\ dirs'[b][i].first = dirs[b][i].first)
    BY <1>3, <2>1, <2>2, <2>3, Numbers DEF DirBlocks
  <2>. HIDE DEF T
  <2>8. Grown(T)
    BY <2>5, <2>6, <2>7, GrownBack
  <2>9. AllIn(T)
    BY <2>5, <2>8, CoveredBy
  <2>10. op.prev \in S
    BY <2>2, <2>9, Numbers DEF AllIn, T
  <2>11. op.cl \in S
    BY <2>2, <2>4, <2>10 DEF Grown
  <2>. QED
    BY <2>2, <2>4, <2>9, <2>10, <2>11, Numbers DEF AllIn, T
<1>7. CASE WriteBlock
  <2>1. /\ pc = "data" /\ pc' = "alloc" /\ UNCHANGED <<fat, dirs, dirSet>>
        /\ op' = [op EXCEPT !.prev = op.cl, !.cl = 0, !.n = op.n + 1]
    BY <1>1, <1>7 DEF WriteBlock, BlockFailed, Goto
  <2>2. op'.first = op.first /\ SameCall /\ SameSlot
    BY <1>1, <2>1 DEF Locals, SameCall, SameSlot
  <2>3. Held \subseteq S
    BY <2>1, <2>2, HeldIs, NextHeldIs DEF Building
  <2>. QED
    BY <1>3, <2>1, <2>2, <2>3, QuietCover
<1>8. CASE Seal
  <2>1. /\ pc = "alloc" /\ pc' = "entry" /\ op' = op /\ UNCHANGED <<dirs, dirSet>>
        /\ op.kind = "write"
        /\ op.prev = 0 => fat' = fat
        /\ op.prev # 0 => SetFat(op.prev, EOF, "ok") /\ fat[op.prev] = EOF
    BY <1>1, <1>2, <1>8 DEF Seal, Goto, InCall, NewChain
  <2>2. \A c \in Cluster : fat'[c] = fat[c]
    BY <2>1, Elsewhere DEF SetFat, IInv, TypeOK
  <2>3. SameCall /\ SameSlot
    BY <2>1 DEF SameCall, SameSlot
  <2>4. Held \subseteq S
    BY <2>1, HeldIs, NextHeldIs DEF Building
  <2>5. Grown(S)
    BY <1>3, <2>1, <2>2, <2>3, GrownBack
  <2>. QED
    BY <2>2, <2>4, <2>5, CoveredBy DEF AllIn
<1>9. CASE MkdirBlock
  <2>1. /\ pc = "mkblock" /\ pc' = "entry" /\ op' = op /\ fat' = fat /\ dirSet' = dirSet \cup {op.cl}
        /\ op.cl \notin DirBlocks
        /\ \E v : dirs' = [dirs EXCEPT ![op.cl] = v]
    BY <1>1, <1>9, NewBlock, Numbers DEF MkdirBlock, Goto, DirBlocks
  <2>2. \A b \in DirBlocks : dirs'[b] = dirs[b]
    BY <2>1, DiskTyped, Numbers DEF DirBlocks, IInv, TypeOK
  <2>3. SameCall /\ SameSlot
    BY <2>1 DEF SameCall, SameSlot
  <2>4. Held \subseteq S
    BY <2>1, HeldIs, NextHeldIs DEF Building
  <2>5. Grown(S)
    BY <1>3, <2>1, <2>2, <2>3, GrownBack
  <2>. QED
    BY <2>1, <2>4, <2>5, CoveredBy DEF AllIn
<1>. QED
  BY <1>4, <1>5, <1>6, <1>7, <1>8, <1>9

(* The entry names the chain that was built, in a block that can be        *)
(* reached; the one that is deleted named the chain that is freed next.    *)
LEMMA CoverEntry ==
  ASSUME IInv, NEW own \in Owners, Volume(own), Reliable, AllReached, Placed, Led,
         SetEntry \/ MarkDeleted,
         NEW S \in SUBSET Dirs, Held' \subseteq S, Grown(S)'
  PROVE  AllIn(S)'
<1>1. /\ OnDisk(own) /\ InCall(own) /\ op \in Locals /\ Root \in S /\ Outcome = {"ok"}
      /\ op.blk \in Dirs /\ op.idx \in SlotsOf(op.blk) /\ op.dir \in Dirs
  BY ReadsTyped, FieldsTyped, NextHeldIs, DiskWorks DEF Volume, IInv
<1>2. op.blk \in DirBlocks /\ UNCHANGED <<fat, dirSet>>
  BY <1>1 DEF SetEntry, MarkDeleted, InCall, Place, Building
<1>3. ASSUME NEW e, SetSlot(op.blk, op.idx, e, "ok")
      PROVE  /\ dirs'[op.blk][op.idx] = e
             /\ \A b \in DirBlocks : \A i \in SlotsOf(b) :
                  b # op.blk \/ i # op.idx => dirs'[b][i] = dirs[b][i]
  <2>1. dirs' = [dirs EXCEPT ![op.blk][op.idx] = e]
    BY <1>3 DEF SetSlot
  <2>. QED
    BY <1>1, <2>1, DiskTyped, Numbers DEF IInv, TypeOK, DirBlocks
<1>4. CASE SetEntry
  <2>1. /\ pc = "entry" /\ Return /\ SetSlot(op.blk, op.idx, NewEntry, "ok")
    BY <1>1, <1>4 DEF SetEntry
  <2>2. ASSUME NEW b \in DirBlocks, NEW i \in SlotsOf(b), Live(b, i)
        PROVE  Live(b, i)' /\ dirs'[b][i].first = dirs[b][i].first
    <3>1. op.found = "hit" => op.kind = "write"
      BY <1>1, <2>1 DEF InCall, NewChain, Building
    <3>2. op.found # "hit" => dirs[op.blk][op.idx].name \in {"end", "deleted"}
      BY <1>1, <2>1 DEF InCall, Place, Building
    <3>3. b # op.blk \/ i # op.idx
      BY <2>2, <3>1, <3>2, Numbers DEF Live, Used, Vacated
    <3>4. dirs'[b][i] = dirs[b][i]
      BY <1>3, <2>1, <3>3
    <3>. QED
      BY <1>2, <2>1, <2>2, <3>4 DEF Live, Used, Vacated, Return, Goto, NoOp, DirBlocks
  <2>3. Grown(S)
    BY <1>2, <2>2, GrownBack
  <2>4. op.blk \in S
    <3>1. op.dir \in S
      BY <1>1, <2>1, <2>3, TrailReached DEF InCall, Asked
    <3>2. Linked(op.dir, op.blk)
      BY <1>1, <2>1 DEF Placed, InCall, NewChain, Building
    <3>3. PICK d, b : d = op.dir /\ b = op.blk
      OBVIOUS
    <3>4. d \in S /\ Linked(d, b)
      BY <3>1, <3>2, <3>3
    <3>5. Follows(S)
      BY <2>3, GrownFollows
    <3>6. b \in S
      BY <3>4, <3>5, LinkedClosed
    <3>. QED
      BY <3>3, <3>6
  <2>5. Held \subseteq S
    <3>1. Held = {Root, op.first}
      BY <2>1, HeldIs DEF Building
    <3>2. NewEntry.first = op.first /\ NewEntry.name = op.name /\ op.name \in Names
      BY <1>1, <2>1 DEF NewEntry, InCall, Asked
    <3>3. PICK b, i, s : b = op.blk /\ i = op.idx /\ s = NewEntry
      OBVIOUS
    <3>4. /\ b \in DirBlocks' /\ i \in SlotsOf(b) /\ dirs'[b][i] = s /\ b \in S
          /\ s.first = op.first /\ s.name \in Names
      BY <1>1, <1>2, <1>3, <2>1, <2>4, <3>2, <3>3 DEF DirBlocks
    <3>5. s.first # 0 => Live(b, i)'
      BY <2>1, <3>4 DEF Live, Used, Vacated, Return, Goto, NoOp
    <3>6. s.first # 0 => s.first \in S
      BY <3>4, <3>5 DEF Grown
    <3>. QED
      BY <1>1, <3>1, <3>4, <3>6, Numbers
  <2>. QED
    BY <1>2, <2>3, <2>5, CoveredBy DEF AllIn
<1>5. CASE MarkDeleted
  <2>1. /\ pc = "mark" /\ pc' = "free" /\ op' = op /\ SetSlot(op.blk, op.idx, Mark("deleted"), "ok")
    BY <1>1, <1>5 DEF MarkDeleted, Goto
  <2>2. /\ op.kind = "delete" /\ dirs[op.blk][op.idx].first = op.cur
    BY <1>1, <2>1 DEF InCall, OldChain, Place
  <2>3. op.cur \in S
    BY <2>1, NextHeldIs
  <2>4. ASSUME NEW b \in DirBlocks, NEW i \in SlotsOf(b), Live(b, i)
        PROVE  dirs[b][i].first \in S \/ (Live(b, i)' /\ dirs'[b][i].first = dirs[b][i].first)
    <3>1. CASE b # op.blk \/ i # op.idx
      <4>1. dirs'[b][i] = dirs[b][i]
        BY <1>3, <2>1, <3>1
      <4>. QED
        BY <1>2, <2>1, <2>4, <4>1 DEF Live, Used, Vacated, DirBlocks
    <3>. QED
      BY <2>2, <2>3, <3>1
  <2>5. Grown(S)
    BY <1>2, <2>4, GrownBack
  <2>6. Held \subseteq S
    BY <1>1, <2>1, HeldIs DEF Building
  <2>. QED
    BY <1>2, <2>5, <2>6, CoveredBy DEF AllIn
<1>. QED
  BY <1>4, <1>5

LEMMA CoverStep ==
  IInv /\ VolumeSound /\ WalkSound /\ FilesSound /\ Covered /\ [Next]_vars => Covered'
<1>. SUFFICES ASSUME IInv, VolumeSound, WalkSound, FilesSound, Covered, [Next]_vars,
                     Reliable, damage' = {}, NEW S \in SUBSET Dirs, Held' \subseteq S, Grown(S)',
                     NEW c \in Cluster, fat'[c] # Free
              PROVE  c \in S
  BY DEF Covered, Reached, Reliable
<1>1. CASE UNCHANGED vars
  <2>1. UNCHANGED <<fat, dirs, pc, op, dirSet, damage>>
    BY <1>1 DEF vars
  <2>2. Held' = Held /\ AllReached
    BY <2>1 DEF Held, Covered, AllReached
  <2>3. \A b, i : Live(b, i)' <=> Live(b, i)
    BY <2>1 DEF Live, Used, Vacated, DirBlocks
  <2>4. Grown(S)
    BY <2>1, <2>3 DEF Grown, DirBlocks
  <2>. QED
    BY <2>1, <2>2, <2>4, CoveredBy DEF AllIn
<1>2. CASE Next
  <2>1. Undamaged' /\ damage \subseteq damage'
    <3>1. Undamaged'
      BY DEF Undamaged
    <3>. QED
      BY <1>2, <3>1, DamageStays
  <2>2. damage = {} /\ Undamaged
    BY <2>1 DEF Undamaged
  <2>3. PICK own \in Owners : Volume(own)
    BY <2>2 DEF VolumeSound
  <2>4. AllReached /\ Placed /\ Led /\ Built
    BY <2>2 DEF Covered, AllReached, WalkSound, FilesSound
  <2>5. ~Crash
    BY DEF Crash, Reliable
  <2>6. AllIn(S)'
    BY <1>2, <2>3, <2>4, <2>5, CoverLookUp, CoverExtend, CoverFree, CoverBuild, CoverEntry
       DEF Next, Steps
  <2>. QED
    BY <2>6 DEF AllIn
<1>. QED
  BY <1>1, <1>2

(* NoLeak: with a disk that works and no reset, and unless a directory was *)
(* deleted with entries in it, every cluster in use can be reached from    *)
(* the root when no call is running.                                       *)
THEOREM NothingLeaks == Spec => []NoLeak
<1>1. Init => Covered
  BY DEF Init, Covered
<1>2. Covered => NoLeak
  BY HeldIs DEF Covered, NoLeak, Building
<1>. QED
  BY <1>1, <1>2, CoverStep, Invariance, VolumeStaysSound, WalkStaysSound, FilesStaySound, PTL DEF Spec

-----------------------------------------------------------------------------
(* What Rooted keeps depends on the entries of directories in any one set  *)
(* that the links do not lead out of.                                      *)
LEMMA ReachWithin ==
  ASSUME NEW A, NEW S \in SUBSET Dirs, Root \in S, Closed(S, A)
  PROVE  Reach(A) \subseteq S
BY DEF Reach

LEMMA ReachClosed ==
  ASSUME NEW A, \A e \in A : e.sub \in Dirs
  PROVE  Root \in Reach(A) /\ Reach(A) \subseteq Dirs /\ Closed(Reach(A), A)
BY Numbers DEF Reach, Closed

LEMMA RootedIs ==
  ASSUME NEW A, NEW e
  PROVE  e \in Rooted(A) <=> e \in A /\ e.dir \in Reach(A)
BY DEF Rooted

LEMMA SameElements ==
  ASSUME NEW A, NEW B, \A e : e \in A <=> e \in B
  PROVE  A = B
OBVIOUS

LEMMA ReachSame ==
  ASSUME NEW A, NEW B, \A e \in A : e.sub \in Dirs, NEW S \in SUBSET Dirs, Root \in S, Closed(S, A),
         \A e : e.dir \in S => (e \in A <=> e \in B)
  PROVE  Reach(A) = Reach(B)
<1>1. Reach(A) \subseteq S /\ Root \in Reach(A) /\ Reach(A) \subseteq Dirs /\ Closed(Reach(A), A)
  BY ReachWithin, ReachClosed
<1>2. Closed(Reach(A), B)
  BY <1>1 DEF Closed
<1>3. Reach(B) \subseteq Reach(A)
  BY <1>1, <1>2, ReachWithin
<1>4. ASSUME NEW T \in SUBSET Dirs, Root \in T, Closed(T, B)
      PROVE  Reach(A) \subseteq T
  <2>1. Closed(T \cap Reach(A), A)
    BY <1>1, <1>4 DEF Closed
  <2>. QED
    BY <1>1, <1>4, <2>1, ReachWithin
<1>5. Reach(A) \subseteq Reach(B)
  BY <1>1, <1>4 DEF Reach
<1>. QED
  BY <1>3, <1>5

LEMMA RootedSame ==
  ASSUME NEW A, NEW B, \A e \in A : e.sub \in Dirs, NEW S \in SUBSET Dirs, Root \in S, Closed(S, A),
         \A e : e.dir \in S => (e \in A <=> e \in B)
  PROVE  Rooted(A) = Rooted(B)
<1>1. Reach(A) = Reach(B) /\ Reach(A) \subseteq S
  BY ReachSame, ReachWithin
<1>2. \A e : e \in Rooted(A) <=> e \in Rooted(B)
  BY <1>1, RootedIs
<1>. QED
  BY <1>2, SameElements

(* Taking entries out of what the root leads to, or out of all of it.      *)
LEMMA RootedTwice ==
  ASSUME NEW A, NEW N, \A e \in A : e.sub \in Dirs
  PROVE  Rooted(Rooted(A) \ N) = Rooted(A \ N)
<1>1. Root \in Reach(A) /\ Reach(A) \in SUBSET Dirs /\ Closed(Reach(A), A \ N)
  BY ReachClosed DEF Closed
<1>2. \A e : e.dir \in Reach(A) => (e \in A \ N <=> e \in Rooted(A) \ N)
  BY RootedIs
<1>3. \A e \in A \ N : e.sub \in Dirs
  OBVIOUS
<1>. QED
  BY <1>1, <1>2, <1>3, RootedSame

(* An entry for a file, or for a directory with nothing in it.             *)
LEMMA RootedMore ==
  ASSUME NEW A, \A e \in A : e.sub \in Dirs, NEW f, f.dir \in Reach(A), f.sub \in Dirs,
         f.sub = Root \/ \A e \in A : e.dir # f.sub
  PROVE  Rooted(A \cup {f}) = Rooted(A) \cup {f}
<1>1. /\ Root \in Reach(A) /\ Reach(A) \in SUBSET Dirs /\ Closed(Reach(A), A)
      /\ Root \in Reach(A \cup {f}) /\ Reach(A \cup {f}) \in SUBSET Dirs
      /\ Closed(Reach(A \cup {f}), A \cup {f})
  BY ReachClosed
<1>2. Closed(Reach(A \cup {f}), A)
  BY <1>1 DEF Closed
<1>3. Reach(A) \subseteq Reach(A \cup {f})
  BY <1>1, <1>2, ReachWithin
<1>4. Closed(Reach(A) \cup {f.sub}, A \cup {f})
  BY <1>1 DEF Closed
<1>5. Reach(A \cup {f}) \subseteq Reach(A) \cup {f.sub}
  BY <1>1, <1>4, ReachWithin
<1>6. ASSUME NEW e, e \in Rooted(A \cup {f})
      PROVE  e \in Rooted(A) \cup {f}
  <2>1. e \in A \cup {f} /\ e.dir \in Reach(A) \cup {f.sub}
    BY <1>5, <1>6, RootedIs
  <2>2. e # f => e.dir \in Reach(A)
    BY <1>1, <2>1
  <2>3. e # f => e \in Rooted(A)
    BY <2>1, <2>2, RootedIs
  <2>. QED
    BY <2>3
<1>7. ASSUME NEW e, e \in Rooted(A) \cup {f}
      PROVE  e \in Rooted(A \cup {f})
  BY <1>3, <1>7, RootedIs
<1>. QED
  BY <1>6, <1>7, SameElements

LEMMA SameTrees == \A T : Promise!Rooted(T) = Rooted(T)
BY DEF Promise!Rooted, Promise!Reach, Promise!Closed, Rooted, Reach, Closed

-----------------------------------------------------------------------------
(* The slot (b, i) lists x in the directory d.                             *)
At(x, d, b, i) == /\ d \in DirBlocks /\ b \in DirBlocks /\ i \in SlotsOf(b) /\ Linked(d, b)
                  /\ Shown(b, i) /\ x = EntryOf(d, dirs[b][i])

LEMMA ListingIs ==
  ASSUME NEW d, NEW b, NEW x
  PROVE  x \in Listing(d, b) <=> \E i \in SlotsOf(b) : Shown(b, i) /\ x = EntryOf(d, dirs[b][i])
BY DEF Listing

LEMMA ListedIs == \A x : x \in Listed <=> \E d, b, i : At(x, d, b, i)
<1>1. \A x : x \in Listed <=> \E d, b \in DirBlocks : Linked(d, b) /\ x \in Listing(d, b)
  BY DEF Listed
<1>. QED
  BY <1>1, ListingIs DEF At

LEMMA NextListingIs ==
  ASSUME NEW d, NEW b, NEW x
  PROVE  x \in Listing(d, b)' <=> \E i \in SlotsOf(b) : Shown(b, i)' /\ x = EntryOf(d, dirs[b][i])'
BY DEF Listing

LEMMA NextListedIs == \A x : x \in Listed' <=> \E d, b, i : At(x, d, b, i)'
<1>1. \A x : x \in Listed' <=> \E d, b \in DirBlocks' : Linked(d, b)' /\ x \in Listing(d, b)'
  BY DEF Listed
<1>. QED
  BY <1>1, NextListingIs DEF At

LEMMA TreeIs == /\ Tree = IF Working THEN Rooted(Listed) ELSE {}
                /\ Tree' = IF Working' THEN Rooted(Listed') ELSE {}
<1>1. \A A : UNION {Rooted(T) : T \in {A}} = Rooted(A)
  <2>. SUFFICES ASSUME NEW A PROVE UNION {Rooted(T) : T \in {A}} = Rooted(A)
    OBVIOUS
  <2>1. \A e : e \in UNION {Rooted(T) : T \in {A}} <=> e \in Rooted(A)
    OBVIOUS
  <2>. QED
    BY <2>1, SameElements
<1>2. Rooted(Listed)' = Rooted(Listed')
  BY DEF Rooted, Reach, Closed
<1>. QED
  BY <1>1, <1>2 DEF Tree

(* Directories are known by the heads of their chains.                     *)
Homes == {d \in Dirs : d = Root \/ Unpointed(d)}

LEMMA EntryFields ==
  ASSUME NEW d, NEW s
  PROVE  /\ EntryOf(d, s).dir = d /\ EntryOf(d, s).name = s.name
         /\ s.dir => EntryOf(d, s).sub = s.first
         /\ ~s.dir => EntryOf(d, s).sub = Root
BY DEF EntryOf

(* A slot that is shown although its name is being overwritten.            *)
LEMMA NotYetGiven ==
  ASSUME IInv, NEW own \in Owners, Volume(own), NEW b \in DirBlocks, NEW i \in SlotsOf(b),
         Shown(b, i), Vacated(b, i)
  PROVE  /\ pc \in Building \cup {"free"} /\ dirs[b][i].first = op.old
         /\ op.old \in Cluster => /\ pc = "free" /\ ~op.failed /\ op.cur = op.old
                                  /\ NamesChain(dirs[b][i], b, own)
<1>1. /\ InCall(own) /\ op.kind = "write" /\ op.found = "hit" /\ b = op.blk /\ i = op.idx
      /\ ~OverwriteOpen
  BY DEF Volume, Vacated, Shown, GivenUp
<1>2. pc \in Building \cup {"free"}
  <2>1. pc # "idle" /\ pc # "mark" /\ pc \notin Searching
    BY <1>1 DEF InCall, OldChain, Searches
  <2>2. pc \in {"idle"} \cup BusySteps
    BY DEF IInv, TypeOK
  <2>. QED
    BY <2>1, <2>2 DEF BusySteps, Searching, Extends, Building
<1>3. dirs[b][i].first = op.old
  BY <1>1, <1>2 DEF InCall, Place
<1>4. op.old \in Cluster => pc = "free" /\ ~op.failed /\ op.cur = op.old
  BY <1>1 DEF OverwriteOpen
<1>. QED
  BY <1>1, <1>2, <1>3, <1>4 DEF InCall, OldChain

(* The entries of directories name heads of chains.                        *)
LEMMA SubIsHome ==
  ASSUME IInv, NEW own \in Owners, Volume(own), NEW b \in DirBlocks, NEW i \in SlotsOf(b),
         Shown(b, i), dirs[b][i].dir
  PROVE  /\ dirs[b][i].first \in dirSet /\ dirs[b][i].first \in Cluster
         /\ Unpointed(dirs[b][i].first)
<1>1. /\ OnDisk(own) /\ b \in Dirs /\ dirs[b][i].first \in Dirs /\ dirs[b][i].first # 0
      /\ dirs[b][i].name \in Names
  BY DiskTyped, Numbers DEF Volume, OnDisk, Headed, Shown, DirBlocks
<1>2. dirs[b][i].first \in Cluster
  BY <1>1, Numbers
<1>3. CASE Vacated(b, i)
  BY <1>2, <1>3, NotYetGiven DEF NamesChain
<1>4. CASE ~Vacated(b, i)
  <2>1. Live(b, i)
    BY <1>1, <1>4 DEF Live, Used
  <2>. QED
    BY <1>1, <1>2, <2>1 DEF OnDisk, Named, NamesChain
<1>. QED
  BY <1>3, <1>4

LEMMA ListedFacts ==
  ASSUME IInv, NEW own \in Owners, Volume(own), NEW x \in Listed
  PROVE  x.sub \in Homes \cap DirBlocks /\ x.dir \in DirBlocks /\ x.sub \in Dirs
<1>1. PICK d, b, i : At(x, d, b, i)
  BY ListedIs
<1>2. dirs[b][i].dir => dirs[b][i].first \in dirSet /\ Unpointed(dirs[b][i].first)
  BY <1>1, SubIsHome DEF At
<1>. QED
  BY <1>1, <1>2, EntryFields, Numbers, DiskTyped DEF At, Homes, DirBlocks

(* A block is in one directory, and a name in it once.                     *)
LEMMA OneHome ==
  ASSUME IInv, NEW own \in Owners, OnDisk(own), NEW d \in Homes, NEW c \in Homes, NEW b,
         Linked(d, b), Linked(c, b)
  PROVE  d = c
<1>1. d \in Dirs /\ (d = Root \/ Unpointed(d)) /\ c \in Dirs /\ (c = Root \/ Unpointed(c))
  BY DEF Homes
<1>2. Linked(d, c)
  BY <1>1, LinkedBack
<1>. QED
  BY <1>1, <1>2, NothingBefore DEF Before

LEMMA OneSlot ==
  ASSUME IInv, Unique, NEW d \in Dirs, NEW b \in DirBlocks, NEW c \in DirBlocks, Linked(d, b), Linked(d, c),
         NEW i \in SlotsOf(b), NEW j \in SlotsOf(c), dirs[b][i].name \in Names,
         dirs[c][j].name = dirs[b][i].name
  PROVE  b = c /\ i = j
<1>1. Linked(b, c) \/ Linked(c, b)
  BY LinkedLine
<1>. QED
  BY <1>1 DEF Unique

-----------------------------------------------------------------------------
(* What is shown after a step that fills no slot was shown before.         *)
LEMMA ShownBack ==
  ASSUME IInv, NEW own \in Owners, Volume(own), Undamaged', Next, ~SetEntry,
         NEW b \in DirBlocks', NEW i \in SlotsOf(b), Shown(b, i)'
  PROVE  b \in DirBlocks /\ dirs'[b][i] = dirs[b][i] /\ Shown(b, i)
<1>1. dirs'[b][i].name \in Names /\ ~GivenUp(b, i)'
  BY DEF Shown
<1>2. b \in DirBlocks /\ dirs'[b][i] = dirs[b][i]
  BY <1>1, NameCameFrom
<1>3. ~GivenUp(b, i)
  BY <1>1, GivenUpStays DEF GivenUp
<1>. QED
  BY <1>1, <1>2, <1>3 DEF Shown

LEMMA ShownOn ==
  ASSUME IInv, NEW own \in Owners, Volume(own), Undamaged', Next, ~SetEntry, ~MarkDeleted,
         NEW b \in DirBlocks, FreeOne => b # op.cur, NEW i \in SlotsOf(b), Shown(b, i), ~GivenUp(b, i)'
  PROVE  b \in DirBlocks' /\ dirs'[b][i] = dirs[b][i] /\ Shown(b, i)'
<1>1. b \in DirBlocks'
  BY SameLinksSteps, NewBlock, FreedBlock DEF SameLinks, DirBlocks
<1>2. CASE IsTarget(b, i)
  <2>1. ~ExtendZero /\ ~MkdirBlock
    BY <1>2, FieldsTyped DEF ExtendZero, MkdirBlock, Volume, InCall, Searches, Searching, Extends, NewChain,
         Building, IsTarget
  <2>. QED
    BY <2>1, <1>1, Zenon DEF Shown, Next, Steps, Calls, WriteFile, WriteUsers, DeleteFile, Mkdir, Cd, CdUp, Call,
         FindHit, FindEnd, FindOn, FindNone, SlotHit, SlotOn, SlotNone, ExtendWalk,
         ExtendLink, ExtendFails, ExtendSeal, FreeOne, FreeReadError, FreeDone, AllocCluster, AllocFails,
         LinkCluster, WriteBlock, Seal, Crash, disk
<1>3. CASE ~IsTarget(b, i)
  BY <1>1, <1>3, EntryKept DEF Shown
<1>. QED
  BY <1>2, <1>3

(* The contents of a file do not change while its slot does not.           *)
LEMMA EntrySame ==
  ASSUME IInv, NEW own \in Owners, Volume(own), Filed, Built, Next, Undamaged',
         NEW b \in DirBlocks, NEW i \in SlotsOf(b), Shown(b, i), Shown(b, i)', dirs'[b][i] = dirs[b][i]
  PROVE  \A d : EntryOf(d, dirs[b][i])' = EntryOf(d, dirs[b][i])
<1>. DEFINE s == dirs[b][i]
<1>1. s \in Slot
  BY ReadsTyped, DiskTyped, Numbers DEF IInv, DirBlocks
<1>2. CASE s.dir \/ s.len = 0
  BY <1>2 DEF EntryOf
<1>3. CASE ~s.dir /\ s.len # 0
  <2>1. IsFile(b, i) /\ ~GivenUp(b, i) /\ ~GivenUp(b, i)'
    BY <1>3 DEF IsFile, Shown
  <2>2. data'[s.first] = data[s.first]
    <3>1. CASE SetEntry
      BY <3>1 DEF SetEntry
    <3>2. CASE ~SetEntry
      <4>1. s.len \in Nat \ {0}
        BY <1>1, <1>3 DEF Slot
      <4>2. PICK chain \in Chains(s.len), v \in Data : Stores(s, chain, v) /\ Apart(chain)
        BY <1>3, <2>1 DEF Filed
      <4>3. \A k \in 1 .. s.len : SameCluster(chain[k])
        BY <2>1, <3>2, <4>1, <4>2, ChainKept
      <4>. QED
        BY <4>1, <4>2, <4>3 DEF Stores, SameCluster
    <3>. QED
      BY <3>1, <3>2
  <2>. QED
    BY <1>3, <2>2 DEF EntryOf
<1>. QED
  BY <1>2, <1>3

LEMMA FreedApart ==
  ASSUME IInv, NEW own \in Owners, Volume(own), Undamaged', FreeOne,
         NEW d \in Dirs, d # op.cur, NEW b, Linked(d, b)
  PROVE  b # op.cur
BY FreedBlock, LastLink, DiskTyped DEF Unpointed

LEMMA AtBack ==
  ASSUME IInv, NEW own \in Owners, Volume(own), Filed, Built, Next, Undamaged', ~SetEntry,
         DirBlocks' \subseteq Dirs, NEW x, NEW d, NEW b, NEW i, At(x, d, b, i)'
  PROVE  At(x, d, b, i)
<1>1. /\ d \in DirBlocks' /\ b \in DirBlocks' /\ i \in SlotsOf(b) /\ Linked(d, b)' /\ Shown(b, i)'
      /\ x = EntryOf(d, dirs[b][i])'
  BY DEF At
<1>2. b \in DirBlocks /\ dirs'[b][i] = dirs[b][i] /\ Shown(b, i)
  BY <1>1, ShownBack
<1>3. Linked(d, b) /\ d \in Dirs
  BY <1>1, <1>2, OldLink
<1>4. d \in DirBlocks
  BY <1>2, <1>3, LinkedBlock DEF DirBlocks
<1>. QED
  BY <1>1, <1>2, <1>3, <1>4, EntrySame DEF At

LEMMA AtOn ==
  ASSUME IInv, NEW own \in Owners, Volume(own), Filed, Built, Next, Undamaged', ~SetEntry, ~MarkDeleted,
         NEW x, NEW d, FreeOne => d # op.cur, NEW b, NEW i, At(x, d, b, i), ~GivenUp(b, i)'
  PROVE  At(x, d, b, i)'
<1>1. /\ d \in DirBlocks /\ b \in DirBlocks /\ i \in SlotsOf(b) /\ Linked(d, b) /\ Shown(b, i)
      /\ x = EntryOf(d, dirs[b][i]) /\ d \in Dirs
  BY DiskTyped, Numbers DEF At, DirBlocks
<1>2. FreeOne => b # op.cur
  BY <1>1, FreedApart
<1>3. b \in DirBlocks' /\ dirs'[b][i] = dirs[b][i] /\ Shown(b, i)'
  BY <1>1, <1>2, ShownOn
<1>4. d \in DirBlocks' /\ Linked(d, b)'
  BY <1>1, LinksKept, SameLinksSteps, NewBlock, FreedBlock DEF SameLinks, DirBlocks
<1>. QED
  BY <1>1, <1>3, <1>4, EntrySame DEF At

(* A directory whose chain is being freed is no longer named.              *)
LEMMA NamedNotFreed ==
  ASSUME IInv, NEW own \in Owners, Volume(own), Undamaged', FreeOne, NEW b \in DirBlocks, NEW i \in SlotsOf(b),
         Shown(b, i), ~GivenUp(b, i)', dirs[b][i].dir
  PROVE  dirs[b][i].first # op.cur
<1>1. op.cur \in Cluster /\ Unpointed(op.cur) /\ Unnamed(op.cur) /\ pc = "free" /\ pc' = "free"
  BY FreedBlock
<1>2. CASE ~Vacated(b, i)
  <2>1. Live(b, i) /\ b \in Dirs
    BY <1>2, DiskTyped, Numbers DEF Live, Used, Shown, Volume, OnDisk, Headed, DirBlocks
  <2>. QED
    BY <1>1, <2>1 DEF Unnamed, Heads
<1>3. CASE Vacated(b, i)
  <2>. SUFFICES ASSUME dirs[b][i].first = op.cur PROVE FALSE
    OBVIOUS
  <2>1. op.cur = op.old /\ ~op.failed
    BY <1>1, <1>3, NotYetGiven
  <2>2. /\ op'.kind = op.kind /\ op'.found = op.found /\ op'.old = op.old /\ op'.blk = op.blk
        /\ op'.idx = op.idx /\ op'.cur = Successor
    BY ReadsTyped DEF FreeOne, Goto, Locals, IInv
  <2>3. Successor # op.cur
    BY <1>1, Numbers DEF Successor, Unpointed
  <2>. QED
    BY <1>1, <1>3, <2>1, <2>2, <2>3 DEF Vacated, GivenUp, OverwriteOpen
<1>. QED
  BY <1>2, <1>3

-----------------------------------------------------------------------------
(* The entries that a step leaves: what the root leads to is what it led   *)
(* to without the names that the step gives up (N).                        *)
LEMMA TreeStep ==
  ASSUME IInv, NEW own \in Owners, Volume(own), Filed, Built, Next, Undamaged', ~SetEntry, ~MarkDeleted,
         DirBlocks' \subseteq Dirs, NEW N,
         \A x, d, b, i : At(x, d, b, i) /\ d \in Homes => (x \in N <=> GivenUp(b, i)')
  PROVE  Rooted(Listed') = Rooted(Listed \ N)
<1>. DEFINE S == {d \in Homes : FreeOne => d # op.cur}
            A == Listed \ N
<1>1. S \in SUBSET Dirs /\ Root \in S
  BY FreedBlock, Numbers DEF Homes
<1>2. \A x \in A : x.sub \in Dirs
  BY ListedFacts
<1>3. ASSUME NEW x \in A, x.dir \in S PROVE x.sub \in S
  <2>1. PICK d, b, i : At(x, d, b, i)
    BY ListedIs
  <2>2. d \in Homes /\ ~GivenUp(b, i)'
    BY <1>3, <2>1, EntryFields DEF At
  <2>3. x.sub \in Homes
    BY ListedFacts
  <2>4. FreeOne => x.sub # op.cur
    BY <2>1, <2>2, NamedNotFreed, EntryFields, FreedBlock, Numbers DEF At
  <2>. QED
    BY <2>3, <2>4
<1>4. ASSUME NEW x, x.dir \in S, x \in A PROVE x \in Listed'
  <2>1. PICK d, b, i : At(x, d, b, i)
    BY <1>4, ListedIs
  <2>2. d = x.dir /\ ~GivenUp(b, i)'
    BY <1>4, <2>1, EntryFields DEF At
  <2>3. At(x, d, b, i)'
    BY <1>4, <2>1, <2>2, AtOn
  <2>. QED
    BY <2>3, NextListedIs
<1>5. ASSUME NEW x, x.dir \in S, x \in Listed' PROVE x \in A
  <2>1. PICK d, b, i : At(x, d, b, i)'
    BY <1>5, NextListedIs
  <2>2. At(x, d, b, i)
    BY <2>1, AtBack
  <2>3. d = x.dir /\ ~GivenUp(b, i)'
    BY <2>1, <2>2, EntryFields DEF At, Shown
  <2>. QED
    BY <1>5, <2>2, <2>3, ListedIs
<1>6. Closed(S, A)
  BY <1>3 DEF Closed
<1>7. \A x : x.dir \in S => (x \in A <=> x \in Listed')
  BY <1>4, <1>5
<1>. HIDE DEF S, A
<1>8. Rooted(A) = Rooted(Listed')
  BY <1>1, <1>2, <1>6, <1>7, RootedSame
<1>. QED
  BY <1>8 DEF A

LEMMA NextDirBlocks == IInv' => DirBlocks' \subseteq Dirs
<1>1. IInv => DirBlocks \subseteq Dirs
  BY DiskTyped, Numbers DEF DirBlocks
<1>2. IInv' => dirSet' \subseteq Cluster
  BY DEF IInv, TypeOK
<1>. QED
  BY <1>2, Numbers DEF DirBlocks

LEMMA TreeQuiet ==
  ASSUME IInv, IInv', NEW own \in Owners, Volume(own), Filed, Built, Next, Undamaged', ~SetEntry, ~MarkDeleted,
         OverwriteOpen' => OverwriteOpen
  PROVE  Rooted(Listed') = Rooted(Listed)
<1>1. ASSUME NEW x, NEW d, NEW b, NEW i, At(x, d, b, i) PROVE ~GivenUp(b, i)'
  BY <1>1, GivenUpStays DEF At, Shown, GivenUp
<1>2. Rooted(Listed') = Rooted(Listed \ {})
  BY <1>1, TreeStep, NextDirBlocks
<1>. QED
  BY <1>2

(* The entries that have the name a call is about.                         *)
Meant == {x \in Listed : x.dir = op.dir /\ x.name = op.name}
AtTarget == /\ op.blk \in DirBlocks /\ op.idx \in SlotsOf(op.blk) /\ Linked(op.dir, op.blk)
            /\ op.dir \in Homes \cap DirBlocks /\ op.name \in Names
            /\ dirs[op.blk][op.idx].name = op.name

LEMMA MeantIs ==
  ASSUME IInv, NEW own \in Owners, Volume(own), Unique, AtTarget,
         NEW x, NEW d \in Homes, NEW b, NEW i, At(x, d, b, i)
  PROVE  x \in Meant <=> b = op.blk /\ i = op.idx
<1>1. /\ d \in DirBlocks /\ b \in DirBlocks /\ i \in SlotsOf(b) /\ Linked(d, b) /\ Shown(b, i)
      /\ x.dir = d /\ x.name = dirs[b][i].name /\ x \in Listed /\ d \in Dirs /\ OnDisk(own)
  BY ListedIs, EntryFields DEF At, Homes, Volume
<1>2. ASSUME x \in Meant PROVE b = op.blk /\ i = op.idx
  BY <1>1, <1>2, OneSlot DEF Meant, AtTarget
<1>3. ASSUME b = op.blk, i = op.idx PROVE x \in Meant
  BY <1>1, <1>3, OneHome DEF Meant, AtTarget
<1>. QED
  BY <1>2, <1>3

LEMMA TreeGiven ==
  ASSUME IInv, IInv', NEW own \in Owners, Volume(own), Filed, Built, Unique, Next, Undamaged', ~SetEntry,
         ~MarkDeleted, AtTarget, OverwriteOpen', op'.blk = op.blk, op'.idx = op.idx
  PROVE  Rooted(Listed') = Rooted(Listed \ Meant)
<1>1. \A x, d, b, i : At(x, d, b, i) /\ d \in Homes => (x \in Meant <=> GivenUp(b, i)')
  BY MeantIs DEF GivenUp
<1>. QED
  BY <1>1, TreeStep, NextDirBlocks

(* The two steps that change a slot.                                       *)
LEMMA AtElsewhere ==
  ASSUME IInv, NEW own \in Owners, Volume(own), UNCHANGED <<fat, data, dirSet>>, ~OverwriteOpen',
         NEW x, NEW d, NEW b, NEW i, dirs'[b][i] = dirs[b][i],
         ~(b = op.blk /\ i = op.idx) \/ ~OverwriteOpen
  PROVE  At(x, d, b, i)' <=> At(x, d, b, i)
<1>1. Linked(d, b)' <=> Linked(d, b)
  BY DEF Linked, Follows
<1>2. Shown(b, i)' <=> Shown(b, i)
  BY DEF Shown, GivenUp
<1>3. EntryOf(d, dirs[b][i])' = EntryOf(d, dirs[b][i])
  BY DEF EntryOf
<1>. QED
  BY <1>1, <1>2, <1>3 DEF At, DirBlocks

LEMMA TreeUnset ==
  ASSUME IInv, NEW own \in Owners, Volume(own), UNCHANGED <<fat, data, dirSet, dirs>>, ~OverwriteOpen',
         ~OverwriteOpen
  PROVE  Rooted(Listed') = Rooted(Listed)
<1>1. \A x : x \in Listed <=> x \in Listed'
  BY ListedIs, NextListedIs, AtElsewhere
<1>2. Listed = Listed'
  BY <1>1, SameElements
<1>. QED
  BY <1>2

LEMMA TreeUnnamed ==
  ASSUME IInv, NEW own \in Owners, Volume(own), Unique, AtTarget, UNCHANGED <<fat, data, dirSet>>,
         ~OverwriteOpen', dirs' = [dirs EXCEPT ![op.blk][op.idx] = Mark("deleted")]
  PROVE  Rooted(Listed') = Rooted(Listed \ Meant)
<1>. DEFINE A == Listed \ Meant
<1>1. Homes \in SUBSET Dirs /\ Root \in Homes
  BY Numbers DEF Homes
<1>2. \A x \in A : x.sub \in Dirs /\ x.sub \in Homes
  BY ListedFacts
<1>3. \A b, i : b \in DirBlocks /\ i \in SlotsOf(b) /\ ~(b = op.blk /\ i = op.idx) => dirs'[b][i] = dirs[b][i]
  BY DiskTyped, Numbers DEF IInv, TypeOK, DirBlocks
<1>4. dirs'[op.blk][op.idx].name = "deleted"
  BY ReadsTyped, FieldsTyped DEF Mark, IInv, TypeOK
<1>5. ASSUME NEW x, x.dir \in Homes, x \in A PROVE x \in Listed'
  <2>1. PICK d, b, i : At(x, d, b, i)
    BY <1>5, ListedIs
  <2>2. d \in Homes /\ b \in DirBlocks /\ i \in SlotsOf(b)
    BY <1>5, <2>1, EntryFields DEF At
  <2>3. ~(b = op.blk /\ i = op.idx)
    BY <1>5, <2>1, <2>2, MeantIs
  <2>4. At(x, d, b, i)'
    BY <1>3, <2>1, <2>2, <2>3, AtElsewhere
  <2>. QED
    BY <2>4, NextListedIs
<1>6. ASSUME NEW x, x.dir \in Homes, x \in Listed' PROVE x \in A
  <2>1. PICK d, b, i : At(x, d, b, i)'
    BY <1>6, NextListedIs
  <2>2. b \in DirBlocks /\ i \in SlotsOf(b) /\ dirs'[b][i].name \in Names
    BY <2>1 DEF At, Shown, DirBlocks
  <2>3. ~(b = op.blk /\ i = op.idx)
    BY <1>4, <2>2, Numbers
  <2>4. At(x, d, b, i)
    BY <1>3, <2>1, <2>2, <2>3, AtElsewhere
  <2>5. d \in Homes
    BY <1>6, <2>4, EntryFields DEF At
  <2>. QED
    BY <2>3, <2>4, <2>5, ListedIs, MeantIs
<1>7. Closed(Homes, A)
  BY <1>2 DEF Closed
<1>8. \A x : x.dir \in Homes => (x \in A <=> x \in Listed')
  BY <1>5, <1>6
<1>. HIDE DEF A
<1>9. Rooted(A) = Rooted(Listed')
  BY <1>1, <1>2, <1>7, <1>8, RootedSame
<1>. QED
  BY <1>9 DEF A

Filling(p, q, home, entry, N, new) ==
  /\ p \in DirBlocks /\ q \in SlotsOf(p) /\ p = op.blk /\ q = op.idx
  /\ home \in Homes \cap DirBlocks /\ home = op.dir /\ Linked(home, p) /\ op.name \in Names
  /\ entry = NewEntry /\ dirs' = [dirs EXCEPT ![p][q] = entry]
  /\ \A x, d, b, i : At(x, d, b, i) /\ d \in Homes => (x \in N <=> b = p /\ i = q)
  /\ new = EntryOf(home, entry) /\ new.sub \in Homes
  /\ home \in Reach(Listed \ N)
  /\ new.sub = Root \/ \A x \in Listed : x.dir # new.sub

LEMMA TreeSet ==
  ASSUME IInv, NEW own \in Owners, Volume(own), UNCHANGED <<fat, data, dirSet>>, ~OverwriteOpen',
         NEW p, NEW q, NEW home, NEW entry, NEW N, NEW new, Filling(p, q, home, entry, N, new)
  PROVE  Rooted(Listed') = Rooted(Listed \ N) \cup {new}
<1>. SUFFICES ASSUME
         p \in DirBlocks, q \in SlotsOf(p), p = op.blk, q = op.idx,
         home \in Homes \cap DirBlocks, home = op.dir, Linked(home, p), op.name \in Names,
         entry = NewEntry, dirs' = [dirs EXCEPT ![p][q] = entry],
         \A x, d, b, i : At(x, d, b, i) /\ d \in Homes => (x \in N <=> b = p /\ i = q),
         new = EntryOf(home, entry), new.sub \in Homes,
         home \in Reach(Listed \ N), new.sub = Root \/ \A x \in Listed : x.dir # new.sub
     PROVE  Rooted(Listed') = Rooted(Listed \ N) \cup {new}
  BY DEF Filling
<1>. DEFINE A == Listed \ N
            B == A \cup {new}
<1>1. Homes \in SUBSET Dirs /\ Root \in Homes /\ new.sub \in Dirs /\ new.dir = home /\ entry.name = op.name
  BY Numbers, EntryFields DEF Homes, NewEntry
<1>2. \A x \in A : x.sub \in Dirs /\ x.sub \in Homes
  BY ListedFacts
<1>3. \A b, i : b \in DirBlocks /\ i \in SlotsOf(b) /\ ~(b = p /\ i = q) => dirs'[b][i] = dirs[b][i]
  BY DiskTyped, Numbers DEF IInv, TypeOK, DirBlocks
<1>4. dirs'[p][q] = entry
  BY ReadsTyped, FieldsTyped DEF IInv, TypeOK
<1>5. \A d : EntryOf(d, dirs[p][q])' = EntryOf(d, entry)
  BY <1>4 DEF EntryOf
<1>6. \A d, b : Linked(d, b)' <=> Linked(d, b)
  BY DEF Linked, Follows
<1>7. ASSUME NEW x, x.dir \in Homes, x \in B PROVE x \in Listed'
  <2>1. CASE x = new
    <3>1. Shown(p, q)'
      BY <1>1, <1>4 DEF Shown, GivenUp
    <3>2. At(x, home, p, q)'
      BY <1>5, <1>6, <2>1, <3>1 DEF At, DirBlocks
    <3>. QED
      BY <3>2, NextListedIs
  <2>2. CASE x \in A
    <3>1. PICK d, b, i : At(x, d, b, i)
      BY <2>2, ListedIs
    <3>2. d \in Homes /\ b \in DirBlocks /\ i \in SlotsOf(b)
      BY <1>7, <3>1, EntryFields DEF At
    <3>3. ~(b = p /\ i = q)
      BY <2>2, <3>1, <3>2
    <3>4. At(x, d, b, i)'
      BY <1>3, <3>1, <3>2, <3>3, AtElsewhere
    <3>. QED
      BY <3>4, NextListedIs
  <2>. QED
    BY <1>7, <2>1, <2>2
<1>8. ASSUME NEW x, x.dir \in Homes, x \in Listed' PROVE x \in B
  <2>1. PICK d, b, i : At(x, d, b, i)'
    BY <1>8, NextListedIs
  <2>2. d \in DirBlocks /\ b \in DirBlocks /\ i \in SlotsOf(b) /\ Linked(d, b) /\ x = EntryOf(d, dirs[b][i])'
    BY <1>6, <2>1 DEF At, DirBlocks
  <2>3. CASE b = p /\ i = q
    <3>1. x = EntryOf(d, entry)
      BY <1>5, <2>2, <2>3
    <3>2. d \in Homes
      BY <1>8, <3>1, EntryFields
    <3>3. d = home
      BY <2>2, <2>3, <3>2, OneHome DEF Volume
    <3>. QED
      BY <3>1, <3>3
  <2>4. CASE ~(b = p /\ i = q)
    <3>1. At(x, d, b, i)
      BY <1>3, <2>1, <2>2, <2>4, AtElsewhere
    <3>2. d \in Homes
      BY <1>8, <3>1, EntryFields DEF At
    <3>. QED
      BY <2>4, <3>1, <3>2, ListedIs
  <2>. QED
    BY <2>3, <2>4
<1>9. Closed(Homes, B)
  BY <1>2 DEF Closed
<1>10. \A x : x.dir \in Homes => (x \in B <=> x \in Listed')
  BY <1>7, <1>8
<1>11. \A x \in B : x.sub \in Dirs
  BY <1>1, <1>2
<1>12. home \in Reach(A) /\ (new.sub = Root \/ \A x \in A : x.dir # new.sub)
  OBVIOUS
<1>. HIDE DEF A
<1>13. Rooted(B) = Rooted(A) \cup {new}
  BY <1>1, <1>2, <1>12, RootedMore
<1>. HIDE DEF B
<1>14. Rooted(B) = Rooted(Listed')
  BY <1>1, <1>9, <1>10, <1>11, RootedSame
<1>. QED
  BY <1>13, <1>14 DEF A

(* Each directory entered is listed in the one above it.                   *)
LEMMA TrailListed ==
  ASSUME IInv, NEW own \in Owners, OnDisk(own), Led, NEW k \in 1 .. Len(trail)
  PROVE  /\ Above(k) \in Homes \cap DirBlocks
         /\ \E x, b, i : At(x, Above(k), b, i) /\ Live(b, i) /\ x.sub = trail[k]
<1>1. /\ Len(trail) \in Nat /\ \A i \in 1 .. Len(trail) : trail[i] \in dirSet /\ NamedAbove(i, own)
      /\ \A i \in 1 .. Len(trail) : trail[i] \in Dirs
  BY DiskTyped, Numbers DEF OnDisk, Entered
<1>2. \A i \in 1 .. Len(trail) : Unpointed(trail[i])
  BY <1>1, HeadFacts DEF NamedAbove, Heads
<1>3. Above(k) \in Homes \cap DirBlocks
  <2>1. k # 1 => k - 1 \in 1 .. Len(trail)
    BY <1>1
  <2>. QED
    BY <1>1, <1>2, <2>1, Numbers DEF Above, Homes, DirBlocks
<1>4. PICK b \in DirBlocks : \E j \in SlotsOf(b) : Linked(Above(k), b) /\ Heads(trail[k], b, j)
  BY DEF Led
<1>5. PICK j \in SlotsOf(b) : Linked(Above(k), b) /\ Heads(trail[k], b, j)
  BY <1>4
<1>6. Live(b, j) /\ dirs[b][j].first = trail[k] /\ b \in Dirs /\ ~GivenUp(b, j) /\ dirs[b][j].name \in Names
  BY <1>5, DiskTyped, Numbers DEF Heads, Live, Used, Vacated, GivenUp, OverwriteOpen, DirBlocks
<1>7. dirs[b][j].dir
  BY <1>1, <1>6 DEF OnDisk, Named, NamesChain
<1>8. At(EntryOf(Above(k), dirs[b][j]), Above(k), b, j)
  BY <1>3, <1>5, <1>6 DEF At, Shown
<1>9. EntryOf(Above(k), dirs[b][j]).sub = trail[k]
  BY <1>6, <1>7, EntryFields
<1>. QED
  BY <1>3, <1>6, <1>8, <1>9

(* The current directory can be reached without the entries that a write   *)
(* or delete gives up.                                                     *)
LEMMA HereReached ==
  ASSUME IInv, NEW own \in Owners, OnDisk(own), Led, NEW N,
         \A x, d, b, i : At(x, d, b, i) /\ d \in Homes /\ Live(b, i) => x \notin N
  PROVE  cwd \in Reach(Listed \ N) /\ \A k \in 1 .. Len(trail) : trail[k] \in Reach(Listed \ N)
<1>1. \A k \in 1 .. Len(trail) : trail[k] \in Dirs
  BY DiskTyped, Numbers DEF OnDisk, Entered
<1>2. cwd \in Dirs
  BY DiskTyped
<1>3. ASSUME NEW S \in SUBSET Dirs, Root \in S, Closed(S, Listed \ N)
      PROVE  cwd \in S /\ \A k \in 1 .. Len(trail) : trail[k] \in S
  <2>1. ASSUME NEW k \in 1 .. Len(trail), Above(k) \in S PROVE trail[k] \in S
    <3>1. PICK x, b, i : At(x, Above(k), b, i) /\ Live(b, i) /\ x.sub = trail[k]
      BY TrailListed
    <3>2. Above(k) \in Homes /\ x \in Listed \ N /\ x.dir = Above(k)
      BY <3>1, TrailListed, ListedIs, EntryFields DEF At
    <3>. QED
      BY <1>3, <2>1, <3>1, <3>2 DEF Closed
  <2>. QED
    BY <1>3, <2>1, AlongTrail
<1>. QED
  BY <1>1, <1>2, <1>3 DEF Reach

-----------------------------------------------------------------------------
LEMMA LenSteps ==
  ASSUME IInv, Next
  PROVE  /\ \/ op'.n = op.n /\ op'.len = op.len
            \/ op'.n = 0
            \/ op'.n = op.n + 1 /\ op'.len = op.len /\ pc = "data"
         /\ pc' = "entry" => Seal \/ MkdirBlock
         /\ pc' = "mark" => FindHit
<1>1. op \in Locals
  BY ReadsTyped DEF IInv
<1>2. ASSUME NEW o \in Locals, NEW s, Goto(s, o), o.n = op.n, o.len = op.len, s \notin {"entry", "mark"}
      PROVE  op'.n = op.n /\ op'.len = op.len /\ pc' \notin {"entry", "mark"}
  BY <1>2 DEF Goto
<1>3. ASSUME Return PROVE op'.n = 0 /\ pc' \notin {"entry", "mark"}
  BY <1>3 DEF Return, Goto, NoOp
<1>4. CASE Calls \/ Crash
  BY <1>3, <1>4, ZenonT(30) DEF Calls, WriteFile, WriteUsers, DeleteFile, Mkdir, Cd, CdUp, Call, Crash, Goto, NoOp
<1>5. CASE FindHit
  BY <1>1, <1>3, <1>5 DEF FindHit, Goto, Locals
<1>6. CASE FindEnd \/ FindOn \/ FindNone \/ SlotHit \/ SlotOn \/ SlotNone
  BY <1>1, <1>3, <1>6 DEF FindEnd, FindOn, FindNone, SlotHit, SlotOn, SlotNone, Abandon, Goto, Locals
<1>7. CASE ExtendWalk \/ ExtendLink \/ ExtendFails \/ ExtendSeal \/ ExtendZero
  BY <1>1, <1>3, <1>7 DEF ExtendWalk, ExtendLink, ExtendFails, ExtendSeal, ExtendZero, Abandon, Goto, Locals,
     Outcome
<1>8. CASE FreeOne \/ FreeReadError \/ FreeDone
  BY <1>1, <1>3, <1>8 DEF FreeOne, FreeReadError, FreeDone, Abandon, Goto, Locals
<1>9. CASE AllocCluster
  <2>. DEFINE cl == LowestOf(FreeClusters)
              o == [op EXCEPT !.cl = cl, !.first = IF op.n = 0 THEN cl ELSE op.first]
  <2>1. op' = o /\ pc' \notin {"entry", "mark"}
    BY <1>9 DEF AllocCluster, Goto
  <2>2. o.n = op.n /\ o.len = op.len
    BY <1>1 DEF Locals
  <2>. QED
    BY <2>1, <2>2
<1>10. CASE AllocFails \/ LinkCluster \/ WriteBlock
  BY <1>1, <1>3, <1>10 DEF AllocFails, LinkCluster, WriteBlock, GiveUp, Goto, Locals
<1>11. CASE Seal \/ MkdirBlock
  BY <1>11 DEF Seal, MkdirBlock, Goto
<1>12. CASE SetEntry \/ MarkDeleted
  BY <1>3, <1>12 DEF SetEntry, MarkDeleted, Abandon, Goto
<1>. QED
  BY <1>4, <1>5, <1>6, <1>7, <1>8, <1>9, <1>10, <1>11, <1>12 DEF Next, Steps

LEMMA ReadyStep ==
  ASSUME IInv, IInv', VolumeSound, WalkSound, ReadyToChange, [Next]_vars
  PROVE  ReadyToChange'
<1>1. CASE UNCHANGED vars
  BY <1>1 DEF ReadyToChange, vars, Undamaged, Linked, Follows
<1>2. CASE Next
  <2>1. op'.n <= op'.len
    <3>1. op'.n \in Nat /\ op'.len \in Nat /\ op.n \in Nat /\ op.len \in Nat
      BY FieldsTyped DEF IInv, TypeOK
    <3>. QED
      BY <1>2, <3>1, LenSteps DEF ReadyToChange, IInv, CallSound
  <2>. SUFFICES ASSUME Undamaged'
                PROVE  /\ pc' = "entry" /\ op'.kind = "write" => op'.n = op'.len
                       /\ pc' = "entry" /\ op'.kind = "mkdir" =>
                            /\ fat'[op'.first] = EOF
                            /\ \A i \in SlotsOf(op'.first) : dirs'[op'.first][i].name \notin Names
                       /\ pc' = "mark" => Linked(op.dir, op.blk)'
    BY <2>1 DEF ReadyToChange
  <2>2. Undamaged
    BY <1>2, DamageStays
  <2>3. PICK own \in Owners : Volume(own)
    BY <2>2 DEF VolumeSound
  <2>4. CASE Seal
    BY <2>4, FieldsTyped DEF Seal, Goto, ReadyToChange
  <2>5. CASE MkdirBlock
    <3>1. /\ op.kind = "mkdir" /\ op.first = op.cl /\ fat[op.cl] = EOF /\ op.cl \in Cluster
      BY <2>3, <2>5 DEF MkdirBlock, Volume, InCall, NewChain, IInv, CallSound
    <3>2. /\ op' = op /\ pc' = "entry" /\ fat' = fat
          /\ dirs' = [dirs EXCEPT ![op.cl] = [EmptyBlock(op.cl) EXCEPT
                        ![1] = DotSlot(".", op.cl), ![2] = DotSlot("..", Parent)]]
      BY <2>5 DEF MkdirBlock, Goto, Undamaged, Outcome
    <3>3. \A i \in SlotsOf(op.cl) : dirs'[op.cl][i].name \notin Names
      <4>1. dirs'[op.cl] = [EmptyBlock(op.cl) EXCEPT
                        ![1] = DotSlot(".", op.cl), ![2] = DotSlot("..", Parent)]
        BY <3>1, <3>2, Numbers DEF IInv, TypeOK
      <4>2. dirs'[op.cl] = [i \in SlotsOf(op.cl) |-> IF i = 2 THEN DotSlot("..", Parent)
                                           ELSE IF i = 1 THEN DotSlot(".", op.cl) ELSE Mark("end")]
        BY <3>1, <4>1, Numbers DEF EmptyBlock
      <4>3. /\ DotSlot("..", Parent).name = ".." /\ DotSlot(".", op.cl).name = "."
            /\ Mark("end").name = "end"
        BY DEF DotSlot, Mark
      <4>. QED
        BY <4>2, <4>3, Numbers
    <3>. QED
      BY <3>1, <3>2, <3>3
  <2>6. CASE FindHit
    <3>. SUFFICES ASSUME pc' = "mark" PROVE Linked(op.dir, op.blk)'
      BY <2>6 DEF FindHit, Return, Goto
    <3>1. /\ pc = "find" /\ op'.dir = op.dir /\ op'.blk = op.at /\ fat' = fat /\ dirSet' = dirSet
      BY <2>6, ReadsTyped DEF FindHit, Return, Goto, Locals, disk, IInv
    <3>2. Linked(op.dir, op.at)
      BY <2>2, <3>1 DEF WalkSound, Placed, Searching
    <3>. QED
      BY <3>1, <3>2 DEF Linked, Follows
  <2>. QED
    BY <1>2, <2>4, <2>5, <2>6, LenSteps
<1>. QED
  BY <1>1, <1>2

LEMMA InitReady == Init => ReadyToChange
BY DEF Init, NoOp, ReadyToChange

(* ReadyToChange: when a call comes to its one change of the tree it has   *)
(* written all of the new file, or an empty directory, and the entry it is *)
(* about to delete is in the directory it was sought in.                   *)
THEOREM ReadyStaysSound == Spec => []ReadyToChange
BY InitReady, ReadyStep, Invariance, VolumeStaysSound, WalkStaysSound, PTL DEF Spec

-----------------------------------------------------------------------------
(* The state that FileTree sees.                                           *)
Faulty == DiskErrors \/ Crashes
SameAsk == /\ pc # "idle" /\ pc' # "idle"
           /\ op'.kind = op.kind /\ op'.dir = op.dir /\ op'.name = op.name
           /\ op'.val = op.val /\ op'.len = op.len

LEMMA SeenState ==
  ASSUME Working
  PROVE  /\ Tree = Rooted(Listed) /\ Here = cwd
         /\ pc # "idle" => /\ Calling = Running /\ Calling.kind = op.kind /\ Calling.dir = op.dir
                           /\ Calling.name = op.name /\ Calling.val = op.val /\ Calling.len = op.len
                           /\ Calling.state = Stage
         /\ pc = "idle" => Calling = NoCall
BY TreeIs DEF Here, Calling, Running

LEMMA NextSeen ==
  ASSUME Working'
  PROVE  /\ Tree' = Rooted(Listed') /\ Here' = cwd'
         /\ pc' # "idle" => Calling' = Running'
         /\ pc' = "idle" => Calling' = NoCall
BY TreeIs DEF Here, Calling, NoCall

LEMMA StutterMaps ==
  ASSUME Working, Working', Rooted(Listed') = Rooted(Listed), cwd' = cwd, SameAsk, Stage' = Stage
  PROVE  UNCHANGED Promise!vars
<1>1. Running' = Running
  BY DEF SameAsk, Running
<1>. QED
  BY <1>1, SeenState, NextSeen DEF Promise!vars, SameAsk

LEMMA NamedIs ==
  ASSUME IInv, NEW own \in Owners, Volume(own), Working, pc # "idle"
  PROVE  /\ \A e : e \in Promise!Named <=> e \in Rooted(Listed) /\ e \in Meant
         /\ Promise!Rooted(Promise!Others) = Rooted(Listed \ Meant)
<1>1. \A e : e \in Promise!Named <=> e \in Rooted(Listed) /\ e \in Meant
  BY SeenState, RootedIs DEF Promise!Named, Meant
<1>2. \A e : e \in Promise!Others <=> e \in Rooted(Listed) \ Meant
  BY <1>1, SeenState DEF Promise!Others
<1>3. Promise!Others = Rooted(Listed) \ Meant
  BY <1>2, SameElements
<1>4. \A e \in Listed : e.sub \in Dirs
  BY ListedFacts
<1>. QED
  BY <1>1, <1>3, <1>4, RootedTwice, SameTrees

LEMMA FailMaps ==
  ASSUME IInv, NEW own \in Owners, Volume(own), Working, Working', Rooted(Listed') = Rooted(Listed),
         cwd' = cwd, pc # "idle", pc' = "idle", Stage = "asked",
         op.kind = "delete" => Faulty \/ \A e \in Rooted(Listed) : e \notin Meant,
         op.kind = "cd" => Faulty \/ \A e \in Rooted(Listed) : e \in Meant => e.sub = Root
  PROVE  Promise!Next
<1>1. Promise!Fail
  BY SeenState, NextSeen, NamedIs DEF Promise!Fail, Promise!Return, Promise!NoCall, NoCall, Faulty
<1>. QED
  BY <1>1 DEF Promise!Next

(* Why a step may leave nothing promised.                                  *)
LEMMA WhyBroken ==
  ASSUME IInv, Next, Working, ~Working'
  PROVE  Faulty \/ OverwriteOpen
         \/ (FindHit /\ op.kind = "write" /\ \E i \in 1 .. Len(trail) : trail[i] = Found.first)
<1>. SUFFICES ASSUME ~Faulty, ~OverwriteOpen
              PROVE  FindHit /\ op.kind = "write" /\ \E i \in 1 .. Len(trail) : trail[i] = Found.first
  OBVIOUS
<1>1. Outcome = {"ok"} /\ ~ReadError /\ ~Crashes
  BY DEF Outcome, ReadError, Faulty
<1>2. damage' # damage /\ ~(damage' \subseteq damage \cup {"attr", "orphan"})
  BY DEF Working, Undamaged
<1>3. ASSUME NEW causes, Abandon(causes) PROVE damage' \subseteq damage \cup causes \cup {"attr"}
  BY <1>3 DEF Abandon
<1>4. ~Calls /\ ~Crash
  BY <1>1, <1>2, Zenon DEF Calls, WriteFile, WriteUsers, DeleteFile, Mkdir, Cd, CdUp, Call, Crash
<1>5. ~FindEnd /\ ~FindOn /\ ~FindNone /\ ~SlotHit /\ ~SlotOn
  BY <1>1, <1>2 DEF FindEnd, FindOn, FindNone, SlotHit, SlotOn
<1>6. ~SlotNone /\ ~ExtendFails /\ ~FreeDone
  BY <1>2, <1>3 DEF SlotNone, ExtendFails, FreeDone
<1>7. ~ExtendWalk /\ ~ExtendLink /\ ~ExtendSeal /\ ~ExtendZero
  BY <1>1, <1>2 DEF ExtendWalk, ExtendLink, ExtendSeal, ExtendZero
<1>8. ~FreeOne /\ ~FreeReadError
  BY <1>1, <1>2 DEF FreeOne, FreeReadError
<1>9. ~AllocCluster /\ ~AllocFails /\ ~LinkCluster /\ ~WriteBlock /\ ~Seal
  BY <1>1, <1>2 DEF AllocCluster, AllocFails, LinkCluster, WriteBlock, Seal
<1>10. ~MkdirBlock /\ ~SetEntry /\ ~MarkDeleted
  BY <1>1, <1>2 DEF MkdirBlock, SetEntry, MarkDeleted
<1>11. FindHit
  BY <1>4, <1>5, <1>6, <1>7, <1>8, <1>9, <1>10 DEF Next, Steps
<1>. QED
  BY <1>2, <1>11 DEF FindHit

-----------------------------------------------------------------------------
(* The look-up of a name, seen in the tree.                                *)
LEMMA HomeReached ==
  ASSUME IInv, NEW own \in Owners, Volume(own), Led, pc # "idle"
  PROVE  op.dir \in Reach(Listed) /\ op.dir \in Homes \cap DirBlocks
<1>1. cwd \in Reach(Listed \ {})
  BY HereReached DEF Volume
<1>2. Listed \ {} = Listed
  OBVIOUS
<1>3. Root \in Reach(Listed)
  BY ListedFacts, ReachClosed
<1>. QED
  BY <1>1, <1>2, <1>3, CallHome, FieldsTyped DEF Volume, InCall, Asked, Homes

LEMMA FoundIs ==
  ASSUME IInv, NEW own \in Owners, Volume(own), Placed, Led, pc = "find", Stops # {}, Found.name = op.name
  PROVE  /\ FirstStop \in SlotsOf(op.at) /\ At(EntryOf(op.dir, Found), op.dir, op.at, FirstStop)
         /\ EntryOf(op.dir, Found) \in Rooted(Listed) /\ EntryOf(op.dir, Found) \in Meant
         /\ ~OverwriteOpen /\ op.name \in Names
<1>1. /\ FirstStop \in SlotsOf(op.at) /\ Found = dirs[op.at][FirstStop] /\ op.name \in Names
      /\ op.at \in DirBlocks /\ Linked(op.dir, op.at) /\ op.found # "hit"
  BY StopIsSlot, CallHome DEF Found, Volume, InCall, Searches, Searching, Placed
<1>2. ~OverwriteOpen /\ op.dir \in DirBlocks /\ op.dir \in Reach(Listed)
  BY <1>1, HomeReached DEF OverwriteOpen
<1>3. At(EntryOf(op.dir, Found), op.dir, op.at, FirstStop)
  BY <1>1, <1>2 DEF At, Shown, GivenUp
<1>4. EntryOf(op.dir, Found) \in Listed /\ EntryOf(op.dir, Found).dir = op.dir
      /\ EntryOf(op.dir, Found).name = op.name
  BY <1>1, <1>3, ListedIs, EntryFields
<1>. QED
  BY <1>1, <1>2, <1>3, <1>4, RootedIs DEF Meant

(* No entry is meant when the name is not there, and one when it is.       *)
LEMMA NoneMeant ==
  ASSUME IInv, NEW own \in Owners, Volume(own), op.name \in Names, Absent
  PROVE  Meant = {}
<1>. SUFFICES ASSUME NEW x \in Meant PROVE FALSE
  OBVIOUS
<1>1. PICK d, b, i : At(x, d, b, i)
  BY ListedIs DEF Meant
<1>2. /\ b \in DirBlocks /\ i \in SlotsOf(b) /\ Linked(op.dir, b) /\ dirs[b][i].name = op.name
  BY <1>1, EntryFields DEF At, Meant
<1>. QED
  BY <1>2 DEF Absent, Lacks

LEMMA OneMeant ==
  ASSUME IInv, NEW own \in Owners, Volume(own), Unique, Placed, Led, pc = "find", Stops # {},
         Found.name = op.name, NEW x \in Meant
  PROVE  x = EntryOf(op.dir, Found)
<1>1. PICK d, b, i : At(x, d, b, i)
  BY ListedIs DEF Meant
<1>2. /\ d = op.dir /\ b \in DirBlocks /\ i \in SlotsOf(b) /\ Linked(op.dir, b) /\ dirs[b][i].name = op.name
      /\ x = EntryOf(op.dir, dirs[b][i])
  BY <1>1, EntryFields DEF At, Meant
<1>3. /\ op.at \in DirBlocks /\ FirstStop \in SlotsOf(op.at) /\ Linked(op.dir, op.at)
      /\ dirs[op.at][FirstStop].name = op.name /\ Found = dirs[op.at][FirstStop] /\ op.dir \in Dirs
      /\ op.name \in Names
  BY FoundIs, EntryFields, FieldsTyped DEF At, Found
<1>4. b = op.at /\ i = FirstStop
  BY <1>2, <1>3, OneSlot
<1>. QED
  BY <1>2, <1>3, <1>4

LEMMA EndSeen ==
  ASSUME IInv, NEW own \in Owners, Volume(own), pc = "find", Placed, Ended, Sought, Stops # {},
         Found.name # op.name
  PROVE  Absent
<1>1. FirstStop \in Stops /\ \A j \in Stops : FirstStop <= j
  <2>1. Stops \in SUBSET SlotsOf(op.at)
    BY DEF Stops
  <2>. QED
    BY <2>1, LowestSlot DEF FirstStop
<1>2. FirstStop \in SlotsOf(op.at) /\ dirs[op.at][FirstStop].name = "end"
  BY <1>1 DEF Stops, Found
<1>3. ASSUME NEW j \in SlotsOf(op.at) PROVE dirs[op.at][j].name # op.name
  <2>1. op.name \in Names /\ op.at \in DirBlocks /\ op.at \in Dirs
    BY CallHome, DiskTyped, Numbers DEF Volume, InCall, Searches, Searching, DirBlocks
  <2>2. CASE j < FirstStop
    <3>1. j \notin Stops
      BY <1>1, <2>2, SlotsFinite DEF Stops
    <3>. QED
      BY <3>1 DEF Stops
  <2>3. CASE j = FirstStop
    BY <1>2, <2>1, <2>3, Numbers
  <2>4. CASE FirstStop < j
    <3>1. dirs[op.at][j].name = "end"
      BY <1>2, <2>1, <2>4, LinkedOn DEF Ended
    <3>. QED
      BY <2>1, <3>1, Numbers
  <2>. QED
    BY <1>2, <2>2, <2>3, <2>4, SlotsFinite
<1>. QED
  BY <1>3, SeenAll

LEMMA BreakMaps ==
  ASSUME IInv, NEW own \in Owners, Volume(own), Placed, Led, Next, Working, ~Working'
  PROVE  Promise!Next
<1>1. /\ Tree' = {} /\ Here' = Root /\ Calling' = Promise!NoCall
  BY TreeIs DEF Here, Calling, Promise!NoCall, NoCall
<1>2. CASE Faulty
  BY <1>1, <1>2 DEF Faulty, Promise!Next, Promise!Break, Promise!Return
<1>3. CASE OverwriteOpen
  <2>1. pc # "idle" /\ Stage = "given"
    BY <1>3 DEF OverwriteOpen, Stage, Volume, InCall, OldChain
  <2>2. Calling.state = "given"
    BY <2>1, SeenState
  <2>. QED
    BY <1>1, <2>2 DEF Promise!Next, Promise!Break, Promise!Return
<1>4. CASE FindHit /\ op.kind = "write" /\ \E k \in 1 .. Len(trail) : trail[k] = Found.first
  <2>1. PICK k \in 1 .. Len(trail) : trail[k] = Found.first
    BY <1>4
  <2>2. pc = "find" /\ Stops # {} /\ Found.name = op.name
    BY <1>4 DEF FindHit
  <2>3. /\ FirstStop \in SlotsOf(op.at) /\ op.name \in Names /\ op.at \in DirBlocks /\ op.at \in Dirs
        /\ Found = dirs[op.at][FirstStop] /\ trail[k] \in dirSet /\ trail[k] \in Cluster
        /\ op.found # "hit" /\ own[op.at] = op.dir /\ op.dir \in {Root, cwd} /\ ~OverwriteOpen
    BY <2>2, FoundIs, DiskTyped, Numbers DEF Found, Volume, OnDisk, Entered, InCall, Searches, Searching,
       Asked, DirBlocks
  <2>4. Live(op.at, FirstStop)
    BY <2>1, <2>2, <2>3, Numbers DEF Live, Used, Vacated
  <2>5. Found.dir
    BY <2>1, <2>3, <2>4 DEF Volume, OnDisk, Named, NamesChain
  <2>6. op.dir # cwd
    BY <2>1, <2>3, <2>4, NotEntered DEF Volume
  <2>7. /\ EntryOf(op.dir, Found) \in Promise!Named
        /\ EntryOf(op.dir, Found).sub # Root
    BY <2>1, <2>2, <2>3, <2>5, FoundIs, NamedIs, EntryFields, Numbers
  <2>8. Calling.kind = "write" /\ Calling.state = "asked" /\ Calling.dir # Here
    BY <1>4, <2>2, <2>3, <2>6, SeenState DEF Stage
  <2>. QED
    BY <1>1, <2>7, <2>8 DEF Promise!Next, Promise!Break, Promise!Return, Promise!Asked
<1>. QED
  BY <1>2, <1>3, <1>4, WhyBroken

-----------------------------------------------------------------------------
(* Every step, seen in the tree.                                           *)
Sound(own) == Volume(own) /\ Filed /\ Built /\ Placed /\ Led /\ Unique /\ Ended /\ Sought
Maps == Promise!Next \/ UNCHANGED Promise!vars

LEMMA Goes ==
  ASSUME IInv, IInv', NEW own \in Owners, Sound(own), Working, Working', Next, ~SetEntry, ~MarkDeleted,
         SameAsk, cwd' = cwd, OverwriteOpen' <=> OverwriteOpen,
         op.kind = "delete" => (pc' = "free" <=> pc = "free")
  PROVE  Maps
<1>1. Rooted(Listed') = Rooted(Listed)
  BY TreeQuiet DEF Sound, Working
<1>2. Stage' = Stage
  BY DEF Stage, SameAsk
<1>. QED
  BY <1>1, <1>2, StutterMaps DEF Maps

LEMMA Falls ==
  ASSUME IInv, IInv', NEW own \in Owners, Sound(own), Working, Working', Next, ~SetEntry, ~MarkDeleted,
         Return, pc # "idle", cwd' = cwd, ~OverwriteOpen,
         op.kind = "delete" => pc # "free" /\ (Faulty \/ Meant = {}),
         op.kind = "cd" => Faulty \/ \A e \in Meant : e.sub = Root
  PROVE  Maps
<1>1. pc' = "idle" /\ ~OverwriteOpen'
  BY DEF Return, Goto, NoOp, OverwriteOpen
<1>2. Rooted(Listed') = Rooted(Listed)
  BY <1>1, TreeQuiet DEF Sound, Working
<1>3. Stage = "asked"
  BY DEF Stage
<1>. QED
  BY <1>1, <1>2, <1>3, FailMaps DEF Maps, Sound

LEMMA FindHitMaps ==
  ASSUME IInv, IInv', NEW own \in Owners, Sound(own), Working, Working', FindHit
  PROVE  Maps
<1>1. /\ pc = "find" /\ Stops # {} /\ Found.name = op.name /\ Next /\ ~SetEntry /\ ~MarkDeleted
      /\ op \in Locals /\ Volume(own) /\ Placed /\ Led /\ Unique
  BY ReadsTyped DEF FindHit, Next, Steps, SetEntry, MarkDeleted, IInv, Sound
<1>2. /\ op.found # "hit" /\ ~op.failed /\ ~OverwriteOpen
      /\ (op.kind # "write" => op.dir = cwd)
  BY <1>1 DEF Volume, InCall, Searches, Searching, Fresh, OverwriteOpen, Asked
<1>3. EntryOf(op.dir, Found) \in Rooted(Listed) /\ EntryOf(op.dir, Found) \in Meant
  BY <1>1, FoundIs
<1>4. CASE op.kind \in {"write", "delete"}
  <2>. DEFINE hit == [op EXCEPT !.found = "hit", !.blk = op.at, !.idx = FirstStop,
                                !.old = Found.first, !.cur = Found.first]
  <2>1. op' = hit /\ pc' = (IF op.kind = "write" THEN "free" ELSE "mark") /\ cwd' = cwd
    BY <1>4 DEF FindHit, Goto
  <2>2. /\ hit.kind = op.kind /\ hit.dir = op.dir /\ hit.name = op.name /\ hit.val = op.val
        /\ hit.len = op.len /\ hit.cur = Found.first /\ hit.old = Found.first /\ hit.failed = op.failed
    BY <1>1 DEF Locals
  <2>. HIDE DEF hit
  <2>3. ~OverwriteOpen'
    BY <1>2, <2>1, <2>2 DEF OverwriteOpen
  <2>4. SameAsk
    BY <1>1, <2>1, <2>2 DEF SameAsk
  <2>. QED
    BY <1>1, <1>2, <2>1, <2>3, <2>4, Goes
<1>5. CASE op.kind = "cd" /\ Found.dir
  <2>1. Return /\ cwd' = Found.first
    BY <1>5 DEF FindHit
  <2>2. pc' = "idle" /\ ~OverwriteOpen'
    BY <2>1 DEF Return, Goto, NoOp, OverwriteOpen
  <2>3. Rooted(Listed') = Rooted(Listed)
    BY <1>1, <2>2, TreeQuiet DEF Sound, Working
  <2>4. /\ EntryOf(op.dir, Found) \in Promise!Named /\ EntryOf(op.dir, Found).sub = Found.first
    BY <1>1, <1>3, <1>5, NamedIs, EntryFields
  <2>5. Found.first # Root
    BY <1>1, FoundIs, SubIsHome, <1>5, Numbers DEF At, Found
  <2>6. Calling.kind = "cd" /\ Calling.state = "asked" /\ Calling' = Promise!NoCall /\ Here' = Found.first
        /\ Tree' = Tree
    BY <1>1, <1>2, <1>5, <2>1, <2>2, <2>3, SeenState, NextSeen DEF Stage, Promise!NoCall, NoCall
  <2>7. Promise!Enter
    BY <2>4, <2>5, <2>6 DEF Promise!Enter, Promise!Asked, Promise!Return
  <2>. QED
    BY <2>7 DEF Maps, Promise!Next
<1>6. CASE op.kind \notin {"write", "delete"} /\ ~(op.kind = "cd" /\ Found.dir)
  <2>1. Return /\ cwd' = cwd
    BY <1>6 DEF FindHit
  <2>2. op.kind = "cd" => \A e \in Meant : e.sub = Root
    BY <1>1, <1>6, OneMeant, EntryFields
  <2>. QED
    BY <1>1, <1>2, <1>6, <2>1, <2>2, Falls
<1>. QED
  BY <1>4, <1>5, <1>6

LEMMA FindMaps ==
  ASSUME IInv, IInv', NEW own \in Owners, Sound(own), Working, Working', FindEnd \/ FindOn \/ FindNone
  PROVE  Maps
<1>1. /\ pc = "find" /\ Next /\ ~SetEntry /\ ~MarkDeleted /\ op \in Locals /\ cwd' = cwd
      /\ Volume(own) /\ Placed /\ Led /\ Ended /\ Sought
  BY ReadsTyped DEF FindEnd, FindOn, FindNone, Next, Steps, SetEntry, MarkDeleted, IInv, Sound, session
<1>2. /\ op.found # "hit" /\ ~OverwriteOpen /\ op.name \in Names
  BY <1>1, CallHome DEF Volume, InCall, Searches, Searching, OverwriteOpen
<1>3. CASE Return
  <2>1. Absent
    <3>1. CASE FindEnd
      BY <1>1, <3>1, EndSeen DEF FindEnd
    <3>2. CASE FindNone
      <4>1. Stops = {} /\ ~ChainGoesOn(op.at)
        BY <3>2 DEF FindNone, Working
      <4>2. \A i \in SlotsOf(op.at) : dirs[op.at][i].name # op.name
        BY <4>1 DEF Stops
      <4>. QED
        BY <1>1, <4>1, <4>2, SeenAll
    <3>3. CASE FindOn
      BY <1>3, <3>3 DEF FindOn, Return, Goto
    <3>. QED
      BY <3>1, <3>2, <3>3
  <2>2. Meant = {}
    BY <1>1, <1>2, <2>1, NoneMeant
  <2>. QED
    BY <1>1, <1>2, <1>3, <2>2, Falls
<1>4. CASE ~Return
  <2>1. /\ pc' \in {"alloc", "find", "slot"} /\ SameAsk /\ op'.found # "hit"
        /\ (op.kind = "delete" => pc' = "find")
    BY <1>1, <1>2, <1>4 DEF FindEnd, FindOn, FindNone, Goto, SameAsk, Locals
  <2>2. OverwriteOpen' <=> OverwriteOpen
    BY <1>2, <2>1 DEF OverwriteOpen
  <2>3. op.kind = "delete" => (pc' = "free" <=> pc = "free")
    BY <1>1, <2>1
  <2>4. SameAsk
    BY <2>1
  <2>. QED
    BY <1>1, <2>2, <2>3, <2>4, Goes
<1>. QED
  BY <1>3, <1>4

LEMMA SlotMaps ==
  ASSUME IInv, IInv', NEW own \in Owners, Sound(own), Working, Working',
         \/ SlotHit \/ SlotOn \/ SlotNone
         \/ ExtendWalk \/ ExtendLink \/ ExtendFails \/ ExtendSeal \/ ExtendZero
  PROVE  Maps
<1>1. /\ pc \in Searching \ {"find"} /\ Next /\ ~SetEntry /\ ~MarkDeleted /\ op \in Locals /\ cwd' = cwd
      /\ Volume(own)
  BY ReadsTyped DEF SlotHit, SlotOn, SlotNone, ExtendWalk, ExtendLink, ExtendFails, ExtendSeal, ExtendZero,
     Next, Steps, SetEntry, MarkDeleted, IInv, Sound, session, Searching, Extends
<1>2. /\ op.found # "hit" /\ ~OverwriteOpen /\ op.kind \in {"write", "mkdir"} /\ pc # "idle"
  BY <1>1 DEF Volume, InCall, Searches, Searching, Extends, OverwriteOpen
<1>3. CASE Return
  BY <1>1, <1>2, <1>3, Falls
<1>4. CASE ~Return
  <2>0. \A causes : ~Abandon(causes)
    BY <1>4 DEF Abandon
  <2>1. SameAsk /\ op'.found # "hit"
    BY <1>1, <1>2, <2>0 DEF SlotHit, SlotOn, SlotNone, ExtendWalk, ExtendLink, ExtendFails, ExtendSeal, ExtendZero,
       Goto, SameAsk, Locals, Outcome
  <2>2. OverwriteOpen' <=> OverwriteOpen
    BY <1>2, <2>1 DEF OverwriteOpen
  <2>3. op.kind # "delete" /\ SameAsk
    BY <1>2, <2>1
  <2>. QED
    BY <1>1, <2>2, <2>3, Goes
<1>. QED
  BY <1>3, <1>4

(* The old file is given up when the first of its clusters is freed.       *)
LEMMA TargetShown ==
  ASSUME IInv, NEW own \in Owners, Volume(own), Led, AtTarget, pc # "idle", ~OverwriteOpen
  PROVE  /\ EntryOf(op.dir, dirs[op.blk][op.idx]) \in Rooted(Listed)
         /\ EntryOf(op.dir, dirs[op.blk][op.idx]) \in Meant
<1>. DEFINE x == EntryOf(op.dir, dirs[op.blk][op.idx])
<1>1. x.dir = op.dir /\ x.name = op.name
  BY EntryFields DEF AtTarget
<1>. HIDE DEF x
<1>2. At(EntryOf(op.dir, dirs[op.blk][op.idx]), op.dir, op.blk, op.idx)
  BY DEF At, AtTarget, Shown, GivenUp
<1>3. x \in Listed
  BY <1>2, ListedIs DEF x
<1>4. x \in Meant /\ x \in Rooted(Listed)
  BY <1>1, <1>3, HomeReached, RootedIs DEF Meant
<1>. QED
  BY <1>4 DEF x

LEMMA GiveMaps ==
  ASSUME IInv, IInv', NEW own \in Owners, Sound(own), Working, Working', FreeOne \/ FreeReadError,
         op.kind = "write", ~op.failed, ~OverwriteOpen, OverwriteOpen'
  PROVE  Promise!Next
<1>1. /\ pc = "free" /\ pc' = "free" /\ cwd' = cwd /\ Next /\ ~SetEntry /\ ~MarkDeleted /\ op \in Locals
      /\ Volume(own) /\ Placed /\ Led /\ Unique
  BY ReadsTyped DEF FreeOne, FreeReadError, Goto, Next, Steps, SetEntry, MarkDeleted, IInv, Sound, session
<1>2. /\ op'.kind = op.kind /\ op'.dir = op.dir /\ op'.name = op.name /\ op'.val = op.val
      /\ op'.len = op.len /\ op'.blk = op.blk /\ op'.idx = op.idx
  BY <1>1 DEF FreeOne, FreeReadError, Goto, Locals
<1>3. AtTarget
  <2>1. op.found = "hit"
    BY <1>1 DEF Volume, InCall, OldChain
  <2>2. op.blk \in DirBlocks /\ dirs[op.blk][op.idx].name = op.name
    BY <1>1, <2>1 DEF Volume, InCall, Place
  <2>3. Linked(op.dir, op.blk)
    BY <1>1 DEF Placed
  <2>. QED
    BY <1>1, <2>2, <2>3, HomeReached, CallHome, FieldsTyped DEF AtTarget
<1>4. Rooted(Listed') = Rooted(Listed \ Meant)
  BY <1>1, <1>2, <1>3, TreeGiven DEF Sound, Working
<1>5. Promise!Rooted(Promise!Others) = Rooted(Listed \ Meant) /\ Promise!Named # {}
  <2>1. EntryOf(op.dir, dirs[op.blk][op.idx]) \in Promise!Named
    BY <1>1, <1>3, TargetShown, NamedIs
  <2>. QED
    BY <1>1, <2>1, NamedIs
<1>6. Stage = "asked" /\ Stage' = "given"
  <2>1. Stage = "asked"
    BY DEF Stage
  <2>2. Stage' = "given"
    BY DEF Stage, OverwriteOpen
  <2>. QED
    BY <2>1, <2>2
<1>7. Calling.kind = "write" /\ Calling.state = "asked" /\ Tree' = Rooted(Listed') /\ Here' = Here
      /\ Calling = Running /\ Calling' = Running'
  BY <1>1, <1>6, SeenState, NextSeen
<1>8. Running' = [Running EXCEPT !.state = "given"]
  BY <1>2, <1>6 DEF Running
<1>9. Promise!GiveOld
  BY <1>4, <1>5, <1>7, <1>8 DEF Promise!GiveOld, Promise!Asked
<1>. QED
  BY <1>9 DEF Promise!Next, Working

LEMMA FreeMaps ==
  ASSUME IInv, IInv', NEW own \in Owners, Sound(own), Working, Working',
         FreeOne \/ FreeReadError \/ FreeDone
  PROVE  Maps
<1>1. /\ pc = "free" /\ cwd' = cwd /\ Next /\ ~SetEntry /\ ~MarkDeleted /\ op \in Locals /\ Volume(own)
      /\ op.kind = "write" \/ (op.kind = "delete" /\ ~op.failed)
  BY ReadsTyped DEF FreeOne, FreeReadError, FreeDone, Next, Steps, SetEntry, MarkDeleted, IInv, Sound, session,
     Volume, InCall, OldChain
<1>2. CASE FreeOne \/ FreeReadError
  <2>1. PICK c \in {Successor, 0} : op' = [op EXCEPT !.cur = c] /\ pc' = "free"
    BY <1>2 DEF FreeOne, FreeReadError, Goto
  <2>2. SameAsk /\ op'.cur = c /\ op'.found = op.found /\ op'.old = op.old /\ op'.failed = op.failed
    BY <1>1, <2>1 DEF SameAsk, Locals
  <2>3. ~op.failed /\ op.old \in Cluster => op.old # c
    <3>1. CASE c = 0
      BY <3>1, Numbers
    <3>2. CASE c = Successor /\ fat[op.cur] \in Cluster /\ op.cur \in Cluster
      BY <1>1, <3>2 DEF Successor, Volume, InCall, OldChain, Unpointed
    <3>3. CASE c = Successor /\ fat[op.cur] \notin Cluster
      BY <3>3, Numbers DEF Successor
    <3>4. CASE op.cur \notin Cluster
      BY <1>2, <3>4 DEF FreeOne, FreeReadError
    <3>. QED
      BY <3>1, <3>2, <3>3, <3>4
  <2>4. CASE OverwriteOpen' <=> OverwriteOpen
    BY <1>1, <2>1, <2>2, <2>4, Goes
  <2>5. CASE OverwriteOpen /\ ~OverwriteOpen'
    BY <1>1, <2>1, <2>2, <2>3, <2>5 DEF OverwriteOpen, SameAsk
  <2>6. CASE OverwriteOpen' /\ ~OverwriteOpen
    <3>1. op.kind = "write" /\ ~op.failed
      BY <1>1, <2>2, <2>6 DEF OverwriteOpen, SameAsk
    <3>. QED
      BY <1>2, <2>6, <3>1, GiveMaps DEF Maps
  <2>. QED
    BY <2>4, <2>5, <2>6
<1>3. CASE FreeDone /\ op.kind = "delete"
  <2>1. Return /\ ~OverwriteOpen /\ Stage = "done"
    BY <1>1, <1>3 DEF FreeDone, OverwriteOpen, Stage
  <2>2. pc' = "idle" /\ ~OverwriteOpen'
    BY <2>1 DEF Return, Goto, NoOp, OverwriteOpen
  <2>3. Rooted(Listed') = Rooted(Listed)
    BY <1>1, <2>2, TreeQuiet DEF Sound, Working
  <2>4. Calling.state = "done" /\ Calling' = Promise!NoCall /\ Here' = Here /\ Tree' = Tree
    BY <1>1, <2>1, <2>2, <2>3, SeenState, NextSeen DEF Promise!NoCall, NoCall
  <2>. QED
    BY <2>4 DEF Maps, Promise!Next, Promise!Done, Promise!Return, Working
<1>4. CASE FreeDone /\ op.kind = "write" /\ op.failed
  <2>1. Return /\ ~OverwriteOpen
    BY <1>4 DEF FreeDone, Abandon, Working, Undamaged
  <2>. QED
    BY <1>1, <1>4, <2>1, Falls
<1>5. CASE FreeDone /\ op.kind = "write" /\ ~op.failed
  <2>1. pc' = "alloc" /\ op' = op /\ op.cur = 0
    BY <1>5 DEF FreeDone, Goto
  <2>2. SameAsk /\ (OverwriteOpen' <=> OverwriteOpen)
    BY <1>1, <2>1, Numbers DEF SameAsk, OverwriteOpen
  <2>. QED
    BY <1>1, <1>5, <2>1, <2>2, Goes
<1>. QED
  BY <1>1, <1>2, <1>3, <1>4, <1>5

(* While the new file or directory is built the tree stays as it is.       *)
LEMMA BuildMaps ==
  ASSUME IInv, IInv', NEW own \in Owners, Sound(own), Working, Working',
         AllocCluster \/ AllocFails \/ LinkCluster \/ WriteBlock \/ Seal \/ MkdirBlock
  PROVE  Maps
<1>1. /\ pc \in Building /\ cwd' = cwd /\ Next /\ ~SetEntry /\ ~MarkDeleted /\ op \in Locals
      /\ op.kind \in {"write", "mkdir"}
      /\ op.kind = "mkdir" => op.found # "hit"
  BY ReadsTyped DEF AllocCluster, AllocFails, LinkCluster, WriteBlock, Seal, MkdirBlock, Next, Steps, SetEntry,
     MarkDeleted, IInv, Sound, session, Building, Volume, InCall, NewChain
<1>2. CASE Return
  <2>1. op.kind = "mkdir"
    BY <1>1, <1>2 DEF AllocCluster, AllocFails, LinkCluster, WriteBlock, Seal, MkdirBlock, Return, Goto, GiveUp
  <2>2. ~OverwriteOpen /\ pc # "idle"
    BY <1>1, <2>1 DEF OverwriteOpen, Building
  <2>. QED
    BY <1>1, <1>2, <2>1, <2>2, Falls
<1>3. CASE ~Return
  <2>1. /\ op'.kind = op.kind /\ op'.dir = op.dir /\ op'.name = op.name /\ op'.val = op.val
        /\ op'.len = op.len /\ op'.found = op.found /\ op'.old = op.old
        /\ pc' \in Building \/ (pc' = "free" /\ op'.failed)
    <3>1. CASE AllocCluster
      <4>. DEFINE cl == LowestOf(FreeClusters)
                  o == [op EXCEPT !.cl = cl, !.first = IF op.n = 0 THEN cl ELSE op.first]
      <4>1. op' = o /\ pc' \in Building
        BY <3>1 DEF AllocCluster, Goto, Building
      <4>2. /\ o.kind = op.kind /\ o.dir = op.dir /\ o.name = op.name /\ o.val = op.val
            /\ o.len = op.len /\ o.found = op.found /\ o.old = op.old
        BY <1>1 DEF Locals
      <4>. QED
        BY <4>1, <4>2
    <3>2. CASE AllocFails \/ WriteBlock
      <4>1. CASE GiveUp
        BY <1>1, <4>1 DEF GiveUp, Goto, Locals
      <4>2. CASE ~GiveUp
        <5>1. pc' = "alloc" /\ op' = [op EXCEPT !.prev = op.cl, !.cl = 0, !.n = op.n + 1]
          BY <1>3, <3>2, <4>2 DEF AllocFails, WriteBlock, Goto
        <5>. QED
          BY <1>1, <5>1 DEF Locals, Building
      <4>. QED
        BY <4>1, <4>2
    <3>3. CASE LinkCluster \/ Seal \/ MkdirBlock
      BY <1>1, <3>3 DEF LinkCluster, Seal, MkdirBlock, Goto, Building
    <3>. QED
      BY <3>1, <3>2, <3>3
  <2>2. SameAsk
    BY <1>1, <2>1 DEF SameAsk, Building
  <2>3. OverwriteOpen' <=> OverwriteOpen
    BY <1>1, <2>1 DEF OverwriteOpen, Building
  <2>. QED
    BY <1>1, <2>2, <2>3, Goes
<1>. QED
  BY <1>2, <1>3

(* The step that changes the tree for a write or mkdir.                    *)
LEMMA FillsTarget ==
  ASSUME IInv, NEW own \in Owners, Sound(own), pc = "entry"
  PROVE  /\ op.blk \in DirBlocks /\ op.idx \in SlotsOf(op.blk) /\ Linked(op.dir, op.blk)
         /\ op.dir \in Homes \cap DirBlocks /\ op.dir \in Reach(Listed \ Meant) /\ op.name \in Names
         /\ \A x, d, b, i : At(x, d, b, i) /\ d \in Homes => (x \in Meant <=> b = op.blk /\ i = op.idx)
         /\ op.kind \in {"write", "mkdir"}
         /\ op.kind = "mkdir" => Meant = {} /\ ~OverwriteOpen
<1>1. /\ Volume(own) /\ Placed /\ Led /\ Unique /\ OnDisk(own) /\ pc \in Building /\ pc # "idle"
      /\ op.kind \in {"write", "mkdir"}
      /\ op.kind = "mkdir" => op.found # "hit"
  BY DEF Sound, Volume, InCall, NewChain, Building
<1>2. /\ op.blk \in DirBlocks /\ op.idx \in SlotsOf(op.blk) /\ Linked(op.dir, op.blk)
      /\ op.dir \in Homes \cap DirBlocks /\ op.name \in Names
  BY <1>1, HomeReached, CallHome, FieldsTyped DEF Placed, Volume, InCall, Place
<1>3. ASSUME NEW x, NEW d \in Homes, NEW b, NEW i, At(x, d, b, i)
      PROVE  x \in Meant <=> b = op.blk /\ i = op.idx
  <2>1. CASE op.found = "hit"
    <3>1. AtTarget
      BY <1>1, <1>2, <2>1 DEF AtTarget, Volume, InCall, Place
    <3>. QED
      BY <1>1, <1>3, <3>1, MeantIs
  <2>2. CASE op.found # "hit"
    <3>1. dirs[op.blk][op.idx].name \notin Names
      BY <1>1, <2>2, Numbers DEF Volume, InCall, Place
    <3>2. ~(b = op.blk /\ i = op.idx)
      BY <1>3, <3>1 DEF At, Shown
    <3>3. Meant = {}
      BY <1>1, <1>2, <2>2, NoneMeant DEF Sound, Sought
    <3>. QED
      BY <3>2, <3>3
  <2>. QED
    BY <2>1, <2>2
<1>4. op.kind = "mkdir" => Meant = {} /\ ~OverwriteOpen
  BY <1>1, <1>2, NoneMeant DEF Sound, Sought, OverwriteOpen
<1>5. ASSUME NEW x, NEW d, NEW b, NEW i, At(x, d, b, i), d \in Homes, Live(b, i)
      PROVE  x \notin Meant
  <2>1. CASE op.kind = "mkdir"
    BY <1>4, <2>1
  <2>2. CASE op.kind = "write" /\ op.found = "hit"
    BY <1>3, <1>5, <2>2 DEF Live, Vacated
  <2>3. CASE op.kind = "write" /\ op.found # "hit"
    BY <1>1, <1>2, <2>3, NoneMeant DEF Sound, Sought
  <2>. QED
    BY <1>1, <2>1, <2>2, <2>3
<1>6. cwd \in Reach(Listed \ Meant)
  BY <1>1, <1>5, HereReached
<1>7. Root \in Reach(Listed \ Meant)
  BY <1>1, ListedFacts, ReachClosed
<1>8. op.dir \in {Root, cwd}
  BY <1>1 DEF Volume, InCall, Asked
<1>. QED
  BY <1>1, <1>2, <1>3, <1>4, <1>6, <1>7, <1>8

LEMMA FileMade ==
  ASSUME IInv, NEW own \in Owners, Sound(own), Working, ReadyToChange, pc = "entry", op.kind = "write"
  PROVE  EntryOf(op.dir, NewEntry) = Promise!FileOf(op.dir, op.name, op.val, op.len)
<1>1. op.n = op.len /\ op.n \in Nat
  BY FieldsTyped DEF ReadyToChange, Working
<1>2. op.n # 0 => data[op.first][1] = op.val
  <2>1. SUFFICES ASSUME op.n > 0 PROVE data[op.first][1] = op.val
    BY <1>1
  <2>2. PICK chain \in Chains(op.n) : Strung(chain, op.n, op.val) /\ chain[1] = op.first
    BY <2>1 DEF Sound, Built, Building
  <2>3. data[chain[1]] = <<op.val, 0>>
    BY <1>1, <2>1, <2>2 DEF Strung
  <2>. QED
    BY <2>2, <2>3
<1>. QED
  BY <1>1, <1>2 DEF EntryOf, NewEntry, Promise!FileOf

LEMMA DirectoryMade ==
  ASSUME IInv, NEW own \in Owners, Sound(own), Working, ReadyToChange, pc = "entry", op.kind = "mkdir"
  PROVE  /\ EntryOf(op.dir, NewEntry) = Promise!DirectoryOf(op.dir, op.name, op.first)
         /\ op.first \in Homes /\ op.first # Root
         /\ \A x \in Listed : x.dir # op.first /\ x.sub # op.first
<1>1. EntryOf(op.dir, NewEntry) = Promise!DirectoryOf(op.dir, op.name, op.first)
  BY DEF EntryOf, NewEntry, Promise!DirectoryOf
<1>2. /\ op.first \in dirSet /\ op.first \in Cluster /\ Unpointed(op.first) /\ Unnamed(op.first)
      /\ fat[op.first] = EOF
      /\ \A i \in SlotsOf(op.first) : dirs[op.first][i].name \notin Names
  BY DiskTyped DEF Sound, Volume, InCall, NewChain, Alone, Building, ReadyToChange, Working
<1>3. ASSUME NEW x \in Listed PROVE x.dir # op.first /\ x.sub # op.first
  <2>1. PICK d, b, i : At(x, d, b, i)
    BY ListedIs
  <2>2. /\ b \in DirBlocks /\ i \in SlotsOf(b) /\ dirs[b][i].name \in Names /\ Linked(d, b) /\ d \in DirBlocks
        /\ x.dir = d
        /\ dirs[b][i].dir => x.sub = dirs[b][i].first
        /\ ~dirs[b][i].dir => x.sub = Root
    BY <2>1, EntryFields DEF At, Shown
  <2>3. x.sub # op.first
    <3>1. CASE dirs[b][i].dir /\ dirs[b][i].first = op.first
      <4>1. Live(b, i)
        BY <1>2, <2>2, <3>1, Numbers DEF Live, Used, Vacated
      <4>. QED
        BY <1>2, <2>2, <3>1, <4>1, DiskTyped, Numbers DEF Unnamed, Heads, DirBlocks
    <3>. QED
      BY <1>2, <2>2, <3>1, Numbers
  <2>4. CASE d = op.first
    <3>1. b # d
      BY <1>2, <2>2, <2>4
    <3>2. fat[d] \in dirSet /\ d \in Dirs
      BY <1>2, <2>2, <2>4, <3>1, FirstLink, Numbers
    <3>. QED
      BY <1>2, <2>4, <3>2, DiskTyped, Numbers
  <2>. QED
    BY <2>2, <2>3, <2>4
<1>. QED
  BY <1>1, <1>2, <1>3, Numbers DEF Homes

LEMMA SetEntryMaps ==
  ASSUME IInv, IInv', NEW own \in Owners, Sound(own), Working, Working', ReadyToChange, SetEntry
  PROVE  Maps
<1>1. /\ pc = "entry" /\ cwd' = cwd /\ UNCHANGED <<fat, data, dirSet>> /\ pc' = "idle" /\ ~OverwriteOpen'
      /\ Volume(own) /\ Stage \in {"asked", "given"}
      /\ Stage = "given" <=> OverwriteOpen
  BY DEF SetEntry, Abandon, Return, Goto, NoOp, OverwriteOpen, Sound, Stage
<1>2. PICK r \in Outcome : /\ SetSlot(op.blk, op.idx, NewEntry, r)
                           /\ IF r = "lost" THEN Abandon({}) ELSE Return /\ UNCHANGED damage
  BY DEF SetEntry
<1>3. op.kind \in {"write", "mkdir"}
  BY <1>1, FillsTarget
<1>4. CASE r = "lost"
  <2>1. ~OverwriteOpen /\ dirs' = dirs
    BY <1>2, <1>4 DEF Abandon, Working, Undamaged, SetSlot
  <2>2. Rooted(Listed') = Rooted(Listed)
    BY <1>1, <2>1, TreeUnset
  <2>3. Stage = "asked"
    BY <1>1, <2>1
  <2>. QED
    BY <1>1, <1>3, <2>2, <2>3, FailMaps DEF Maps
<1>5. CASE r # "lost"
  <2>. DEFINE p == op.blk
              q == op.idx
              entry == NewEntry
              new == EntryOf(op.dir, NewEntry)
  <2>1. /\ p \in DirBlocks /\ q \in SlotsOf(p) /\ Linked(op.dir, p)
        /\ op.dir \in Homes \cap DirBlocks /\ op.dir \in Reach(Listed \ Meant) /\ op.name \in Names
        /\ \A x, d, b, i : At(x, d, b, i) /\ d \in Homes => (x \in Meant <=> b = p /\ i = q)
        /\ dirs' = [dirs EXCEPT ![p][q] = entry]
    BY <1>1, <1>2, <1>5, FillsTarget DEF SetSlot
  <2>2. new.sub \in Homes /\ (new.sub = Root \/ \A x \in Listed : x.dir # new.sub)
    <3>1. CASE op.kind = "write"
      <4>1. new.sub = Root
        BY <1>1, <3>1, FileMade DEF Promise!FileOf
      <4>. QED
        BY <4>1, Numbers DEF Homes
    <3>2. CASE op.kind = "mkdir"
      <4>1. new.sub = op.first
        BY <1>1, <3>2, DirectoryMade DEF Promise!DirectoryOf
      <4>. QED
        BY <1>1, <3>2, <4>1, DirectoryMade
    <3>. QED
      BY <1>3, <3>1, <3>2
  <2>3. Rooted(Listed') = Rooted(Listed \ Meant) \cup {new}
    <3>1. p = op.blk /\ q = op.idx /\ entry = NewEntry /\ new = EntryOf(op.dir, entry)
      OBVIOUS
    <3>. HIDE DEF p, q, entry, new
    <3>2. ASSUME NEW home, home = op.dir, NEW N, N = Meant
          PROVE  Rooted(Listed') = Rooted(Listed \ N) \cup {new}
      <4>1. /\ p \in DirBlocks /\ q \in SlotsOf(p) /\ p = op.blk /\ q = op.idx
            /\ home \in Homes \cap DirBlocks /\ home = op.dir /\ Linked(home, p) /\ op.name \in Names
            /\ entry = NewEntry /\ dirs' = [dirs EXCEPT ![p][q] = entry]
            /\ new = EntryOf(home, entry) /\ new.sub \in Homes
        BY <2>1, <2>2, <3>1, <3>2
      <4>2. \A x, d, b, i : At(x, d, b, i) /\ d \in Homes => (x \in N <=> b = p /\ i = q)
        BY <2>1, <3>2
      <4>3. home \in Reach(Listed \ N) /\ (new.sub = Root \/ \A x \in Listed : x.dir # new.sub)
        BY <2>1, <2>2, <3>2
      <4>4. Filling(p, q, home, entry, N, new)
        BY <4>1, <4>2, <4>3 DEF Filling
      <4>. QED
        BY <1>1, <4>4, TreeSet
    <3>. QED
      BY <3>2
  <2>4. /\ Promise!Rooted(Promise!Others) = Rooted(Listed \ Meant)
        /\ \A e : e \in Promise!Named <=> e \in Rooted(Listed) /\ e \in Meant
        /\ Tree = Rooted(Listed) /\ Tree' = Rooted(Listed') /\ Here' = Here /\ Calling' = Promise!NoCall
        /\ Calling.kind = op.kind /\ Calling.dir = op.dir /\ Calling.name = op.name
        /\ Calling.val = op.val /\ Calling.len = op.len /\ Calling.state = Stage
    BY <1>1, NamedIs, SeenState, NextSeen DEF Promise!NoCall, NoCall
  <2>5. CASE op.kind = "write"
    <3>1. new = Promise!FileOf(op.dir, op.name, op.val, op.len)
      BY <1>1, <2>5, FileMade
    <3>2. Promise!Put
      BY <2>3, <2>4, <2>5, <3>1 DEF Promise!Put, Promise!Return, Working
    <3>. QED
      BY <3>2 DEF Maps, Promise!Next, Working
  <2>6. CASE op.kind = "mkdir"
    <3>1. /\ new = Promise!DirectoryOf(op.dir, op.name, op.first) /\ op.first \in Dirs \ {Root}
          /\ \A x \in Listed : x.sub # op.first
      BY <1>1, <2>6, DirectoryMade DEF Homes
    <3>2. Meant = {} /\ Stage = "asked"
      BY <1>1, <2>6, FillsTarget
    <3>3. Promise!Named = {} /\ Rooted(Listed \ Meant) = Rooted(Listed)
      <4>1. Listed \ Meant = Listed
        BY <3>2
      <4>. QED
        BY <2>4, <3>2, <4>1
    <3>4. \A e \in Tree : e.sub # op.first
      BY <2>4, <3>1, RootedIs
    <3>5. Promise!Make
      <4>1. Tree' = Tree \cup {Promise!DirectoryOf(Calling.dir, Calling.name, op.first)}
        BY <2>3, <2>4, <3>1, <3>3
      <4>. QED
        BY <2>4, <2>6, <3>1, <3>2, <3>3, <3>4, <4>1 DEF Promise!Make, Promise!Asked, Promise!Return, Working
    <3>. QED
      BY <3>5 DEF Maps, Promise!Next, Working
  <2>. QED
    BY <1>3, <2>5, <2>6
<1>. QED
  BY <1>4, <1>5

(* The step that changes it for a delete.                                  *)
LEMMA MarkDeletedMaps ==
  ASSUME IInv, IInv', NEW own \in Owners, Sound(own), Working, Working', ReadyToChange, MarkDeleted
  PROVE  Maps
<1>1. /\ pc = "mark" /\ cwd' = cwd /\ UNCHANGED <<fat, data, dirSet>> /\ op.kind = "delete"
      /\ op.found = "hit" /\ Volume(own) /\ Led /\ Unique /\ ~OverwriteOpen /\ Stage = "asked"
  BY DEF MarkDeleted, session, OverwriteOpen, Sound, Stage, Volume, InCall, OldChain
<1>2. AtTarget
  BY <1>1, HomeReached, CallHome, FieldsTyped DEF AtTarget, Volume, InCall, Place, ReadyToChange, Working
<1>3. PICK r \in Outcome : /\ SetSlot(op.blk, op.idx, Mark("deleted"), r)
                           /\ IF r = "ok" THEN Goto("free", op) ELSE Return
  BY <1>1 DEF MarkDeleted
<1>4. ~OverwriteOpen'
  BY <1>1, <1>3 DEF Return, Goto, NoOp, OverwriteOpen
<1>5. r # "ok" => Faulty
  BY DEF Outcome, Faulty
<1>6. CASE r = "lost"
  <2>1. dirs' = dirs /\ pc' = "idle"
    BY <1>3, <1>6 DEF SetSlot, Return, Goto
  <2>2. Rooted(Listed') = Rooted(Listed)
    BY <1>1, <1>4, <2>1, TreeUnset
  <2>. QED
    BY <1>1, <1>5, <1>6, <2>1, <2>2, FailMaps DEF Maps
<1>7. CASE r # "lost"
  <2>1. dirs' = [dirs EXCEPT ![op.blk][op.idx] = Mark("deleted")]
    BY <1>3, <1>7 DEF SetSlot
  <2>2. Rooted(Listed') = Rooted(Listed \ Meant)
    BY <1>1, <1>2, <1>4, <2>1, TreeUnnamed
  <2>3. Promise!Rooted(Promise!Others) = Rooted(Listed \ Meant) /\ Promise!Named # {}
    <3>1. EntryOf(op.dir, dirs[op.blk][op.idx]) \in Promise!Named
      BY <1>1, <1>2, TargetShown, NamedIs
    <3>. QED
      BY <1>1, <3>1, NamedIs
  <2>4. /\ Calling = Running /\ Calling.kind = "delete" /\ Calling.state = "asked"
        /\ Here' = Here /\ Tree' = Promise!Rooted(Promise!Others)
    BY <1>1, <2>2, <2>3, SeenState, NextSeen
  <2>5. Calling' = [Calling EXCEPT !.state = "done"] \/ (Faulty /\ Calling' = Promise!NoCall)
    <3>1. CASE r = "ok"
      <4>1. pc' = "free" /\ op' = op
        BY <1>3, <3>1 DEF Goto
      <4>2. Stage' = "done"
        BY <1>1, <1>4, <4>1 DEF Stage
      <4>3. Running' = [Running EXCEPT !.state = "done"]
        BY <4>1, <4>2 DEF Running
      <4>. QED
        BY <2>4, <4>1, <4>3, NextSeen
    <3>2. CASE r # "ok"
      <4>1. pc' = "idle"
        BY <1>3, <3>2 DEF Return, Goto
      <4>. QED
        BY <1>5, <3>2, <4>1, NextSeen DEF Promise!NoCall, NoCall
    <3>. QED
      BY <3>1, <3>2
  <2>6. Promise!Remove
    BY <2>3, <2>4, <2>5 DEF Promise!Remove, Promise!Asked, Promise!Return, Working, Faulty
  <2>. QED
    BY <2>6 DEF Maps, Promise!Next, Working
<1>. QED
  BY <1>6, <1>7

(* A reset between two steps, or in a call.                                *)
LEMMA CrashMaps ==
  ASSUME IInv, IInv', NEW own \in Owners, Sound(own), Working, Working', Crash
  PROVE  Maps
<1>1. /\ Crashes /\ pc' = "idle" /\ cwd' = Root /\ ~OverwriteOpen /\ ~OverwriteOpen' /\ Next
      /\ Volume(own)
  BY DEF Crash, Return, Goto, NoOp, OverwriteOpen, Next, Working, Undamaged, Sound
<1>2. Rooted(Listed') = Rooted(Listed)
  BY <1>1, TreeUnset DEF Crash, disk
<1>3. Stage # "given"
  BY <1>1 DEF Stage
<1>4. Calling.state # "given" /\ Tree' = Tree /\ Here' = Root /\ Calling' = Promise!NoCall
  BY <1>1, <1>2, <1>3, SeenState, NextSeen DEF Promise!NoCall, NoCall
<1>5. Promise!Stop
  BY <1>1, <1>4 DEF Promise!Stop, Promise!Return, Working
<1>. QED
  BY <1>5 DEF Maps, Promise!Next, Working

(* The calls.                                                              *)
LEMMA CallMaps ==
  ASSUME IInv, IInv', NEW own \in Owners, Sound(own), Working, Working', Next, ~SetEntry, ~MarkDeleted,
         NEW kind, NEW dir, NEW name, NEW val, NEW len,
         pc = "idle", pc' = "find", cwd' = cwd, op'.found = "none",
         op'.kind = kind, op'.dir = dir, op'.name = name, op'.val = val, op'.len = len
  PROVE  Promise!Ask(Promise!CallOf(kind, dir, name, val, len))
<1>1. ~OverwriteOpen' /\ Volume(own)
  BY DEF OverwriteOpen, Sound
<1>2. Rooted(Listed') = Rooted(Listed)
  BY <1>1, TreeQuiet DEF Sound, Working
<1>3. Stage' = "asked"
  BY <1>1 DEF Stage
<1>4. Running' = Promise!CallOf(kind, dir, name, val, len)
  BY <1>3 DEF Running, Promise!CallOf
<1>5. Calling = Promise!NoCall /\ Calling' = Running' /\ Tree' = Tree /\ Here' = Here
  BY <1>2, SeenState, NextSeen DEF Promise!NoCall, NoCall
<1>. QED
  BY <1>4, <1>5 DEF Promise!Ask, Working

LEMMA CdUpMaps ==
  ASSUME IInv, IInv', NEW own \in Owners, Sound(own), Working, Working', CdUp
  PROVE  Maps
<1>1. pc = "idle" /\ pc' = "idle" /\ cwd # Root /\ op' = op /\ Next /\ ~SetEntry /\ ~MarkDeleted
  BY DEF CdUp, Next, Calls, SetEntry, MarkDeleted
<1>2. OverwriteOpen' <=> OverwriteOpen
  BY <1>1 DEF OverwriteOpen
<1>3. Rooted(Listed') = Rooted(Listed)
  BY <1>1, <1>2, TreeQuiet DEF Sound, Working
<1>4. /\ Calling = Promise!NoCall /\ Calling' = Calling /\ Tree' = Tree /\ Tree = Rooted(Listed)
      /\ Here = cwd /\ Here' = cwd'
  BY <1>1, <1>3, SeenState, NextSeen DEF Promise!NoCall, NoCall
<1>5. CASE cwd' = cwd
  BY <1>4, <1>5 DEF Maps, Promise!vars, Working
<1>6. CASE cwd' # cwd
  <2>. DEFINE k == Len(trail)
  <2>1. OnDisk(own) /\ Led /\ cwd' = dirs[cwd][2].first
    BY <1>6 DEF CdUp, Sound, Volume
  <2>2. k \in 1 .. Len(trail) /\ trail[k] = cwd /\ cwd' = Above(k)
    BY <1>1, <2>1, CurrentSound, DiskTyped
  <2>3. PICK x, b, i : At(x, Above(k), b, i) /\ Live(b, i) /\ x.sub = trail[k]
    BY <2>1, <2>2, TrailListed
  <2>4. x \in Listed /\ x.dir = Above(k)
    BY <2>3, ListedIs, EntryFields DEF At
  <2>5. Above(k) \in Reach(Listed)
    <3>1. Listed \ {} = Listed
      OBVIOUS
    <3>2. \A j \in 1 .. Len(trail) : trail[j] \in Reach(Listed \ {})
      BY <2>1, HereReached
    <3>3. \A j \in 1 .. Len(trail) : trail[j] \in Reach(Listed)
      BY <3>1, <3>2
    <3>4. Root \in Reach(Listed)
      BY ListedFacts, ReachClosed DEF Sound
    <3>5. k = 1 \/ k - 1 \in 1 .. Len(trail)
      <4>1. Len(trail) \in Nat
        BY DiskTyped
      <4>2. \A n \in Nat : \A j \in 1 .. n : j = 1 \/ j - 1 \in 1 .. n
        OBVIOUS
      <4>. QED
        BY ONLY <2>2, <4>1, <4>2
    <3>. QED
      BY <3>3, <3>4, <3>5 DEF Above
  <2>6. x \in Tree
    BY <1>4, <2>4, <2>5, RootedIs
  <2>7. Promise!Up
    BY <1>1, <1>4, <2>2, <2>3, <2>4, <2>6 DEF Promise!Up, Working
  <2>. QED
    BY <2>7 DEF Maps, Promise!Next, Promise!Calls, Working
<1>. QED
  BY <1>5, <1>6

LEMMA CallsMaps ==
  ASSUME IInv, IInv', NEW own \in Owners, Sound(own), Working, Working', Calls
  PROVE  Maps
<1>1. Next /\ cwd \in Dirs /\ Here = cwd
  BY SeenState, DiskTyped DEF Next
<1>2. ASSUME NEW name \in Names, NEW val \in Data, NEW len \in 0 .. MaxLen, WriteFile(name, val, len)
      PROVE  Maps
  <2>1. Promise!Ask(Promise!CallOf("write", cwd, name, val, len))
    BY <1>1, <1>2, CallMaps DEF WriteFile, Call, Goto, NoOp, SetEntry, MarkDeleted
  <2>. QED
    BY <1>1, <2>1 DEF Maps, Promise!Next, Promise!Calls, Working
<1>3. ASSUME NEW val \in Data, NEW len \in 1 .. MaxLen, WriteUsers(val, len)
      PROVE  Maps
  <2>1. Promise!Ask(Promise!CallOf("write", Root, UsersDat, val, len))
    BY <1>1, <1>3, CallMaps DEF WriteUsers, Call, Goto, NoOp, SetEntry, MarkDeleted
  <2>. QED
    BY <1>1, <2>1 DEF Maps, Promise!Next, Promise!Calls, Working
<1>4. ASSUME NEW name \in Names, DeleteFile(name) \/ Mkdir(name) \/ Cd(name)
      PROVE  Maps
  <2>1. \E kind \in {"delete", "mkdir", "cd"} : Promise!Ask(Promise!CallOf(kind, cwd, name, Nothing, 0))
    <3>1. CASE DeleteFile(name)
      BY <1>1, <3>1, CallMaps DEF DeleteFile, Call, Goto, NoOp, SetEntry, MarkDeleted
    <3>2. CASE Mkdir(name)
      BY <1>1, <3>2, CallMaps DEF Mkdir, Call, Goto, NoOp, SetEntry, MarkDeleted
    <3>3. CASE Cd(name)
      BY <1>1, <3>3, CallMaps DEF Cd, Call, Goto, NoOp, SetEntry, MarkDeleted
    <3>. QED
      BY <1>4, <3>1, <3>2, <3>3
  <2>. QED
    BY <1>1, <2>1 DEF Maps, Promise!Next, Promise!Calls, Working
<1>. QED
  BY <1>2, <1>3, <1>4, CdUpMaps DEF Calls

-----------------------------------------------------------------------------
(* The refinement.                                                         *)
LEMMA InitMaps == Init => Promise!Init
<1>. SUFFICES ASSUME Init PROVE Promise!Init
  OBVIOUS
<1>1. Working /\ pc = "idle" /\ cwd = Root
  BY DEF Init, Working, Undamaged
<1>2. Listed = {}
  <2>1. ASSUME NEW x \in Listed PROVE FALSE
    <3>1. PICK d, b, i : At(x, d, b, i)
      BY ListedIs
    <3>2. b \in DirBlocks /\ i \in SlotsOf(b) /\ dirs[b][i].name \in Names
      BY <3>1 DEF At, Shown
    <3>3. dirs[b][i].name = "end"
      BY <3>2, Numbers DEF Init, DirBlocks, EmptyBlock, Mark
    <3>. QED
      BY <3>2, <3>3, Numbers
  <2>. QED
    BY <2>1
<1>3. Rooted(Listed) = {}
  BY <1>2, RootedIs
<1>. QED
  BY <1>1, <1>3, SeenState DEF Promise!Init, Promise!NoCall, NoCall

LEMMA MapsStep ==
  ASSUME IInv, IInv', NEW own \in Owners, Working => Sound(own), ReadyToChange, [Next]_vars
  PROVE  [Promise!Next]_Promise!vars
<1>1. CASE UNCHANGED vars
  <2>1. /\ Working' <=> Working
        /\ OverwriteOpen' <=> OverwriteOpen
    BY <1>1 DEF vars, Working, Undamaged, OverwriteOpen
  <2>2. \A x, d, b, i : At(x, d, b, i)' <=> At(x, d, b, i)
    BY <1>1, <2>1 DEF vars, At, DirBlocks, Linked, Follows, Shown, GivenUp, EntryOf
  <2>3. Listed' = Listed
    BY <2>2, ListedIs, NextListedIs, SameElements
  <2>4. Running' = Running
    BY <1>1, <2>1 DEF vars, Running, Stage
  <2>. QED
    BY <1>1, <2>1, <2>3, <2>4, TreeIs DEF vars, Here, Calling, Promise!vars, NoCall
<1>2. CASE Next /\ ~Working
  <2>1. ~Working'
    BY <1>2, DamageStays DEF Working
  <2>. QED
    BY <1>2, <2>1, TreeIs DEF Here, Calling, Promise!vars, NoCall
<1>3. CASE Next /\ Working /\ ~Working'
  BY <1>3, BreakMaps DEF Sound
<1>4. CASE Next /\ Working /\ Working'
  BY <1>4, CallsMaps, FindHitMaps, FindMaps, SlotMaps, FreeMaps, BuildMaps, SetEntryMaps, MarkDeletedMaps,
     CrashMaps DEF Maps, Next, Steps
<1>. QED
  BY <1>1, <1>2, <1>3, <1>4

(* KeepsTree: seen as the tree of files that the root leads to, the driver *)
(* implements FileTree, at every sector write of every call, through every *)
(* disk error and every reset: a call changes the tree in one step, to     *)
(* what it was asked for, or not at all, and fails or leaves nothing       *)
(* promised only for the reasons given there.                              *)
THEOREM TreeKept == Spec => KeepsTree
<1>1. IInv /\ IInv' /\ VolumeSound /\ FilesSound /\ WalkSound /\ NamesSound /\ ReadyToChange /\ [Next]_vars
        => [Promise!Next]_Promise!vars
  <2>. SUFFICES ASSUME IInv, IInv', VolumeSound, FilesSound, WalkSound, NamesSound, ReadyToChange, [Next]_vars
                PROVE  [Promise!Next]_Promise!vars
    OBVIOUS
  <2>1. PICK own \in Owners : Undamaged => Volume(own)
    <3>1. [c \in Dirs |-> c] \in Owners
      BY DEF Owners
    <3>. QED
      BY <3>1 DEF VolumeSound
  <2>2. Working => Sound(own)
    BY <2>1 DEF Working, Sound, FilesSound, WalkSound, NamesSound
  <2>. QED
    BY <2>2, MapsStep
<1>. QED
  BY <1>1, InitMaps, Invariance, VolumeStaysSound, FilesStaySound, WalkStaysSound, NamesStaySound,
     ReadyStaysSound, PTL DEF KeepsTree, Promise!Spec, Spec
=============================================================================
