---------------------------- MODULE MemoryProofs ----------------------------
(***************************************************************************)
(* The bitmap, its counter, the user page table and memtest, proved for    *)
(* every memory size, every window and every sequence of programs.         *)
(***************************************************************************)
EXTENDS Memory, FiniteSetTheorems, WellFoundedInduction, TLAPS

USE PagesAssumption, ImagesAssumption

(* The reserved pages are never given out.                                 *)
ReservedKept == Reserved \subseteq used

(* What do_memtest knows of its pages: the first one is the lowest that    *)
(* was free, and it is free again when it is to come again.                *)
TestSound ==
  /\ pc \notin TestSteps \cup {"halted"} \/ pc = "test_p1" => p1 = 0 /\ p2 = 0
  /\ pc \in {"test_p2", "test_free", "test_again"} =>
       p1 \in Pool /\ \A q \in Page : q < p1 => q \in used
  /\ pc = "test_p2" => p2 = 0 /\ p1 \in used
  /\ pc \in {"test_free", "test_again"} => p2 \in Pool
  /\ pc = "test_again" => p1 \notin used
  /\ pc = "test_end1" => p1 \in Pool /\ p2 \in Pool
  /\ pc = "test_end2" => p1 = 0 /\ p2 \in Pool

IInv == TypeOK /\ ReservedKept /\ CountExact /\ PagesExclusive /\ TestSound /\ MemtestHonest

-----------------------------------------------------------------------------
LEMMA PageFacts ==
  /\ IsFiniteSet(Page) /\ Cardinality(Page) = TotalPages
  /\ Pool \subseteq Page /\ 0 \notin Pool /\ Pool \cap Reserved = {}
  /\ Page \ Reserved = Pool /\ UserPages > 0 /\ Page \subseteq Nat
  /\ Window \subseteq Pool /\ Reserved \subseteq Page /\ 0 \in 0 .. UserPages
<1>1. TotalPages \in Nat /\ BootPages \in Nat /\ BootPages > 0
  OBVIOUS
<1>2. IsFiniteSet(Page) /\ Cardinality(Page) = TotalPages
  <2>1. 0 \in Int /\ TotalPages - 1 \in Int
    BY <1>1
  <2>2. /\ IsFiniteSet(0 .. TotalPages - 1)
        /\ Cardinality(0 .. TotalPages - 1) =
             IF 0 > TotalPages - 1 THEN 0 ELSE (TotalPages - 1) - 0 + 1
    BY <2>1, FS_Interval
  <2>. QED
    BY <1>1, <2>2 DEF Page
<1>3. Back \cup Window \subseteq Pool
  BY PagesAssumption
<1>4. /\ Pool \subseteq Page /\ 0 \notin Pool /\ Pool \cap Reserved = {}
      /\ Page \ Reserved = Pool /\ Page \subseteq Nat
  BY <1>1 DEF Page, Pool, Reserved
<1>5. UserPages \in Nat /\ StackPages \in Nat /\ 0 < StackPages /\ StackPages < UserPages
  OBVIOUS
<1>6. Reserved \subseteq Page
  <2>1. UserBase \in Nat /\ UserBase \in Window
    BY <1>5 DEF Window
  <2>2. UserBase \in Pool
    BY <1>3, <2>1
  <2>. QED
    BY <1>1, <2>1, <2>2 DEF Reserved, Page, Pool
<1>. QED
  BY <1>2, <1>3, <1>4, <1>5, <1>6

(* The bitmap's scan finds the lowest free page whenever there is one.     *)
LEMMA LowestFree ==
  ASSUME Unused # {}
  PROVE  Lowest \in Unused /\ \A q \in Unused : Lowest <= q
<1>. DEFINE Below(p) == {q \in Unused : q < p}
            Belows == {Below(p) : p \in Unused}
<1>1. Unused \subseteq Nat
  BY DEF Unused, Page
<1>2. IsFiniteSet(Unused) /\ SUBSET Unused = FiniteSubsetsOf(Unused)
  BY PageFacts, FS_Subset, FS_FiniteSubsetsOfFinite DEF Unused
<1>3. Belows \subseteq FiniteSubsetsOf(Unused) /\ Belows # {}
  <2>1. \A p \in Unused : Below(p) \in SUBSET Unused
    OBVIOUS
  <2>2. Belows \subseteq SUBSET Unused
    <3>. HIDE DEF Below
    <3>. QED
      BY <2>1
  <2>3. Belows # {}
    <3>1. PICK p : p \in Unused
      OBVIOUS
    <3>. HIDE DEF Below
    <3>. QED
      BY <3>1
  <2>. HIDE DEF Belows
  <2>. QED
    BY <1>2, <2>2, <2>3
<1>4. PICK B \in Belows : \A C \in Belows : <<C, B>> \notin StrictSubsetOrdering(Unused)
  <2>. HIDE DEF Belows
  <2>. QED
    BY <1>3, FS_StrictSubsetOrderingWellFounded, WFMin
<1>5. PICK p \in Unused : B = Below(p)
  BY <1>4
<1>6. ASSUME NEW q \in Unused, q < p PROVE FALSE
  <2>. HIDE DEF Belows
  <2>0. q \in Nat /\ p \in Nat
    BY <1>1
  <2>1. /\ \A r \in Below(q) : r \in Below(p)
        /\ q \in Below(p) /\ q \notin Below(q)
    <3>1. q \in Below(p)
      BY <1>6
    <3>2. q \notin Below(q)
      BY <2>0
    <3>3. ASSUME NEW r \in Below(q) PROVE r \in Below(p)
      BY <1>1, <1>6, <2>0, <3>3
    <3>. QED
      BY <3>1, <3>2, <3>3
  <2>2. <<Below(q), B>> \in StrictSubsetOrdering(Unused)
    <3>1. Below(q) \subseteq Below(p) /\ Below(q) # Below(p)
      BY <2>1
    <3>2. Below(q) \in SUBSET Unused /\ Below(p) \in SUBSET Unused
      OBVIOUS
    <3>. HIDE DEF Below
    <3>. QED
      BY <1>5, <3>1, <3>2 DEF StrictSubsetOrdering
  <2>3. Below(q) \in Belows
    BY DEF Belows
  <2>. QED
    BY <1>4, <2>2, <2>3
<1>7. \A q \in Unused : p <= q
  BY <1>1, <1>6
<1>. QED
  BY <1>7 DEF Lowest

LEMMA UnusedFinite ==
  /\ IsFiniteSet(Unused) /\ Cardinality(Unused) \in 0 .. TotalPages
BY PageFacts, FS_Subset, FS_CardinalityType DEF Unused

-----------------------------------------------------------------------------
(* Taking the lowest page, and giving one back, keep bitmap and counter    *)
(* together and the reserved pages where they are.                         *)
BitmapSound == used \subseteq Page /\ freePages \in 0 .. TotalPages /\ ReservedKept /\ CountExact

LEMMA AllocateKeeps ==
  ASSUME BitmapSound, Unused # {}, Allocate(Lowest)
  PROVE  BitmapSound' /\ Lowest \in Pool /\ Lowest \notin used /\ used \subseteq used'
<1>1. Lowest \in Unused
  BY LowestFree
<1>2. Lowest \in Pool
  BY <1>1, PageFacts DEF Unused, BitmapSound, ReservedKept
<1>3. Unused' = Unused \ {Lowest}
  BY DEF Unused, Allocate
<1>4. Cardinality(Unused') = Cardinality(Unused) - 1
  BY <1>1, <1>3, UnusedFinite, FS_RemoveElement
<1>5. Cardinality(Unused') \in Nat
  BY <1>3, UnusedFinite, FS_RemoveElement, FS_CardinalityType
<1>6. freePages' = Cardinality(Unused') /\ freePages' \in 0 .. TotalPages
  BY <1>4, <1>5, UnusedFinite DEF Allocate, BitmapSound, CountExact
<1>7. used' \subseteq Page /\ ReservedKept'
  BY <1>2, PageFacts DEF Allocate, BitmapSound, ReservedKept, Reserved
<1>. QED
  BY <1>1, <1>2, <1>6, <1>7 DEF BitmapSound, CountExact, Unused, Allocate

LEMMA ReleaseKeeps ==
  ASSUME BitmapSound, NEW p \in Pool, Release(p)
  PROVE  BitmapSound' /\ p \notin used' /\ used \ {p} \subseteq used' /\ used' \subseteq used
<1>1. CASE p \notin used
  BY <1>1 DEF Release, pageVars, BitmapSound, ReservedKept, Reserved, CountExact, Unused
<1>2. CASE p \in used
  <2>1. used' = used \ {p} /\ freePages' = freePages + 1
    BY <1>2 DEF Release
  <2>2. Unused' = Unused \cup {p} /\ p \notin Unused
    BY <1>2, <2>1, PageFacts DEF Unused
  <2>3. Cardinality(Unused') = Cardinality(Unused) + 1
    BY <2>2, UnusedFinite, FS_AddElement
  <2>4. Unused' \subseteq Page
    BY <2>2, PageFacts DEF Unused
  <2>5. Cardinality(Unused') <= TotalPages
    BY <2>4, PageFacts, FS_Subset
  <2>6. freePages' = Cardinality(Unused') /\ freePages' \in 0 .. TotalPages
    BY <2>1, <2>3, <2>5, UnusedFinite DEF BitmapSound, CountExact
  <2>7. used' \subseteq Page /\ ReservedKept'
    BY <2>1, PageFacts DEF BitmapSound, ReservedKept, Reserved
  <2>. QED
    BY <2>1, <2>6, <2>7 DEF BitmapSound, CountExact, Unused
<1>. QED
  BY <1>1, <1>2

(* The kernel writes zeros to a page that can be handed out.               *)
LEMMA ZeroedType ==
  ASSUME TypeOK, NEW p \in Pool
  PROVE  Zeroed(p) \in [Pool -> {"junk", "zero", "file", "data", "pixels"}]
BY DEF Zeroed, TypeOK

LEMMA WrittenType ==
  ASSUME TypeOK, NEW pages, NEW what \in {"zero", "file", "data"}
  PROVE  Written(pages, what) \in [Pool -> {"junk", "zero", "file", "data", "pixels"}]
BY DEF Written, TypeOK

LEMMA FollowingType ==
  ASSUME TypeOK, at \in Slot, pc \in {"image", "stack"}
  PROVE  Following[1] \in {"image", "file", "stack", "bss"} /\ Following[2] \in 0 .. UserPages
BY PageFacts DEF Following, TypeOK, Slot

-----------------------------------------------------------------------------
LEMMA InitIInv == Init => IInv
<1>. SUFFICES ASSUME Init PROVE IInv
  OBVIOUS
<1>. USE DEF Init
<1>1. Unused = Pool /\ freePages = Cardinality(Unused)
  BY PageFacts DEF Unused
<1>2. freePages \in 0 .. TotalPages
  BY <1>1, UnusedFinite
<1>3. TypeOK
  <2>1. userPt \in [Slot -> Pool \cup {None}]
    BY Zenon
  <2>2. used \subseteq Page
    BY PageFacts
  <2>4. content \in [Pool -> {"junk", "zero", "file", "data", "pixels"}]
    BY Zenon
  <2>3. at \in 0 .. UserPages
    BY PageFacts
  <2>. QED
    BY <1>2, <2>1, <2>2, <2>3, <2>4 DEF TypeOK, TestSteps
<1>4. PagesExclusive
  BY DEF PagesExclusive, Mapped
<1>. QED
  BY <1>1, <1>3, <1>4 DEF IInv, ReservedKept, CountExact, TestSound, MemtestHonest, TestSteps

(* Steps that leave the bitmap, the page table and memtest's pages alone.  *)
Quiet == UNCHANGED <<used, freePages, userPt, p1, p2>>

LEMMA QuietKeeps ==
  ASSUME IInv, Quiet
  PROVE  ReservedKept' /\ CountExact' /\ PagesExclusive' /\ Unused' = Unused
BY DEF IInv, Quiet, ReservedKept, CountExact, PagesExclusive, Unused, Mapped

(* Loading, running and drawing outside of the page allocator.             *)
LEMMA QuietSteps ==
  ASSUME IInv,
         \/ \E i \in Images : Run(i[1], i[2], i[3])
         \/ ReadFile \/ ReadFails \/ NoPageToMap \/ ZeroBss \/ LoadFaults \/ Enter \/ Draw
         \/ \E s \in Slot : ProgramWrites(s)
         \/ ProgramEnds \/ ProgramFaults \/ MemtestStart
  PROVE  IInv'
<1>. USE DEF IInv, TypeOK, TestSound, MemtestHonest, TestSteps, progVars, testVars, pageVars, Quiet
<1>1. CASE \E i \in Images : Run(i[1], i[2], i[3])
  <2>1. PICK i \in Images : Run(i[1], i[2], i[3])
    BY <1>1
  <2>2. i[1] \in Nat /\ i[2] \in Nat /\ i[3] \in Nat /\ 0 \in 0 .. UserPages
    BY ImagesAssumption, PageFacts
  <2>. QED
    BY <2>1, <2>2, QuietKeeps DEF Run
<1>2. CASE ReadFile
  <2>1. UserPages - StackPages \in 0 .. UserPages
    BY PageFacts
  <2>. QED
    BY <1>2, <2>1, WrittenType, QuietKeeps DEF ReadFile
<1>3. CASE ReadFails \/ NoPageToMap \/ ProgramEnds
  <2>1. 0 \in 0 .. UserPages
    BY PageFacts
  <2>. QED
    BY <1>3, <2>1, QuietKeeps DEF ReadFails, NoPageToMap, ProgramEnds, ToShell
<1>4. CASE ZeroBss
  BY <1>4, WrittenType, QuietKeeps DEF ZeroBss
<1>5. CASE Enter \/ ProgramFaults \/ LoadFaults
  BY <1>5, QuietKeeps DEF Enter, ProgramFaults, LoadFaults, WriteFaults
<1>6. CASE Draw
  BY <1>6, QuietKeeps DEF Draw
<1>7. CASE \E s \in Slot : ProgramWrites(s)
  BY <1>7, WrittenType, QuietKeeps DEF ProgramWrites
<1>8. CASE MemtestStart
  BY <1>8, QuietKeeps DEF MemtestStart, Test, Kept
<1>. QED
  BY <1>1, <1>2, <1>3, <1>4, <1>5, <1>6, <1>7, <1>8

-----------------------------------------------------------------------------
LEMMA IInvBitmap == IInv => BitmapSound
BY DEF IInv, TypeOK, BitmapSound

(* A fresh page is mapped nowhere, so mapping it anywhere keeps pages      *)
(* exclusive.                                                              *)
LEMMA FreshPageExclusive ==
  ASSUME IInv, NEW s \in Slot, NEW p \in Pool, p \notin used, p \in used', used \subseteq used',
         userPt' = [userPt EXCEPT ![s] = p], p1 = 0, p2 = 0, UNCHANGED <<p1, p2>>
  PROVE  PagesExclusive' /\ userPt' \in [Slot -> Pool \cup {None}]
<1>1. userPt' \in [Slot -> Pool \cup {None}]
  BY DEF IInv, TypeOK
<1>2. \A t \in Slot : userPt'[t] = IF t = s THEN p ELSE userPt[t]
  BY DEF IInv, TypeOK
<1>3. Mapped' = Mapped \cup {s}
  BY <1>2, PageFacts DEF Mapped, None
<1>4. p # 0 /\ \A t \in Mapped : userPt[t] \in used \cap Pool /\ userPt[t] # p
  BY PageFacts DEF IInv, PagesExclusive
<1>5. \A t \in Mapped' : (userPt'[t] = p /\ t = s) \/ (t \in Mapped /\ t # s /\ userPt'[t] = userPt[t])
  BY <1>2, <1>3 DEF Mapped
<1>6. \A t \in Mapped' : userPt'[t] \in used' \cap Pool /\ userPt'[t] \notin {p1', p2'}
  BY <1>4, <1>5, PageFacts
<1>7. \A t, r \in Mapped' : userPt'[t] = userPt'[r] => t = r
  BY <1>4, <1>5 DEF IInv, PagesExclusive
<1>. QED
  BY <1>1, <1>6, <1>7 DEF PagesExclusive

LEMMA AllocSteps ==
  ASSUME IInv, MapPage \/ MapRefused \/ PageFault
  PROVE  IInv'
<1>. USE DEF TestSteps
<1>1. Unused # {} /\ Allocate(Lowest) /\ pc \in TakesPage
  BY DEF MapPage, MapRefused, PageFault, TakeZeroed, TakesPage
<1>2. BitmapSound' /\ Lowest \in Pool /\ Lowest \notin used /\ used \subseteq used' /\ Lowest \in used'
  BY <1>1, IInvBitmap, AllocateKeeps DEF Allocate
<1>3. CASE MapPage
  <2>1. at % UserPages \in Slot
    BY <1>3, PageFacts DEF MapPage, InTable, Slot
  <2>2. at \in Slot
    BY <1>3 DEF MapPage, InTable
  <2>3. p1 = 0 /\ p2 = 0 /\ UNCHANGED <<p1, p2>>
    BY <1>3 DEF MapPage, testVars, IInv, TestSound
  <2>4. PagesExclusive' /\ userPt' \in [Slot -> Pool \cup {None}]
    BY <1>2, <1>3, <2>1, <2>3, FreshPageExclusive DEF MapPage
  <2>5. pc' \in {"image", "file", "stack", "bss"} /\ at' \in 0 .. UserPages
    BY <1>3, <2>2, FollowingType DEF MapPage, IInv
  <2>6. content' \in [Pool -> {"junk", "zero", "file", "data", "pixels"}]
    BY <1>2, <1>3, ZeroedType DEF MapPage, TakeZeroed, IInv
  <2>x. lost' \subseteq Pool
    BY <1>3, <2>2 DEF MapPage, TypeOK, IInv
  <2>7. TypeOK'
    BY <1>2, <1>3, <2>3, <2>4, <2>5, <2>6, <2>x DEF MapPage, progVars, TypeOK, IInv, BitmapSound
  <2>. QED
    BY <1>2, <2>3, <2>4, <2>5, <2>7 DEF IInv, BitmapSound, TestSound, MemtestHonest
<1>4. CASE MapRefused \/ PageFault
  <2>1. UNCHANGED <<userPt, p1, p2>>
    BY <1>4 DEF MapRefused, PageFault, ToShell, testVars
  <2>2. PagesExclusive'
    BY <1>2, <2>1 DEF IInv, PagesExclusive, Mapped
  <2>3. CASE MapRefused
    <3>1. content' \in [Pool -> {"junk", "zero", "file", "data", "pixels"}]
      BY <1>2, <2>3, ZeroedType DEF MapRefused, TakeZeroed, IInv
    <3>2. 0 \in 0 .. UserPages
      BY PageFacts
    <3>3. TypeOK'
      BY <1>2, <2>1, <2>3, <3>1, <3>2 DEF MapRefused, ToShell, TypeOK, IInv, BitmapSound
    <3>. QED
      BY <1>2, <2>1, <2>2, <2>3, <3>3
         DEF MapRefused, ToShell, IInv, BitmapSound, TestSound, MemtestHonest
  <2>4. CASE PageFault
    <3>1. TypeOK'
      BY <1>2, <2>1, <2>4 DEF PageFault, progVars, TypeOK, IInv, BitmapSound
    <3>. QED
      BY <1>2, <2>1, <2>2, <2>4, <3>1
         DEF PageFault, IInv, BitmapSound, TestSound, MemtestHonest
  <2>. QED
    BY <1>4, <2>3, <2>4
<1>. QED
  BY <1>3, <1>4

(* do_memtest: the page freed is the lowest free one, so it comes again.   *)
LEMMA ComesAgain == ASSUME IInv, MemtestAgain PROVE Lowest = p1
<1>1. p1 \in Unused /\ p1 \in Nat
  BY PageFacts DEF MemtestAgain, IInv, TestSound, Unused
<1>2. Lowest \in Unused /\ Lowest <= p1
  BY <1>1, LowestFree
<1>3. Lowest \in Nat /\ ~(Lowest < p1)
  BY <1>2, PageFacts DEF MemtestAgain, IInv, TestSound, Unused
<1>. QED
  BY <1>1, <1>2, <1>3

LEMMA MemtestSteps ==
  ASSUME IInv, Memtest
  PROVE  IInv'
<1>. USE DEF TestSteps, Test, Kept
<1>0. BitmapSound
  BY IInvBitmap
<1>1. CASE MemtestStart
  BY <1>1, QuietSteps
<1>2. CASE MemtestP1
  <2>1. BitmapSound' /\ Lowest \in Pool /\ Lowest \notin used /\ used \subseteq used'
    BY <1>0, <1>2, AllocateKeeps DEF MemtestP1, TakeZeroed
  <2>0. \A q \in Page : q < Lowest => q \in used
    <3>1. SUFFICES ASSUME NEW q \in Page, q < Lowest, q \notin used PROVE FALSE
      OBVIOUS
    <3>2. q \in Unused /\ q \in Nat /\ Lowest \in Nat
      BY <2>1, <3>1, PageFacts DEF Unused
    <3>3. Lowest <= q
      BY <3>2, LowestFree
    <3>. QED
      BY <3>1, <3>2, <3>3
  <2>2. content' \in [Pool -> {"junk", "zero", "file", "data", "pixels"}]
    BY <1>2, <2>1, ZeroedType DEF MemtestP1, TakeZeroed, IInv
  <2>3. TypeOK'
    BY <1>2, <2>1, <2>2 DEF MemtestP1, progVars, TypeOK, IInv, BitmapSound
  <2>4. PagesExclusive'
    BY <1>2, <2>1 DEF MemtestP1, IInv, PagesExclusive, Mapped
  <2>5. TestSound' /\ MemtestHonest'
    BY <1>2, <2>0, <2>1 DEF MemtestP1, TakeZeroed, Allocate, IInv, TestSound, MemtestHonest
  <2>. QED
    BY <2>1, <2>3, <2>4, <2>5 DEF IInv, BitmapSound
<1>3. CASE MemtestP2
  <2>1. BitmapSound' /\ Lowest \in Pool /\ Lowest \notin used /\ used \subseteq used'
    BY <1>0, <1>3, AllocateKeeps DEF MemtestP2, TakeZeroed
  <2>2. content' \in [Pool -> {"junk", "zero", "file", "data", "pixels"}]
    BY <1>3, <2>1, ZeroedType DEF MemtestP2, TakeZeroed, IInv
  <2>3. TypeOK'
    BY <1>3, <2>1, <2>2 DEF MemtestP2, progVars, TypeOK, IInv, BitmapSound
  <2>4. PagesExclusive'
    BY <1>3, <2>1 DEF MemtestP2, IInv, PagesExclusive, Mapped
  <2>5. TestSound' /\ MemtestHonest'
    BY <1>3, <2>1 DEF MemtestP2, IInv, TestSound, MemtestHonest
  <2>. QED
    BY <2>1, <2>3, <2>4, <2>5 DEF IInv, BitmapSound
<1>4. CASE MemtestNoPage
  <2>1. Quiet
    BY <1>4 DEF MemtestNoPage, Quiet, pageVars, testVars
  <2>. QED
    BY <1>4, <2>1, QuietKeeps
       DEF MemtestNoPage, pageVars, testVars, progVars, IInv, TypeOK, TestSound, MemtestHonest
<1>5. CASE MemtestFree
  <2>1. p1 \in Pool /\ p2 \in Pool /\ Release(p1)
    BY <1>5 DEF MemtestFree, IInv, TestSound
  <2>2. BitmapSound' /\ p1 \notin used' /\ used \ {p1} \subseteq used'
    BY <1>0, <2>1, ReleaseKeeps
  <2>3. TypeOK'
    BY <1>5, <2>2 DEF MemtestFree, testVars, progVars, TypeOK, IInv, BitmapSound
  <2>4. PagesExclusive'
    BY <1>5, <2>2 DEF MemtestFree, testVars, IInv, PagesExclusive, Mapped
  <2>5. \A q \in Page : q < p1 => q \in used'
    <3>1. \A q \in Page : q < p1 => q \in used
      BY <1>5 DEF MemtestFree, IInv, TestSound
    <3>2. \A q \in Page : q < p1 => q # p1
      BY <2>1, PageFacts
    <3>. QED
      BY <2>2, <3>1, <3>2
  <2>6. TestSound' /\ MemtestHonest'
    BY <1>5, <2>1, <2>2, <2>5 DEF MemtestFree, testVars, TestSound, MemtestHonest
  <2>. QED
    BY <2>2, <2>3, <2>4, <2>6 DEF IInv, BitmapSound
<1>6. CASE MemtestAgain
  <2>1. BitmapSound' /\ Lowest \in Pool /\ Lowest \notin used /\ used \subseteq used'
    BY <1>0, <1>6, AllocateKeeps DEF MemtestAgain
  <2>2. Lowest = p1
    BY <1>6, ComesAgain
  <2>3. pc' = "test_end1"
    BY <1>6, <2>2 DEF MemtestAgain
  <2>4. TypeOK'
    BY <1>6, <2>1, <2>3 DEF MemtestAgain, testVars, progVars, TypeOK, IInv, BitmapSound
  <2>5. PagesExclusive'
    BY <1>6, <2>1 DEF MemtestAgain, testVars, IInv, PagesExclusive, Mapped
  <2>6. TestSound' /\ MemtestHonest'
    BY <1>6, <2>3 DEF MemtestAgain, testVars, IInv, TestSound, MemtestHonest
  <2>. QED
    BY <2>1, <2>4, <2>5, <2>6 DEF IInv, BitmapSound
<1>7. CASE MemtestEnd1
  <2>1. p1 \in Pool /\ Release(p1)
    BY <1>7 DEF MemtestEnd1, IInv, TestSound
  <2>2. BitmapSound' /\ used \ {p1} \subseteq used'
    BY <1>0, <2>1, ReleaseKeeps
  <2>3. TypeOK'
    BY <1>7, <2>2 DEF MemtestEnd1, progVars, TypeOK, IInv, BitmapSound
  <2>4. PagesExclusive'
    BY <1>7, <2>2, PageFacts DEF MemtestEnd1, IInv, PagesExclusive, Mapped, None
  <2>5. TestSound' /\ MemtestHonest'
    BY <1>7 DEF MemtestEnd1, IInv, TestSound, MemtestHonest
  <2>. QED
    BY <2>2, <2>3, <2>4, <2>5 DEF IInv, BitmapSound
<1>8. CASE MemtestEnd2
  <2>1. p2 \in Pool /\ p1 = 0 /\ Release(p2)
    BY <1>8 DEF MemtestEnd2, IInv, TestSound
  <2>2. BitmapSound' /\ used \ {p2} \subseteq used'
    BY <1>0, <2>1, ReleaseKeeps
  <2>3. TypeOK'
    BY <1>8, <2>2 DEF MemtestEnd2, progVars, TypeOK, IInv, BitmapSound
  <2>4. PagesExclusive'
    BY <1>8, <2>2, PageFacts DEF MemtestEnd2, IInv, PagesExclusive, Mapped, None
  <2>5. TestSound' /\ MemtestHonest'
    BY <1>8, <2>1 DEF MemtestEnd2, IInv, TestSound, MemtestHonest
  <2>. QED
    BY <2>2, <2>3, <2>4, <2>5 DEF IInv, BitmapSound
<1>9. CASE MemtestFails
  <2>1. UNCHANGED <<used, freePages, userPt>> /\ Unused' = Unused
    BY <1>9 DEF MemtestFails, pageVars, Unused
  <2>2. TypeOK'
    <3>1. TestPages \subseteq Pool
      BY DEF TestPages, IInv, TypeOK
    <3>. QED
      BY <1>9, <3>1 DEF MemtestFails, pageVars, progVars, TypeOK, IInv
  <2>3. PagesExclusive'
    BY <1>9, <2>1, PageFacts DEF MemtestFails, IInv, PagesExclusive, Mapped, None
  <2>4. TestSound' /\ MemtestHonest'
    BY <1>9 DEF MemtestFails, TestSound, MemtestHonest
  <2>. QED
    BY <2>1, <2>2, <2>3, <2>4 DEF IInv, ReservedKept, CountExact
<1>. QED
  BY <1>1, <1>2, <1>3, <1>4, <1>5, <1>6, <1>7, <1>8, <1>9 DEF Memtest

LEMMA StepIInv ==
  ASSUME IInv, [Next]_vars
  PROVE  IInv'
<1>1. CASE Next
  BY <1>1, QuietSteps, AllocSteps, MemtestSteps DEF Next, Load
<1>2. CASE UNCHANGED vars
  BY <1>2 DEF vars, IInv, TypeOK, ReservedKept, CountExact, PagesExclusive, TestSound,
              MemtestHonest, Unused, Mapped
<1>. QED
  BY <1>1, <1>2

(* The inductive invariant: the bitmap, its counter and the page table     *)
(* agree, and do_memtest's pages are the lowest that were free.            *)
THEOREM Invariance == Spec => []IInv
BY InitIInv, StepIInv, PTL DEF Spec

(* Everything stays in range, whatever programs are loaded.                *)
THEOREM TypeCorrect == Spec => []TypeOK
<1>1. IInv => TypeOK
  BY DEF IInv
<1>. QED
  BY <1>1, Invariance, PTL

(* free_pages is exact.                                                    *)
THEOREM CounterCorrect == Spec => []CountExact
<1>1. IInv => CountExact
  BY DEF IInv
<1>. QED
  BY <1>1, Invariance, PTL

(* No page is ever mapped twice or taken from the kernel.                  *)
THEOREM Exclusive == Spec => []PagesExclusive
<1>1. IInv => PagesExclusive
  BY DEF IInv
<1>. QED
  BY <1>1, Invariance, PTL

(* memtest fails only when memory has run out.                             *)
THEOREM MemtestCorrect == Spec => []MemtestHonest
<1>1. IInv => MemtestHonest
  BY DEF IInv
<1>. QED
  BY <1>1, Invariance, PTL

(* Bitmap, counter and page table agree, whatever was loaded before.       *)
THEOREM Sound == Spec => []PagesSound
BY TypeCorrect, CounterCorrect, Exclusive, PTL DEF PagesSound

-----------------------------------------------------------------------------
(* Where the pages are.  The bitmap is filled from below: behind the       *)
(* boot's pages come those handed to programs, then memtest's two.  When   *)
(* memory has run out it stays so, and a fault stops the machine.          *)
Programs == 0 .. BootPages + spent - 1
Tested == {p \in {p1, p2} : p # 0 /\ ~(pc = "test_again" /\ p = p1)}
Filling ==
  /\ used = Programs \cup Tested
  /\ p1 \in {0, BootPages + spent} /\ p2 \in {0, BootPages + spent + 1}
Exhausted == Unused = {} /\ pc \notin {"test_free", "test_again", "test_end1", "test_end2"}
Orderly == pc = "halted" \/ Exhausted \/ Filling
MappedLow == \A s \in Mapped : userPt[s] < BootPages + spent

LEMMA LowestIs ==
  ASSUME BitmapSound, Unused # {}, NEW n \in Nat, used = 0 .. n - 1
  PROVE  Lowest = n
<1>1. Lowest \in Page /\ Lowest \notin used /\ \A q \in Page \ used : Lowest <= q
  BY LowestFree DEF Unused
<1>2. Lowest \in Nat /\ Lowest >= n
  BY <1>1, PageFacts
<1>3. n \in Page \ used
  BY <1>1, <1>2 DEF Page
<1>. QED
  BY <1>1, <1>2, <1>3

(* The steps that take no page and give none back.                         *)
LEMMA OrderlyQuiet ==
  ASSUME IInv, Orderly, MappedLow, UNCHANGED <<used, userPt, p1, p2, spent>>,
         pc' = "halted" \/ (pc \notin TestSteps /\ pc' \notin TestSteps \ {"test_p1"}),
         pc # "halted"
  PROVE  Orderly' /\ MappedLow'
<1>1. MappedLow'
  BY DEF MappedLow, Mapped
<1>2. Orderly'
  BY DEF Orderly, Exhausted, Filling, Programs, Tested, Unused, TestSteps
<1>. QED
  BY <1>1, <1>2

LEMMA OrderlyLoad ==
  ASSUME IInv, Orderly, MappedLow, Load \/ PageFault
  PROVE  Orderly' /\ MappedLow'
<1>. USE DEF TestSteps
<1>1. CASE MapPage \/ MapRefused
  <2>1. /\ Unused # {} /\ pc \in {"image", "stack"} /\ p1 = 0 /\ p2 = 0
        /\ used' = used \cup {Lowest} /\ spent' = spent + 1 /\ UNCHANGED <<p1, p2>>
        /\ pc' \in {"image", "file", "stack", "bss", "shell"}
    BY <1>1 DEF MapPage, MapRefused, TakeZeroed, Allocate, IInv, TestSound, testVars, ToShell, Following
  <2>2. spent \in Nat /\ BootPages \in Nat
    BY DEF IInv, TypeOK
  <2>3. used = 0 .. (BootPages + spent) - 1
    <3>1. Filling /\ Tested = {}
      BY <2>1 DEF Orderly, Exhausted, Tested
    <3>2. used = Programs
      BY <3>1, Zenon DEF Filling
    <3>. QED
      BY <2>2, <3>2 DEF Programs
  <2>4. Lowest = BootPages + spent
    BY <2>1, <2>2, <2>3, LowestIs, IInvBitmap
  <2>5. Filling'
    BY <2>1, <2>2, <2>3, <2>4 DEF Filling, Programs, Tested
  <2>6. CASE MapPage
    <3>1. at % UserPages \in Slot
      BY <2>6, PageFacts DEF MapPage, InTable, Slot
    <3>2. \A s \in Slot : userPt'[s] = IF s = at % UserPages THEN Lowest ELSE userPt[s]
      BY <2>6, <3>1 DEF MapPage, IInv, TypeOK
    <3>3. \A s \in Mapped' : userPt'[s] = Lowest \/ (s \in Mapped /\ userPt'[s] = userPt[s])
      BY <3>2 DEF Mapped
    <3>4. \A s \in Mapped : userPt[s] < BootPages + spent /\ userPt[s] \in Nat
      BY PageFacts DEF MappedLow, IInv, PagesExclusive
    <3>. QED
      BY <2>1, <2>2, <2>4, <2>5, <3>3, <3>4 DEF MappedLow, Orderly
  <2>7. CASE MapRefused
    <3>1. \A s \in Mapped : userPt[s] < BootPages + spent /\ userPt[s] \in Nat
      BY PageFacts DEF MappedLow, IInv, PagesExclusive
    <3>2. userPt' = userPt
      BY <2>7 DEF MapRefused
    <3>. QED
      BY <2>1, <2>2, <2>5, <3>1, <3>2 DEF MappedLow, Mapped, Orderly
  <2>. QED
    BY <1>1, <2>6, <2>7
<1>2. CASE PageFault
  BY <1>2 DEF PageFault, Orderly, MappedLow, Mapped
<1>3. CASE \/ \E i \in Images : Run(i[1], i[2], i[3])
           \/ NoPageToMap \/ ReadFile \/ ReadFails \/ ZeroBss \/ LoadFaults \/ Enter
  <2>1. /\ UNCHANGED <<used, userPt, p1, p2, spent>>
        /\ pc \notin TestSteps /\ pc' \notin TestSteps /\ pc # "halted"
    BY <1>3 DEF Run, NoPageToMap, ReadFile, ReadFails, ZeroBss, LoadFaults, WriteFaults, Enter, ToShell,
                pageVars, testVars
  <2>. QED
    BY <2>1, OrderlyQuiet
<1>. QED
  BY <1>1, <1>2, <1>3 DEF Load

LEMMA OrderlyMemtest ==
  ASSUME IInv, Orderly, MappedLow, Memtest
  PROVE  Orderly' /\ MappedLow'
<1>. USE DEF TestSteps, Test, Kept
<1>0. /\ UNCHANGED <<userPt, spent>> /\ spent \in Nat /\ BootPages \in Nat /\ BootPages > 0
      /\ pc # "halted"
  BY DEF Memtest, MemtestStart, MemtestP1, MemtestP2, MemtestNoPage, MemtestFree, MemtestAgain,
         MemtestEnd1, MemtestEnd2, MemtestFails, IInv, TypeOK
<1>m. MappedLow'
  BY <1>0 DEF MappedLow, Mapped
<1>p. p1 \in Nat /\ p2 \in Nat
  <2>1. p1 \in Pool \cup {0} /\ p2 \in Pool \cup {0}
    BY DEF IInv, TypeOK
  <2>2. Pool \subseteq Nat
    BY PageFacts
  <2>. QED
    BY <2>1, <2>2
<1>1. CASE MemtestStart
  BY <1>0, <1>1, OrderlyQuiet DEF MemtestStart, pageVars, testVars
<1>2. CASE MemtestP1
  <2>1. /\ Unused # {} /\ used' = used \cup {Lowest} /\ p1' = Lowest /\ p1 = 0 /\ p2 = 0 /\ p2' = p2
        /\ pc = "test_p1" /\ pc' = "test_p2"
    BY <1>2 DEF MemtestP1, TakeZeroed, Allocate, IInv, TestSound
  <2>2. used = 0 .. (BootPages + spent) - 1
    <3>1. Filling /\ Tested = {}
      BY <2>1 DEF Orderly, Exhausted, Tested
    <3>2. used = Programs
      BY <3>1, Zenon DEF Filling
    <3>. QED
      BY <1>0, <3>2 DEF Programs
  <2>3. Lowest = BootPages + spent
    BY <1>0, <2>1, <2>2, LowestIs, IInvBitmap
  <2>4. Filling'
    BY <1>0, <2>1, <2>2, <2>3 DEF Filling, Programs, Tested
  <2>. QED
    BY <1>m, <2>4 DEF Orderly
<1>3. CASE MemtestP2
  <2>1. /\ Unused # {} /\ used' = used \cup {Lowest} /\ p2' = Lowest /\ p1' = p1 /\ p2 = 0
        /\ pc = "test_p2" /\ pc' = "test_free" /\ p1 # 0
    BY <1>3, PageFacts DEF MemtestP2, TakeZeroed, Allocate, IInv, TestSound
  <2>2. p1 = BootPages + spent /\ used = Programs \cup {p1}
    BY <2>1 DEF Orderly, Exhausted, Filling, Tested
  <2>3. used = 0 .. (BootPages + spent + 1) - 1
    BY <1>0, <2>2 DEF Programs
  <2>4. Lowest = BootPages + spent + 1
    BY <1>0, <2>1, <2>3, LowestIs, IInvBitmap
  <2>5. Filling'
    BY <1>0, <2>1, <2>2, <2>4 DEF Filling, Programs, Tested
  <2>. QED
    BY <1>m, <2>5 DEF Orderly
<1>4. CASE MemtestNoPage
  BY <1>m, <1>4 DEF MemtestNoPage, Orderly, Exhausted, Unused, pageVars
<1>5. CASE MemtestFree
  <2>1. /\ pc = "test_free" /\ pc' = "test_again" /\ p1' = p1 /\ p2' = p2 /\ p1 # 0 /\ p2 # 0 /\ Release(p1)
    BY <1>5, PageFacts DEF MemtestFree, IInv, TestSound, testVars
  <2>2. used = Programs \cup {p1, p2} /\ p1 = BootPages + spent /\ p2 = BootPages + spent + 1
    BY <2>1 DEF Orderly, Exhausted, Filling, Tested
  <2>3. used' = used \ {p1}
    BY <2>1, <2>2 DEF Release
  <2>4. Filling'
    BY <1>0, <2>1, <2>2, <2>3 DEF Filling, Programs, Tested
  <2>. QED
    BY <1>m, <2>4 DEF Orderly
<1>6. CASE MemtestAgain
  <2>1. /\ pc = "test_again" /\ p1' = p1 /\ p2' = p2 /\ p1 # 0 /\ p2 # 0 /\ used' = used \cup {Lowest}
        /\ Unused # {} /\ pc' = IF Lowest = p1 THEN "test_end1" ELSE "test_fails"
    BY <1>6, PageFacts DEF MemtestAgain, Allocate, IInv, TestSound, testVars
  <2>2. used = Programs \cup ({p2} \ {p1}) /\ p1 = BootPages + spent /\ p2 = BootPages + spent + 1
    BY <2>1 DEF Orderly, Exhausted, Filling, Tested
  <2>3. Lowest = p1
    <3>1. Lowest \in Unused /\ \A q \in Unused : Lowest <= q
      BY <2>1, LowestFree
    <3>2. p1 \in Unused
      BY <2>1 DEF IInv, TestSound, Unused, Page, Pool
    <3>3. Lowest \in Nat /\ Lowest >= p1
      BY <1>0, <2>2, <3>1, PageFacts DEF Unused, Programs
    <3>. QED
      BY <3>1, <3>2, <3>3, <1>p
  <2>4. Filling'
    BY <1>0, <2>1, <2>2, <2>3 DEF Filling, Programs, Tested
  <2>. QED
    BY <1>m, <2>4 DEF Orderly
<1>7. CASE MemtestEnd1
  <2>1. /\ pc = "test_end1" /\ pc' = "test_end2" /\ p1' = 0 /\ p2' = p2 /\ p1 # 0 /\ p2 # 0 /\ Release(p1)
    BY <1>7, PageFacts DEF MemtestEnd1, IInv, TestSound
  <2>2. used = Programs \cup {p1, p2} /\ p1 = BootPages + spent /\ p2 = BootPages + spent + 1
    BY <2>1 DEF Orderly, Exhausted, Filling, Tested
  <2>3. used' = used \ {p1}
    BY <2>1, <2>2 DEF Release
  <2>4. Filling'
    BY <1>0, <2>1, <2>2, <2>3 DEF Filling, Programs, Tested
  <2>. QED
    BY <1>m, <2>4 DEF Orderly
<1>8. CASE MemtestEnd2
  <2>1. /\ pc = "test_end2" /\ pc' = "shell" /\ p1 = 0 /\ p1' = p1 /\ p2' = 0 /\ p2 # 0 /\ Release(p2)
    BY <1>8, PageFacts DEF MemtestEnd2, IInv, TestSound
  <2>2. used = Programs \cup {p2} /\ p2 = BootPages + spent + 1
    BY <2>1 DEF Orderly, Exhausted, Filling, Tested
  <2>3. used' = used \ {p2}
    BY <2>1, <2>2 DEF Release
  <2>4. Filling'
    BY <1>0, <2>1, <2>2, <2>3 DEF Filling, Programs, Tested
  <2>. QED
    BY <1>m, <2>4 DEF Orderly
<1>9. CASE MemtestFails
  BY <1>m, <1>9 DEF MemtestFails, IInv, MemtestHonest, Orderly, Exhausted, Unused, pageVars
<1>. QED
  BY <1>1, <1>2, <1>3, <1>4, <1>5, <1>6, <1>7, <1>8, <1>9 DEF Memtest

LEMMA StepOrderly ==
  ASSUME IInv, Orderly, MappedLow, [Next]_vars
  PROVE  Orderly' /\ MappedLow'
<1>1. CASE Draw \/ (\E s \in Slot : ProgramWrites(s)) \/ ProgramEnds \/ ProgramFaults
  <2>1. /\ UNCHANGED <<used, userPt, p1, p2, spent>>
        /\ \/ pc' = "halted"
           \/ pc \notin TestSteps /\ pc' \notin TestSteps \ {"test_p1"}
        /\ pc # "halted"
    BY <1>1 DEF Draw, ProgramWrites, ProgramEnds, ProgramFaults, ToShell, pageVars, testVars, TestSteps
  <2>. QED
    BY <2>1, OrderlyQuiet
<1>2. CASE UNCHANGED vars
  BY <1>2 DEF vars, Orderly, Exhausted, Filling, Programs, Tested, Unused, MappedLow, Mapped
<1>. QED
  BY <1>1, <1>2, OrderlyLoad, OrderlyMemtest DEF Next

LEMMA Order == Spec => [](Orderly /\ MappedLow)
<1>1. Init => Orderly /\ MappedLow
  <2>. SUFFICES ASSUME Init PROVE Orderly /\ MappedLow
    OBVIOUS
  <2>1. MappedLow
    BY DEF Init, MappedLow, Mapped
  <2>2. Filling
    BY DEF Init, Filling, Programs, Tested, Reserved
  <2>. QED
    BY <2>1, <2>2 DEF Orderly
<1>2. IInv /\ (Orderly /\ MappedLow) /\ [Next]_vars => (Orderly /\ MappedLow)'
  BY StepOrderly
<1>. QED
  BY <1>1, <1>2, Invariance, PTL DEF Spec

(* The steps that change no page's owner.                                  *)
LEMMA AccountedQuiet ==
  ASSUME PagesAccounted, UNCHANGED <<used, userPt, p1, p2, lost>>
  PROVE  PagesAccounted'
BY DEF PagesAccounted, HeldPages, Mapped, TestPages

(* A fresh page is nobody's: mapped, it takes the place of the page that   *)
(* the slot forgets; refused, or found unmapped, it is lost itself.        *)
LEMMA AccountedAllocates ==
  ASSUME IInv, PagesAccounted, MapPage \/ MapRefused \/ PageFault
  PROVE  PagesAccounted'
<1>1. Unused # {} /\ Allocate(Lowest)
  BY DEF MapPage, MapRefused, PageFault, TakeZeroed
<1>2. Lowest \in Pool /\ Lowest \notin used /\ used' = used \cup {Lowest}
  BY <1>1, IInvBitmap, AllocateKeeps DEF Allocate
<1>3. UNCHANGED <<p1, p2>> /\ p1 \in used \cup {0} /\ p2 = 0 /\ Lowest # 0
  BY <1>2, PageFacts DEF MapPage, MapRefused, PageFault, ToShell, testVars, IInv, TestSound, TakesPage, TestSteps
<1>5. TestPages' = TestPages
  BY <1>2, <1>3 DEF TestPages
<1>6. CASE MapPage
  <2>1. at \in Slot /\ at % UserPages = at
    BY <1>6, PageFacts DEF MapPage, InTable, Slot
  <2>2. \A s \in Slot : userPt'[s] = IF s = at THEN Lowest ELSE userPt[s]
    BY <1>6, <2>1 DEF MapPage, IInv, TypeOK
  <2>. DEFINE Old == {userPt[at]} \ {None}
  <2>3. HeldPages' = (HeldPages \ Old) \cup {Lowest}
    <3>1. Lowest # None
      BY <1>2, PageFacts DEF None
    <3>2. ASSUME NEW p PROVE p \in HeldPages' <=> p = Lowest \/ (p \in HeldPages /\ p \notin Old)
      <4>1. ASSUME p \in HeldPages' PROVE p = Lowest \/ (p \in HeldPages /\ p \notin Old)
        <5>1. PICK s \in Slot : userPt'[s] # None /\ p = userPt'[s]
          BY <4>1 DEF HeldPages, Mapped
        <5>. QED
          BY <2>1, <2>2, <5>1 DEF HeldPages, Mapped, IInv, PagesExclusive
      <4>2. ASSUME p = Lowest PROVE p \in HeldPages'
        BY <2>1, <2>2, <3>1, <4>2 DEF HeldPages, Mapped
      <4>3. ASSUME p \in HeldPages, p \notin Old PROVE p \in HeldPages'
        <5>1. PICK s \in Slot : userPt[s] # None /\ p = userPt[s]
          BY <4>3 DEF HeldPages, Mapped
        <5>2. s # at
          BY <4>3, <5>1
        <5>. QED
          BY <2>2, <5>1, <5>2 DEF HeldPages, Mapped
      <4>. QED
        BY <4>1, <4>2, <4>3
    <3>. QED
      BY <3>2
  <2>4. Old \subseteq HeldPages /\ HeldPages \cap TestPages = {} /\ HeldPages \cap Reserved = {}
    BY <2>1, PageFacts DEF HeldPages, Mapped, TestPages, IInv, PagesExclusive
  <2>5. lost' = lost \cup Old
    BY <1>6 DEF MapPage
  <2>6. Lowest \notin Reserved
    BY <1>2, PageFacts
  <2>. HIDE DEF Old
  <2>. QED
    BY <1>2, <1>5, <2>3, <2>4, <2>5, <2>6 DEF PagesAccounted
<1>7. CASE MapRefused \/ PageFault
  <2>1. lost' = lost \cup {Lowest} /\ userPt' = userPt
    BY <1>7 DEF MapRefused, PageFault
  <2>2. HeldPages' = HeldPages
    BY <2>1 DEF HeldPages, Mapped
  <2>3. Lowest \notin Reserved
    BY <1>2, PageFacts
  <2>. QED
    BY <1>2, <1>5, <2>1, <2>2, <2>3 DEF PagesAccounted
<1>. QED
  BY <1>6, <1>7

(* memtest's pages leave the bitmap, or are lost with its FAIL.            *)
LEMMA AccountedGivesBack ==
  ASSUME IInv, PagesAccounted, NEW p \in Pool \cap {p1, p2}, Release(p),
         TestPages' = TestPages \ {p}, UNCHANGED <<userPt, lost>>
  PROVE  PagesAccounted'
<1>1. used' = used \ {p}
  BY DEF Release, pageVars
<1>2. HeldPages' = HeldPages /\ p \notin HeldPages /\ p \notin Reserved
  BY PageFacts DEF HeldPages, Mapped, IInv, PagesExclusive
<1>3. p \in used => p \in TestPages
  BY PageFacts DEF TestPages
<1>. QED
  BY <1>1, <1>2, <1>3 DEF PagesAccounted

LEMMA AccountedTests ==
  ASSUME IInv, PagesAccounted, Memtest
  PROVE  PagesAccounted'
<1>. USE DEF TestSteps, Test, Kept
<1>1. HeldPages' = HeldPages /\ userPt' = userPt
  BY DEF Memtest, MemtestStart, MemtestP1, MemtestP2, MemtestNoPage, MemtestFree, MemtestAgain,
         MemtestEnd1, MemtestEnd2, MemtestFails, HeldPages, Mapped
<1>2. HeldPages \cap TestPages = {} /\ TestPages \cap Reserved = {} /\ lost \subseteq used
  BY PageFacts DEF HeldPages, Mapped, TestPages, IInv, TypeOK, PagesExclusive, PagesAccounted
<1>3. ASSUME Unused # {}, Allocate(Lowest), TestPages' = TestPages \cup {Lowest}, lost' = lost
      PROVE  PagesAccounted'
  <2>1. Lowest \notin used /\ used' = used \cup {Lowest} /\ Lowest \notin Reserved
    BY <1>3, IInvBitmap, AllocateKeeps, PageFacts DEF Allocate
  <2>. QED
    BY <1>1, <1>2, <1>3, <2>1 DEF PagesAccounted
<1>4. ASSUME Unused # {}, Allocate(Lowest) PROVE used' = used \cup {Lowest} /\ Lowest # 0
  BY <1>4, IInvBitmap, AllocateKeeps, PageFacts DEF Allocate
<1>5. CASE MemtestStart \/ MemtestNoPage
  BY <1>5, AccountedQuiet DEF MemtestStart, MemtestNoPage, pageVars, testVars
<1>6. CASE MemtestP1
  BY <1>3, <1>4, <1>6 DEF MemtestP1, TakeZeroed, IInv, TestSound, TestPages
<1>7. CASE MemtestP2
  BY <1>3, <1>4, <1>7 DEF MemtestP2, TakeZeroed, IInv, TestSound, TestPages
<1>8. CASE MemtestFree
  <2>1. p1 \in Pool /\ Release(p1) /\ UNCHANGED <<p1, p2, lost>>
    BY <1>8 DEF MemtestFree, testVars, IInv, TestSound
  <2>2. TestPages' = TestPages \ {p1}
    BY <2>1 DEF TestPages, Release, pageVars
  <2>. QED
    BY <1>1, <2>1, <2>2, AccountedGivesBack
<1>9. CASE MemtestAgain
  <2>1. Lowest = p1 /\ UNCHANGED <<p1, p2>> /\ lost' = lost
    BY <1>9, ComesAgain DEF MemtestAgain, testVars
  <2>2. TestPages' = TestPages \cup {Lowest}
    BY <1>4, <1>9, <2>1 DEF MemtestAgain, TestPages
  <2>. QED
    BY <1>3, <1>9, <2>1, <2>2 DEF MemtestAgain
<1>10. CASE MemtestEnd1
  <2>1. p1 \in Pool /\ Release(p1) /\ p1' = 0 /\ UNCHANGED <<p2, lost>>
    BY <1>10 DEF MemtestEnd1, IInv, TestSound
  <2>2. TestPages' = TestPages \ {p1}
    BY <2>1 DEF TestPages, Release, pageVars
  <2>. QED
    BY <1>1, <2>1, <2>2, AccountedGivesBack
<1>11. CASE MemtestEnd2
  <2>1. p1 = 0 /\ p1' = 0 /\ p2 \in Pool /\ Release(p2) /\ p2' = 0 /\ UNCHANGED lost
    BY <1>11 DEF MemtestEnd2, IInv, TestSound
  <2>2. TestPages' = TestPages \ {p2}
    BY <2>1 DEF TestPages, Release, pageVars
  <2>. QED
    BY <1>1, <2>1, <2>2, AccountedGivesBack
<1>12. CASE MemtestFails
  <2>1. used' = used /\ p1' = 0 /\ p2' = 0 /\ lost' = lost \cup TestPages
    BY <1>12 DEF MemtestFails, pageVars
  <2>2. TestPages' = {}
    BY <2>1 DEF TestPages
  <2>. QED
    BY <1>1, <1>2, <2>1, <2>2 DEF PagesAccounted
<1>. QED
  BY <1>5, <1>6, <1>7, <1>8, <1>9, <1>10, <1>11, <1>12 DEF Memtest

(* Every page in use is the boot's, in a slot of the page table, memtest's *)
(* or lost, and a page is lost only when its slot is mapped anew or        *)
(* refused, by memtest's FAIL, or by a fault.                              *)
THEOREM Accounted == Spec => []PagesAccounted
<1>1. Init => PagesAccounted
  BY DEF Init, PagesAccounted, HeldPages, Mapped, TestPages
<1>2. IInv /\ PagesAccounted /\ [Next]_vars => PagesAccounted'
  <2>. SUFFICES ASSUME IInv, PagesAccounted, [Next]_vars PROVE PagesAccounted'
    OBVIOUS
  <2>1. CASE MapPage \/ MapRefused \/ PageFault
    BY <2>1, AccountedAllocates
  <2>2. CASE Memtest
    BY <2>2, AccountedTests
  <2>3. CASE \/ \E i \in Images : Run(i[1], i[2], i[3])
             \/ NoPageToMap \/ ReadFile \/ ReadFails \/ ZeroBss \/ LoadFaults \/ Enter \/ Draw
             \/ (\E s \in Slot : ProgramWrites(s)) \/ ProgramEnds \/ ProgramFaults
    <3>1. UNCHANGED <<used, userPt, p1, p2, lost>>
      BY <2>3 DEF Run, NoPageToMap, ReadFile, ReadFails, ZeroBss, LoadFaults, WriteFaults, Enter, Draw,
                  ProgramWrites, ProgramEnds, ProgramFaults, ToShell, pageVars, testVars
    <3>. QED
      BY <3>1, AccountedQuiet
  <2>4. CASE UNCHANGED vars
    BY <2>4, AccountedQuiet DEF vars
  <2>. QED
    BY <2>1, <2>2, <2>3, <2>4 DEF Next, Load
<1>. QED
  BY <1>1, <1>2, Invariance, PTL DEF Spec

(* Before all pages below the back buffer have been handed out, no         *)
(* program's page lies in it: pages are handed out from below.             *)
THEOREM Apart == Spec => []BackBufferApart
<1>1. IInv /\ MappedLow => BackBufferApart
  <2>. SUFFICES ASSUME IInv, MappedLow, spent <= Spare, NEW s \in Mapped, userPt[s] \in Back
                PROVE  FALSE
    BY DEF BackBufferApart
  <2>. DEFINE b == userPt[s]
              Below == {p \in Pool : \A c \in Back : p < c}
  <2>1. b \in Nat /\ b < BootPages + spent /\ spent \in Nat /\ BootPages \in Nat /\ b \in Pool
    BY PageFacts DEF MappedLow, IInv, TypeOK, PagesExclusive
  <2>. HIDE DEF b
  <2>2. Below \in SUBSET (BootPages .. b - 1)
    BY <2>1, PageFacts DEF b, Pool
  <2>3. IsFiniteSet(BootPages .. b - 1) /\ Cardinality(BootPages .. b - 1) = b - BootPages
    <3>1. BootPages \in Int /\ b - 1 \in Int /\ b >= BootPages
      BY <2>1 DEF Pool
    <3>2. /\ IsFiniteSet(BootPages .. b - 1)
          /\ Cardinality(BootPages .. b - 1) =
               IF BootPages > b - 1 THEN 0 ELSE (b - 1) - BootPages + 1
      BY <3>1, FS_Interval
    <3>. QED
      BY <2>1, <3>1, <3>2
  <2>. HIDE DEF Below
  <2>4. Cardinality(Below) <= b - BootPages /\ Cardinality(Below) \in Nat
    BY <2>2, <2>3, FS_Subset, FS_CardinalityType
  <2>5. Spare = Cardinality(Below)
    BY DEF Spare, Below
  <2>. QED
    BY <2>1, <2>4, <2>5
<1>. QED
  BY <1>1, Invariance, Order, PTL

-----------------------------------------------------------------------------
(* How far loading has come: the slots that are the program's by now, and  *)
(* what their pages hold.                                                  *)
Own(s) ==
  \/ pc = "image" /\ s < at
  \/ pc \in {"file", "stack", "bss", "enter"} /\ s < Total
  \/ pc = "stack" /\ UserPages - StackPages <= s /\ s < at
  \/ pc \in {"bss", "enter"} /\ UserPages - StackPages <= s
Awaited(s) == IF pc \in {"stack", "bss", "enter"} /\ s < Got THEN "file" ELSE "zero"
Loading ==
  /\ pc = "image" => at < Total
  /\ pc = "stack" => UserPages - StackPages <= at /\ at < UserPages
  /\ Fits =>
       /\ \A s \in Slot : Own(s) => userPt[s] # None
       /\ (\A s \in Slot : Own(s) => userPt[s] \notin Window) =>
            \A s \in Slot : Own(s) => content[userPt[s]] = Awaited(s)

(* A program that fits has sizes whose sum does not wrap, and its slots    *)
(* are reached at their own addresses.                                     *)
LEMMA WindowFits ==
  /\ UserBase \in Nat /\ UserPages \in Nat /\ Width \in Nat /\ StackPages \in Nat
  /\ 0 < StackPages /\ StackPages < UserPages /\ UserBase + UserPages <= Width
<1>1. /\ {TotalPages, Width, BootPages, UserBase, UserPages, StackPages} \subseteq Nat
      /\ 0 < StackPages /\ StackPages < UserPages /\ TotalPages <= Width /\ Window \subseteq Pool
  BY PagesAssumption
<1>2. UserBase + UserPages - 1 \in Window
  BY <1>1 DEF Window
<1>3. UserBase + UserPages - 1 \in Pool
  BY <1>1, <1>2
<1>4. UserBase + UserPages - 1 <= TotalPages - 1
  BY <1>1, <1>3 DEF Pool
<1>. QED
  BY <1>1, <1>4

LEMMA TotalNat == ASSUME TypeOK PROVE Total \in Nat
<1>1. load + bss \in Nat /\ Width \in Nat /\ Width > 0
  BY WindowFits DEF TypeOK
<1>. QED
  BY <1>1 DEF Total

LEMMA FitsTotal ==
  ASSUME TypeOK, Fits
  PROVE  /\ load \in Nat /\ bss \in Nat /\ Total = load + bss /\ Total + StackPages <= UserPages
         /\ Got \in Nat /\ Got <= load
<1>1. load \in Nat /\ bss \in Nat /\ size \in Nat /\ load + bss + StackPages <= UserPages
  BY DEF TypeOK, Fits
<1>2. load + bss \in Nat /\ load + bss < Width
  BY <1>1, WindowFits
<1>3. (load + bss) % Width = load + bss
  BY <1>2, WindowFits
<1>. QED
  BY <1>1, <1>3 DEF Total, Got

LEMMA SlotAddress ==
  ASSUME NEW s \in Slot
  PROVE  (UserBase + s) % Width = UserBase + s /\ Reached(UserBase + s) = userPt[s]
<1>1. s \in Nat /\ s < UserPages /\ UserBase + s < Width /\ UserBase + s \in Window
  BY WindowFits DEF Slot, Window
<1>2. (UserBase + s) % Width = UserBase + s
  BY <1>1, WindowFits
<1>3. (UserBase + s) - UserBase = s
  BY <1>1, WindowFits
<1>. QED
  BY <1>1, <1>2, <1>3 DEF Reached

Filled(slots, what) ==
  [p \in Pool |-> IF \E s \in slots : userPt[s] = p THEN what ELSE content[p]]

LEMMA WrittenFills ==
  ASSUME NEW slots \in SUBSET Slot, NEW what
  PROVE  Written(Behind(slots), what) = Filled(slots, what)
<1>1. ASSUME NEW p
      PROVE  (\E a \in Behind(slots) : Reached(a) = p) <=> (\E s \in slots : userPt[s] = p)
  <2>1. \A s \in slots : (UserBase + s) % Width = UserBase + s /\ Reached(UserBase + s) = userPt[s]
    BY SlotAddress
  <2>. QED
    BY <2>1 DEF Behind
<1>. QED
  BY <1>1 DEF Written, Filled

LEMMA LoadingIdle ==
  ASSUME pc' \notin {"image", "file", "stack", "bss", "enter"}
  PROVE  Loading'
BY DEF Loading, Own

(* The page mapped is fresh and holds zeros, and clearing it touches no    *)
(* other page unless it lies in the window.                                *)
LEMMA LoadingMaps ==
  ASSUME IInv, Loading, MapPage
  PROVE  Loading'
<1>. USE DEF None
<1>1. /\ pc \in {"image", "stack"} /\ at \in Slot /\ Unused # {} /\ UNCHANGED <<load, bss>>
      /\ used' = used \cup {Lowest} /\ content' = Zeroed(Lowest)
      /\ pc' = Following[1] /\ at' = Following[2]
  BY DEF MapPage, TakeZeroed, Allocate, InTable, progVars
<1>2. Lowest \in Pool /\ Lowest \notin used /\ Lowest # 0
  BY <1>1, IInvBitmap, AllocateKeeps, PageFacts DEF Allocate, MapPage, TakeZeroed
<1>3. at % UserPages = at /\ at \in Nat /\ at < UserPages
  BY <1>1, PageFacts DEF Slot
<1>4. \A s \in Slot : userPt'[s] = IF s = at THEN Lowest ELSE userPt[s]
  BY <1>1, <1>3 DEF MapPage, IInv, TypeOK
<1>5. /\ load \in Nat /\ bss \in Nat /\ Total \in Nat /\ Total' = Total
      /\ Got' = Got /\ (Fits' <=> Fits)
  BY <1>1, TotalNat DEF MapPage, progVars, IInv, TypeOK, Total, Got, Fits
<1>6. UserPages \in Nat /\ StackPages \in Nat /\ 0 < StackPages /\ StackPages < UserPages
  OBVIOUS
<1>7. /\ pc' = "image" => at' < Total
      /\ pc' = "stack" => UserPages - StackPages <= at' /\ at' < UserPages
  BY <1>1, <1>3, <1>5, <1>6 DEF Following, Loading
<1>8. \A s \in Slot : Own(s)' <=> Own(s) \/ s = at
  <2>1. CASE pc = "image"
    <3>1. CASE at + 1 < Total
      <4>1. pc' = "image" /\ at' = at + 1
        BY <1>1, <2>1, <3>1 DEF Following
      <4>. QED
        BY <2>1, <4>1, <1>3 DEF Own, Slot
    <3>2. CASE ~(at + 1 < Total)
      <4>1. pc' = "file" /\ Total = at + 1
        BY <1>1, <1>3, <1>5, <2>1, <3>2 DEF Following, Loading
      <4>. QED
        BY <2>1, <4>1, <1>3, <1>5 DEF Own, Slot
    <3>. QED
      BY <3>1, <3>2
  <2>2. CASE pc = "stack"
    <3>0. UserPages - StackPages <= at
      BY <2>2 DEF Loading
    <3>1. CASE at + 1 < UserPages
      <4>1. pc' = "stack" /\ at' = at + 1
        BY <1>1, <2>2, <3>1 DEF Following
      <4>. QED
        BY <2>2, <3>0, <4>1, <1>3, <1>5, <1>6 DEF Own, Slot
    <3>2. CASE ~(at + 1 < UserPages)
      <4>1. pc' = "bss" /\ UserPages = at + 1
        BY <1>1, <1>3, <2>2, <3>2 DEF Following
      <4>2. ASSUME NEW s \in Slot
            PROVE  /\ Own(s)' <=> s < Total \/ UserPages - StackPages <= s
                   /\ Own(s) <=> s < Total \/ (UserPages - StackPages <= s /\ s < at)
        BY <2>2, <4>1, <1>5 DEF Own
      <4>3. \A s \in Slot : s < at \/ s = at
        BY <4>1, <1>3 DEF Slot
      <4>. QED
        BY <3>0, <4>2, <4>3, <1>3
    <3>. QED
      BY <3>1, <3>2
  <2>. QED
    BY <1>1, <2>1, <2>2
<1>9. SUFFICES ASSUME Fits
               PROVE  /\ \A s \in Slot : Own(s)' => userPt'[s] # None
                      /\ (\A s \in Slot : Own(s)' => userPt'[s] \notin Window) =>
                           \A s \in Slot : Own(s)' => content'[userPt'[s]] = Awaited(s)'
  BY <1>5, <1>7 DEF Loading
<1>f. Total + StackPages <= UserPages /\ Got \in Nat /\ Got <= load /\ Total = load + bss
  BY <1>9, FitsTotal DEF IInv
<1>10. \A s \in Slot : Own(s)' => userPt'[s] # None
  BY <1>2, <1>4, <1>8, <1>9 DEF Loading
<1>11. ~Own(at)
  BY <1>1, <1>3, <1>5, <1>6, <1>f DEF Own, Loading
<1>12. \A s \in Slot : Own(s)' => Awaited(s)' = IF s = at THEN "zero" ELSE Awaited(s)
  <2>1. CASE pc = "image"
    <3>1. pc' \in {"image", "file"}
      BY <1>1, <2>1 DEF Following
    <3>. QED
      BY <2>1, <3>1 DEF Awaited
  <2>2. CASE pc = "stack"
    <3>1. pc' \in {"stack", "bss"}
      BY <1>1, <2>2 DEF Following
    <3>2. ~(at < Got)
      BY <1>1, <1>3, <1>5, <1>6, <1>f, <2>2 DEF Loading
    <3>. QED
      BY <1>1, <1>5, <2>2, <3>1, <3>2 DEF Awaited
  <2>. QED
    BY <1>1, <2>1, <2>2
<1>13. SUFFICES ASSUME \A s \in Slot : Own(s)' => userPt'[s] \notin Window,
                       NEW s \in Slot, Own(s)'
                PROVE  content'[userPt'[s]] = Awaited(s)'
  BY <1>10
<1>14. Lowest \notin Window
  BY <1>1, <1>4, <1>8, <1>13
<1>15. content' = [content EXCEPT ![Lowest] = "zero"] /\ content \in [Pool -> {"junk", "zero", "file", "data", "pixels"}]
  BY <1>1, <1>14 DEF Zeroed, Reached, IInv, TypeOK
<1>16. CASE s = at
  BY <1>2, <1>4, <1>12, <1>13, <1>15, <1>16
<1>17. CASE s # at
  <2>1. Own(s) /\ userPt'[s] = userPt[s]
    BY <1>4, <1>8, <1>13, <1>17
  <2>2. \A t \in Slot : Own(t) => userPt[t] \notin Window
    <3>1. \A t \in Slot : Own(t) => Own(t)' /\ t # at
      BY <1>8, <1>11
    <3>. QED
      BY <1>4, <1>13, <3>1
  <2>3. content[userPt[s]] = Awaited(s) /\ userPt[s] # None
    BY <1>9, <2>1, <2>2 DEF Loading
  <2>4. userPt[s] \in used \cap Pool
    BY <2>3 DEF IInv, PagesExclusive, Mapped
  <2>5. userPt[s] # Lowest
    BY <1>2, <2>4
  <2>. QED
    BY <1>12, <1>13, <1>15, <1>17, <2>1, <2>3, <2>4, <2>5
<1>. QED
  BY <1>16, <1>17

(* Filling slots reaches exactly their pages, since no page is mapped      *)
(* twice.                                                                  *)
LEMMA FilledOwn ==
  ASSUME IInv, NEW slots \in SUBSET Mapped, NEW what, NEW s \in slots
  PROVE  Filled(slots, what)[userPt[s]] = what
BY DEF Filled, IInv, PagesExclusive, Mapped

LEMMA FilledOther ==
  ASSUME IInv, NEW slots \in SUBSET Mapped, NEW what, NEW s \in Mapped \ slots
  PROVE  Filled(slots, what)[userPt[s]] = content[userPt[s]]
<1>1. userPt[s] \in Pool /\ \A t \in slots : userPt[t] # userPt[s]
  BY DEF IInv, PagesExclusive
<1>. QED
  BY <1>1 DEF Filled

LEMMA LoadingReads ==
  ASSUME IInv, Loading, ReadFile
  PROVE  Loading'
<1>. USE DEF None
<1>1. /\ pc = "file" /\ pc' = "stack" /\ at' = UserPages - StackPages
      /\ content' = Written(FilePages, "file") /\ UNCHANGED <<userPt, size, load, bss>>
  BY DEF ReadFile, progVars
<1>2. /\ load \in Nat /\ bss \in Nat /\ Total' = Total /\ Total \in Nat
      /\ Got' = Got /\ (Fits' <=> Fits) /\ UserPages \in Nat /\ StackPages \in Nat /\ 0 < StackPages /\ StackPages < UserPages
  BY <1>1, TotalNat DEF IInv, TypeOK, Total, Got, Fits
<1>3. \A s \in Slot : Own(s)' <=> Own(s)
  BY <1>1, <1>2 DEF Own, Slot
<1>4. SUFFICES ASSUME Fits,
                      \A s \in Slot : Own(s) => userPt[s] # None,
                      \A s \in Slot : Own(s) => userPt[s] \notin Window,
                      NEW s \in Slot, Own(s)
               PROVE  content'[userPt[s]] = Awaited(s)'
  BY <1>1, <1>2, <1>3 DEF Loading
<1>f. Total + StackPages <= UserPages /\ Got \in Nat /\ Got <= load /\ Total = load + bss
  BY <1>4, FitsTotal DEF IInv
<1>w. content' = Filled(0 .. Got - 1, "file")
  <2>1. 0 .. Got - 1 \in SUBSET Slot
    BY <1>2, <1>f DEF Slot
  <2>. QED
    BY <1>1, <2>1, WrittenFills DEF FilePages
<1>5. content[userPt[s]] = "zero" /\ s < Total /\ s \in Nat
  BY <1>1, <1>4 DEF Loading, Own, Awaited, Slot
<1>6. 0 .. Got - 1 \in SUBSET Mapped /\ s \in Mapped
  <2>1. s \in Mapped
    BY <1>4 DEF Mapped
  <2>2. SUFFICES ASSUME NEW t \in 0 .. Got - 1 PROVE t \in Mapped
    BY <2>1
  <2>3. t \in Slot /\ t < Total
    BY <1>2, <1>f DEF Slot
  <2>. QED
    BY <1>1, <1>4, <2>3 DEF Mapped, Own
<1>7. CASE s < Got
  <2>1. s \in 0 .. Got - 1
    BY <1>f, <1>5, <1>7
  <2>. DEFINE Read == 0 .. Got - 1
  <2>2. content' = Filled(Read, "file") /\ Read \in SUBSET Mapped /\ s \in Read
    BY <1>w, <1>6, <2>1
  <2>. HIDE DEF Read
  <2>3. content'[userPt[s]] = "file"
    BY <2>2, FilledOwn
  <2>. QED
    BY <1>1, <1>2, <1>7, <2>3 DEF Awaited
<1>8. CASE ~(s < Got)
  <2>1. s \in Mapped \ (0 .. Got - 1)
    BY <1>f, <1>5, <1>6, <1>8
  <2>2. content'[userPt[s]] = "zero"
    BY <1>w, <1>5, <1>6, <2>1, FilledOther
  <2>. QED
    BY <1>1, <1>2, <1>8, <2>2 DEF Awaited
<1>. QED
  BY <1>7, <1>8

LEMMA LoadingZeroes ==
  ASSUME IInv, Loading, ZeroBss
  PROVE  Loading'
<1>. USE DEF None
<1>1. /\ pc = "bss" /\ pc' = "enter"
      /\ content' = Written(BssPages, "zero") /\ UNCHANGED <<userPt, at, size, load, bss>>
  BY DEF ZeroBss, progVars
<1>2. /\ load \in Nat /\ bss \in Nat /\ Total' = Total /\ Total \in Nat
      /\ Got' = Got /\ (Fits' <=> Fits) /\ UserPages \in Nat /\ StackPages \in Nat /\ 0 < StackPages /\ StackPages < UserPages
  BY <1>1, TotalNat DEF IInv, TypeOK, Total, Got, Fits
<1>3. \A s \in Slot : Own(s)' <=> Own(s)
  BY <1>1, <1>2 DEF Own, Slot
<1>4. SUFFICES ASSUME Fits,
                      \A s \in Slot : Own(s) => userPt[s] # None,
                      \A s \in Slot : Own(s) => userPt[s] \notin Window,
                      NEW s \in Slot, Own(s)
               PROVE  content'[userPt[s]] = Awaited(s)'
  BY <1>1, <1>2, <1>3 DEF Loading
<1>f. Total + StackPages <= UserPages /\ Got \in Nat /\ Got <= load /\ Total = load + bss
  BY <1>4, FitsTotal DEF IInv
<1>w. content' = Filled(load .. Total - 1, "zero")
  <2>1. load .. Total - 1 \in SUBSET Slot
    BY <1>2, <1>f DEF Slot
  <2>2. load + bss - 1 = Total - 1
    BY <1>2, <1>f
  <2>3. BssPages = Behind(load .. Total - 1)
    BY <2>2, Zenon DEF BssPages
  <2>. QED
    BY <1>1, <2>1, <2>3, WrittenFills
<1>5. content[userPt[s]] = Awaited(s) /\ Awaited(s)' = Awaited(s) /\ s \in Nat
  BY <1>1, <1>2, <1>4 DEF Loading, Awaited, Slot
<1>6. load .. Total - 1 \in SUBSET Mapped /\ s \in Mapped
  <2>1. s \in Mapped
    BY <1>4 DEF Mapped
  <2>2. SUFFICES ASSUME NEW t \in load .. Total - 1 PROVE t \in Mapped
    BY <2>1
  <2>3. t \in Slot /\ t < Total
    BY <1>2, <1>f DEF Slot
  <2>. QED
    BY <1>1, <1>4, <2>3 DEF Mapped, Own
<1>7. CASE s \in load .. Total - 1
  <2>. DEFINE Bss == load .. Total - 1
  <2>1. content' = Filled(Bss, "zero") /\ Bss \in SUBSET Mapped /\ s \in Bss
    BY <1>w, <1>6, <1>7
  <2>. HIDE DEF Bss
  <2>2. content'[userPt[s]] = "zero"
    BY <2>1, FilledOwn
  <2>. QED
    BY <1>1, <1>2, <1>f, <1>5, <1>7, <2>2 DEF Awaited
<1>8. CASE s \notin load .. Total - 1
  <2>. DEFINE Bss == load .. Total - 1
  <2>1. content' = Filled(Bss, "zero") /\ Bss \in SUBSET Mapped /\ s \in Mapped \ Bss
    BY <1>w, <1>6, <1>8
  <2>. HIDE DEF Bss
  <2>2. content'[userPt[s]] = content[userPt[s]]
    BY <2>1, FilledOther
  <2>. QED
    BY <1>5, <2>2
<1>. QED
  BY <1>7, <1>8

LEMMA StepLoading ==
  ASSUME IInv, Loading, [Next]_vars
  PROVE  Loading'
<1>1. CASE \E i \in Images : Run(i[1], i[2], i[3])
  <2>1. PICK i \in Images : Run(i[1], i[2], i[3])
    BY <1>1
  <2>2. pc' = "image" /\ at' = 0 /\ Total' # 0
    BY <2>1 DEF Run
  <2>3. Total' \in Nat
    <3>1. load' + bss' \in Nat /\ Width \in Nat /\ Width > 0
      BY <2>1, ImagesAssumption, WindowFits DEF Run
    <3>. QED
      BY <3>1 DEF Total
  <2>4. \A s \in Slot : ~Own(s)'
    BY <2>2 DEF Own, Slot
  <2>. QED
    BY <2>2, <2>3, <2>4 DEF Loading
<1>2. CASE MapPage
  BY <1>2, LoadingMaps
<1>3. CASE ReadFile
  BY <1>3, LoadingReads
<1>4. CASE ZeroBss
  BY <1>4, LoadingZeroes
<1>5. CASE \/ MapRefused \/ NoPageToMap \/ ReadFails \/ LoadFaults \/ Enter \/ PageFault \/ Memtest \/ Draw
           \/ (\E s \in Slot : ProgramWrites(s)) \/ ProgramEnds \/ ProgramFaults
  <2>1. pc' \notin {"image", "file", "stack", "bss", "enter"}
    BY <1>5 DEF MapRefused, NoPageToMap, ReadFails, LoadFaults, WriteFaults, Enter, PageFault, Memtest, Draw, ProgramWrites,
                ProgramEnds, ProgramFaults, ToShell, MemtestStart, MemtestP1, MemtestP2, MemtestNoPage,
                MemtestFree, MemtestAgain, MemtestEnd1, MemtestEnd2, MemtestFails, Test
  <2>. QED
    BY <2>1, LoadingIdle
<1>6. CASE UNCHANGED vars
  BY <1>6 DEF vars, Loading, Own, Awaited, Total, Fits, Got
<1>. QED
  BY <1>1, <1>2, <1>3, <1>4, <1>5, <1>6 DEF Next, Load

(* A program starts with its file and zeros, whatever ran before.          *)
THEOREM StartsOnCleanPages == Spec => []StartsClean
<1>1. Init => Loading
  BY DEF Init, Loading, Own
<1>2. IInv /\ Loading /\ [Next]_vars => Loading'
  BY StepLoading
<1>3. IInv /\ Loading => StartsClean
  <2>. SUFFICES ASSUME IInv, Loading, pc = "enter", Fits,
                       \A s \in OwnSlots : userPt[s] \notin Window, NEW s \in OwnSlots
                PROVE  content[userPt[s]] = IF s < Got THEN "file" ELSE "zero"
    BY DEF StartsClean
  <2>1. /\ Total \in Nat /\ UserPages \in Nat /\ StackPages \in Nat /\ 0 < StackPages
        /\ StackPages < UserPages /\ Total = load + bss /\ Total + StackPages <= UserPages
        /\ load \in Nat /\ bss \in Nat
    BY FitsTotal, TotalNat DEF IInv, TypeOK
  <2>e. load + bss - 1 = Total - 1
    BY <2>1
  <2>x. OwnSlots = 0 .. Total - 1 \cup StackSlots
    BY <2>e, Zenon DEF OwnSlots
  <2>2. \A t : t \in OwnSlots <=> t \in Slot /\ Own(t)
    BY <2>1, <2>x DEF StackSlots, Slot, Own
  <2>3. content[userPt[s]] = Awaited(s)
    BY <2>2 DEF Loading
  <2>. QED
    BY <2>3 DEF Awaited
<1>. QED
  BY <1>1, <1>2, <1>3, Invariance, PTL DEF Spec
=============================================================================
