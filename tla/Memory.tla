------------------------------- MODULE Memory -------------------------------
(***************************************************************************)
(* Physical memory: the page bitmap of pmm.c, the user page table of       *)
(* paging.c, the program loader of lsp.c, the shell's memtest, and the     *)
(* drawing of gfx.c, whose back buffer is at an address nobody reserves.   *)
(* Memory is counted in pages.  The kernel reaches every page at its own   *)
(* address except those of the user window, where it sees what the user    *)
(* page table maps.  One step takes one page from the bitmap.              *)
(***************************************************************************)
EXTENDS Naturals, FiniteSets

CONSTANTS TotalPages,   \* PMM_TOTAL_PAGES; the tables map no more
          Width,        \* the pages that 32 bits can address
          BootPages,    \* below are the first megabyte, the heap, and what
                        \* paging_init and kernel_main allocate
          UserBase,     \* USER_BASE, as a page number
          UserPages,    \* the pages from USER_BASE to USER_SPACE_TOP
          StackPages,   \* USER_STACK_PAGES
          Back,         \* the pages of the back buffer
          Images        \* BOUND: the pages of a program's file, and those of
                        \* its load_size and bss_size

Page == 0 .. TotalPages - 1
Pool == BootPages .. TotalPages - 1
Window == UserBase .. UserBase + UserPages - 1
Slot == 0 .. UserPages - 1
None == 0               \* an entry of the page table without PAGE_PRESENT

ASSUME PagesAssumption ==
  /\ {TotalPages, Width, BootPages, UserBase, UserPages, StackPages} \subseteq Nat
  /\ 0 < BootPages /\ 0 < StackPages /\ StackPages < UserPages
  /\ Back \cup Window \subseteq Pool /\ TotalPages <= Width
ASSUME ImagesAssumption ==
  Images \subseteq (Nat \ {0}) \X (0 .. Width - 1) \X (0 .. Width - 1)

VARIABLES used,         \* the bitmap, as the set of its pages
          freePages,    \* free_pages
          userPt,       \* user_pt: the page mapped in each slot, or None
          content,      \* what each page that can be handed out holds
          pc,           \* where lsp_load, memtest or the program is
          at,           \* i of paging_alloc_user_pages, as a slot
          size,         \* pages of the program's file
          load, bss,    \* load_size and bss_size of its header, in pages
          p1, p2,       \* the locals of do_memtest
          spent,        \* history: pages handed to loads so far, and the
          lost          \* pages that nobody knows of any more

vars == <<used, freePages, userPt, content, pc, at, size, load, bss, p1, p2, spent, lost>>
pageVars == <<used, freePages>>
progVars == <<size, load, bss>>
testVars == <<p1, p2>>

Reserved == 0 .. BootPages - 1

Init ==
  /\ used = Reserved /\ freePages = Cardinality(Page \ Reserved)
  /\ userPt = [s \in Slot |-> None] /\ content = [p \in Pool |-> "junk"]
  /\ pc = "shell" /\ at = 0 /\ size = 0 /\ load = 0 /\ bss = 0 /\ p1 = 0 /\ p2 = 0
  /\ spent = 0 /\ lost = {}

-----------------------------------------------------------------------------
Unused == Page \ used
(* pmm_alloc takes the lowest page that is not used.  (A mutant: its scan  *)
(* leaves one out.)                                                        *)
LowestButOne == CHOOSE p \in Unused : Cardinality({q \in Unused : q < p}) = 1
Lowest == CHOOSE p \in Unused : \A q \in Unused : p <= q

(* The page that the kernel's write to page p's own address ends in.       *)
Reached(p) == IF p \in Window THEN userPt[p - UserBase] ELSE p
(* A mutant: pmm_alloc for pmm_alloc_zero.                                 *)
NotZeroed(p) == content
Zeroed(p) == [content EXCEPT ![Reached(p)] = "zero"]

(* A mutant: the page is not marked.                                       *)
AllocateUnmarked(p) == UNCHANGED pageVars
Allocate(p) == used' = used \cup {p} /\ freePages' = freePages - 1

(* pmm_free's check: a free page stays.  (A mutant: the page behind is     *)
(* freed.)                                                                 *)
ReleaseNextPage(p) == used' = used \ {p + 1} /\ freePages' = freePages + 1
Release(p) ==
  IF p \in used THEN used' = used \ {p} /\ freePages' = freePages + 1
  ELSE UNCHANGED pageVars

(* pmm_alloc_zero finds a page and clears it through its own address,      *)
(* which faults, and stops the machine, if the window maps nothing there.  *)
TakeZeroed ==
  /\ Unused # {} /\ Reached(Lowest) # None
  /\ Allocate(Lowest) /\ content' = Zeroed(Lowest)
TakesPage == {"image", "stack", "test_p1", "test_p2"}
PageFault ==
  /\ pc \in TakesPage /\ Unused # {} /\ Reached(Lowest) = None
  /\ Allocate(Lowest) /\ pc' = "halted" /\ lost' = lost \cup {Lowest}
  /\ UNCHANGED <<content, userPt, at, progVars, testVars, spent>>

-----------------------------------------------------------------------------
(* total_pages: the sum of two sizes from the header, which may wrap.      *)
Total == (load + bss) % Width
Mapped == {s \in Slot : userPt[s] # None}

(* lsp_load up to the first paging_alloc_user_pages.                       *)
Run(pages, file, zeros) ==
  /\ pc = "shell" /\ size' = pages /\ load' = file /\ bss' = zeros
  /\ Total' # 0 /\ at' = 0 /\ pc' = "image"
  /\ UNCHANGED <<pageVars, userPt, content, testVars, spent, lost>>

ToShell ==
  /\ pc' = "shell" /\ at' = 0 /\ size' = 0 /\ load' = 0 /\ bss' = 0
  /\ UNCHANGED testVars

(* After the last page of the image comes the file, after the last of the  *)
(* stack the bss.                                                          *)
Following ==
  IF pc = "image"
    THEN IF at + 1 < Total THEN <<"image", at + 1>> ELSE <<"file", 0>>
    ELSE IF at + 1 < UserPages THEN <<"stack", at + 1>> ELSE <<"bss", 0>>

(* A slot that was mapped forgets its page.  paging_map_user_page refuses  *)
(* a slot past the window, and the page taken for it is forgotten.         *)
InTable(s) == s \in Slot
MapPage ==
  /\ pc \in {"image", "stack"} /\ InTable(at) /\ TakeZeroed
  /\ userPt' = [userPt EXCEPT ![at % UserPages] = Lowest] /\ spent' = spent + 1
  /\ lost' = lost \cup ({userPt[at]} \ {None})
  /\ pc' = Following[1] /\ at' = Following[2]
  /\ UNCHANGED <<progVars, testVars>>
MapRefused ==
  /\ pc \in {"image", "stack"} /\ ~InTable(at) /\ TakeZeroed
  /\ spent' = spent + 1 /\ lost' = lost \cup {Lowest} /\ ToShell /\ UNCHANGED userPt
NoPageToMap ==
  /\ pc \in {"image", "stack"} /\ Unused = {}
  /\ ToShell /\ UNCHANGED <<pageVars, userPt, content, spent, lost>>

(* The kernel writes to some pages behind USER_BASE, with addresses that   *)
(* wrap.  A page that no table maps stops the machine; of what the kernel  *)
(* does with its own pages overwritten nothing is said.                    *)
Behind(offsets) == {(UserBase + i) % Width : i \in offsets}
Writable(pages) == \A a \in pages : a \in Page /\ Reached(a) \in Pool
Written(pages, what) ==
  [p \in Pool |-> IF \E a \in pages : Reached(a) = p THEN what ELSE content[p]]
WriteFaults(pages) ==
  /\ ~Writable(pages) /\ pc' = "halted"
  /\ UNCHANGED <<pageVars, userPt, content, at, progVars, testVars, spent, lost>>

(* fat16_read_file to USER_BASE, of load_size at most; whether the file is *)
(* as long is not asked.                                                   *)
Got == IF size < load THEN size ELSE load
FilePages == Behind(0 .. Got - 1)
ReadFile ==
  /\ pc = "file" /\ Writable(FilePages) /\ content' = Written(FilePages, "file")
  /\ pc' = "stack" /\ at' = UserPages - StackPages
  /\ UNCHANGED <<pageVars, userPt, progVars, testVars, spent, lost>>
ReadFails == pc = "file" /\ ToShell /\ UNCHANGED <<pageVars, userPt, content, spent, lost>>

(* lsp_zero, then enter_user_mode.                                         *)
BssPages == Behind(load .. load + bss - 1)
ZeroBss ==
  /\ pc = "bss" /\ Writable(BssPages) /\ content' = Written(BssPages, "zero") /\ pc' = "enter"
  /\ UNCHANGED <<pageVars, userPt, at, progVars, testVars, spent, lost>>
LoadFaults ==
  \/ pc = "file" /\ WriteFaults(FilePages)
  \/ pc = "bss" /\ WriteFaults(BssPages)
Enter ==
  /\ pc = "enter" /\ pc' = "user"
  /\ UNCHANGED <<pageVars, userPt, content, at, progVars, testVars, spent, lost>>

(* The program writes to any page it sees, and ends.                       *)
ProgramWrites(s) ==
  /\ pc = "user" /\ content' = Written({UserBase + s}, "data")
  /\ UNCHANGED <<pageVars, userPt, pc, at, progVars, testVars, spent, lost>>
ProgramEnds ==
  /\ pc = "user" /\ ToShell /\ UNCHANGED <<pageVars, userPt, content, spent, lost>>
(* An exception, the program's too, stops the machine.                     *)
ProgramFaults ==
  /\ pc = "user" /\ pc' = "halted"
  /\ UNCHANGED <<pageVars, userPt, content, at, progVars, testVars, spent, lost>>

(* The desktop, or a program's system call, draws.                         *)
Draw ==
  /\ pc \in {"shell", "user"}
  /\ content' = [p \in Pool |-> IF p \in Back THEN "pixels" ELSE content[p]]
  /\ UNCHANGED <<pageVars, userPt, pc, at, progVars, testVars, spent, lost>>

-----------------------------------------------------------------------------
(* do_memtest's pages: two are taken, the first is given back and has to   *)
(* come again, and both are given back.                                    *)
Test(from, to) == pc = from /\ pc' = to
Kept == UNCHANGED <<userPt, at, progVars, spent>>
TestPages == ({p1, p2} \ {0}) \cap used

MemtestStart == Test("shell", "test_p1") /\ Kept /\ UNCHANGED <<pageVars, content, testVars, lost>>
MemtestP1 ==
  /\ Test("test_p1", "test_p2") /\ TakeZeroed /\ p1' = Lowest
  /\ Kept /\ UNCHANGED <<p2, lost>>
MemtestP2 ==
  /\ Test("test_p2", "test_free") /\ TakeZeroed /\ p2' = Lowest
  /\ Kept /\ UNCHANGED <<p1, lost>>
MemtestNoPage ==
  /\ pc \in {"test_p1", "test_p2"} /\ Unused = {} /\ pc' = "test_fails"
  /\ Kept /\ UNCHANGED <<pageVars, content, testVars, lost>>
MemtestFree ==
  /\ Test("test_free", "test_again") /\ Release(p1)
  /\ Kept /\ UNCHANGED <<content, testVars, lost>>
MemtestAgain ==
  /\ pc = "test_again" /\ Unused # {} /\ Allocate(Lowest)
  /\ pc' = IF Lowest = p1 THEN "test_end1" ELSE "test_fails"
  /\ lost' = lost \cup ({Lowest} \ {p1})
  /\ Kept /\ UNCHANGED <<content, testVars>>
MemtestEnd1 ==
  /\ Test("test_end1", "test_end2") /\ Release(p1) /\ p1' = 0
  /\ Kept /\ UNCHANGED <<content, p2, lost>>
(* A mutant: it ends without freeing p2.                                   *)
MemtestEndsEarly ==
  /\ Test("test_end2", "shell") /\ p2' = 0
  /\ Kept /\ UNCHANGED <<pageVars, content, p1, lost>>
MemtestEnd2 ==
  /\ Test("test_end2", "shell") /\ Release(p2) /\ p2' = 0
  /\ Kept /\ UNCHANGED <<content, p1, lost>>
(* "FAIL": what was taken stays taken.                                     *)
MemtestFails ==
  /\ Test("test_fails", "shell") /\ p1' = 0 /\ p2' = 0 /\ lost' = lost \cup TestPages
  /\ Kept /\ UNCHANGED <<pageVars, content>>

Memtest == \/ MemtestStart \/ MemtestP1 \/ MemtestP2 \/ MemtestNoPage \/ MemtestFree
           \/ MemtestAgain \/ MemtestEnd1 \/ MemtestEnd2 \/ MemtestFails
Load == \/ \E i \in Images : Run(i[1], i[2], i[3])
        \/ MapPage \/ MapRefused \/ NoPageToMap \/ ReadFile \/ ReadFails
        \/ ZeroBss \/ LoadFaults \/ Enter

Next == \/ Load \/ Memtest \/ PageFault \/ Draw
        \/ (\E s \in Slot : ProgramWrites(s)) \/ ProgramEnds \/ ProgramFaults

Spec == Init /\ [][Next]_vars

-----------------------------------------------------------------------------
TestSteps == {"test_p1", "test_p2", "test_free", "test_again", "test_end1", "test_end2", "test_fails"}

(* Pages, counts and slots stay in range, and control in the code.         *)
TypeOK ==
  /\ used \subseteq Page /\ freePages \in 0 .. TotalPages
  /\ userPt \in [Slot -> Pool \cup {None}]
  /\ content \in [Pool -> {"junk", "zero", "file", "data", "pixels"}]
  /\ pc \in {"shell", "image", "file", "stack", "bss", "enter", "user", "halted"} \cup TestSteps
  /\ at \in 0 .. UserPages /\ {size, load, bss} \subseteq Nat
  /\ {p1, p2} \subseteq Pool \cup {0} /\ spent \in Nat /\ lost \subseteq Pool

(* pmm_free_page_count is the number of pages that are free.               *)
CountExact == freePages = Cardinality(Unused)

(* No page is mapped twice, and none that the kernel, its heap, its page   *)
(* tables or memtest use is mapped at all, whatever was loaded before and  *)
(* however the load before failed.                                         *)
PagesExclusive ==
  /\ \A s \in Mapped : userPt[s] \in used \cap Pool /\ userPt[s] \notin {p1, p2}
  /\ \A s, t \in Mapped : userPt[s] = userPt[t] => s = t

(* Bitmap, counter and page table agree on whose every page is.            *)
PagesSound == TypeOK /\ CountExact /\ PagesExclusive

(* A program starts with its file, a bss and a stack of zeros, however     *)
(* many ran before it.  Two exceptions are the code's own: sizes that do   *)
(* not leave the stack its slots, those whose sum wraps among them (Fits   *)
(* adds them without a width), and pages from the window, which            *)
(* pmm_alloc_zero does not reach.                                          *)
StackSlots == UserPages - StackPages .. UserPages - 1
OwnSlots == 0 .. load + bss - 1 \cup StackSlots
Fits == load + bss + StackPages <= UserPages
StartsClean ==
  pc = "enter" /\ Fits /\ (\A s \in OwnSlots : userPt[s] \notin Window)
  => \A s \in OwnSlots : content[userPt[s]] = IF s < Got THEN "file" ELSE "zero"

(* Drawing changes no program's memory before programs have been given     *)
(* all pages below the back buffer: lsp.c gives none back.                 *)
Spare == Cardinality({p \in Pool : \A b \in Back : p < b})
BackBufferApart == spent <= Spare => \A s \in Mapped : userPt[s] \notin Back

(* memtest says FAIL only if memory ran out.                               *)
MemtestHonest == pc = "test_fails" => Unused = {}

(* Every page in use is the boot's, mapped for a program, memtest's, or    *)
(* lost, and a lost one is no one's again.  There are four ways to lose    *)
(* one: a later load maps its slot anew, its slot is refused, memtest says *)
(* FAIL, or a fault stops the machine.  A load that fails otherwise leaves *)
(* its pages in their slots, and a memtest that passes gives back both.    *)
HeldPages == {userPt[s] : s \in Mapped}
PagesAccounted ==
  /\ used = Reserved \cup HeldPages \cup TestPages \cup lost
  /\ lost \cap (Reserved \cup HeldPages \cup TestPages) = {}
=============================================================================
