-------------------------------- MODULE Heap --------------------------------
(***************************************************************************)
(* The kernel heap of kernel/kernel/heap.c: a first-fit allocator whose    *)
(* free blocks are linked in the order of their addresses.  Addresses are  *)
(* counted from HEAP_START and the linked list is a sequence of them.      *)
(* Headers lie between the blocks, so what a merge or a caller leaves of   *)
(* an old header stays in memory, where a second kfree looks at it.        *)
(***************************************************************************)
EXTENDS Integers, Sequences, FiniteSets, SequencesExt

CONSTANTS Wrap,       \* 2^32
          HeapSize,   \* HEAP_SIZE
          Align,      \* HEAP_ALIGN
          Hdr,        \* sizeof(heap_block_t)
          MinSplit,   \* HEAP_MIN_SPLIT
          Requests    \* BOUND: the sizes asked for

ASSUME SizesAssumption ==
  /\ {Wrap, HeapSize, Align, Hdr, MinSplit} \subseteq Nat \ {0}
  /\ {Wrap % Align, HeapSize % Align, Hdr % Align} = {0}
  /\ Hdr < HeapSize /\ HeapSize + Hdr + MinSplit < Wrap
ASSUME RequestsAssumption == Requests \subseteq 0 .. Wrap - 1

VARIABLES hdr,        \* the memory, as headers: what a heap_block_t at an address reads as
          list,       \* heap_head and the next pointers
          heapFree, heapUsed,
          held,       \* the headers of the blocks that callers hold
          given,      \* those of all pointers ever returned
          asked, got  \* the last kmalloc: its size, and the header it chose or HeapSize

heapVars == <<hdr, list, heapFree, heapUsed>>
callVars == <<held, given, asked, got>>
vars == <<heapVars, callVars>>

Addr == {a \in 0 .. HeapSize - 1 : a % Align = 0}
Header(size, free) == [magic |-> TRUE, size |-> size, free |-> free]
(* Bytes that are not a header.                                            *)
Junk == [magic |-> FALSE, size |-> 0, free |-> FALSE]

AlignUp(v) == (((v + Align - 1) % Wrap) \div Align) * Align
EndIn(mem, b) == b + Hdr + mem[b].size
End(b) == b + Hdr + hdr[b].size

Init ==
  /\ hdr = [a \in Addr |-> IF a = 0 THEN Header(HeapSize - Hdr, TRUE) ELSE Junk]
  /\ list = <<0>> /\ heapFree = HeapSize /\ heapUsed = 0
  /\ held = {} /\ given = {} /\ asked = 0 /\ got = HeapSize

-----------------------------------------------------------------------------
(* The first block that is large enough, or 0.  (A mutant: compared before *)
(* rounding up.)                                                           *)
FirstFitUnaligned(n) == SelectInSeq(list, LAMBDA b : hdr[b].size >= n)
FirstFit(n) == SelectInSeq(list, LAMBDA b : hdr[b].size >= AlignUp(n))

WorthSplitting(size, need) == size >= need + Hdr + MinSplit

(* *pp = b->next, with b->next the rest.  (A mutant: the next pointer read *)
(* before the split.)                                                      *)
RestUnlisted(i, rest) == RemoveAt(list, i)
RestListed(i, rest) == ReplaceAt(list, i, rest)

(* The block is taken off the list, or the rest of it takes its place.     *)
Take(b, i, need) ==
  LET rest == b + Hdr + need
  IN IF WorthSplitting(hdr[b].size, need)
       THEN /\ hdr' = [hdr EXCEPT ![b] = Header(need, FALSE),
                                  ![rest] = Header(hdr[b].size - need - Hdr, TRUE)]
            /\ list' = RestListed(i, rest)
       ELSE /\ hdr' = [hdr EXCEPT ![b].free = FALSE]
            /\ list' = RemoveAt(list, i)

(* What the counters say a block takes.                                    *)
Footprint(size) == Hdr + size

Kmalloc(n) ==
  /\ asked' = n
  /\ IF n = 0 \/ FirstFit(n) = 0
       THEN got' = HeapSize /\ UNCHANGED <<heapVars, held, given>>
       ELSE LET b == list[FirstFit(n)]
            IN /\ Take(b, FirstFit(n), AlignUp(n))
               /\ heapFree' = heapFree - Footprint(hdr'[b].size)
               /\ heapUsed' = heapUsed + Footprint(hdr'[b].size)
               /\ got' = b /\ held' = held \cup {b} /\ given' = given \cup {b}

-----------------------------------------------------------------------------
(* Two blocks that follow each other in the list and in memory become one; *)
(* the second one's header is left in memory.                              *)
MergeAt(s, i) ==
  IF i \in 1 .. Len(s.list) - 1 /\ EndIn(s.hdr, s.list[i]) = s.list[i + 1]
    THEN [hdr |-> [s.hdr EXCEPT ![s.list[i]].size = @ + Hdr + s.hdr[s.list[i + 1]].size],
          list |-> RemoveAt(s.list, i + 1)]
    ELSE s

(* heap_add_free's place for b: before the first block not below it.       *)
Place(b) ==
  LET i == SelectInSeq(list, LAMBDA a : a >= b) IN IF i = 0 THEN Len(list) + 1 ELSE i

(* Both neighbours are merged, the one below first.                        *)
WithFree(b) ==
  LET added == [hdr |-> [hdr EXCEPT ![b] = Header(hdr[b].size, TRUE)],
                list |-> InsertAt(list, Place(b), b)]
      below == MergeAt(added, Place(b) - 1)
  IN MergeAt(below, IF below = added THEN Place(b) ELSE Place(b) - 1)

(* kfree's checks, which make a second kfree of a pointer harmless.        *)
Accepts(b) == hdr[b].magic /\ ~hdr[b].free

Kfree(b) ==
  /\ IF Accepts(b)
       THEN /\ hdr' = WithFree(b).hdr /\ list' = WithFree(b).list
            /\ heapUsed' = heapUsed - (Hdr + hdr[b].size)
            /\ heapFree' = heapFree + (Hdr + hdr[b].size)
       ELSE UNCHANGED heapVars
  /\ held' = held \ {b}
  /\ UNCHANGED <<given, asked, got>>

(* A caller writes its block full: no header in it survives.               *)
Fill(b) ==
  /\ hdr' = [a \in Addr |-> IF a > b /\ a < End(b) THEN Junk ELSE hdr[a]]
  /\ UNCHANGED <<list, heapFree, heapUsed, callVars>>

Next == \/ \E n \in Requests : Kmalloc(n)
        \/ \E b \in given : Kfree(b)
        \/ \E b \in held : Fill(b)

Spec == Init /\ [][Next]_vars

-----------------------------------------------------------------------------
Listed == {list[i] : i \in 1 .. Len(list)}
Blocks == held \cup Listed

(* Headers, counters and pointers stay in the heap's range: no subtraction *)
(* of kmalloc or kfree wraps.                                              *)
TypeOK ==
  /\ hdr \in [Addr -> [magic : BOOLEAN, size : 0 .. HeapSize, free : BOOLEAN]]
  /\ list \in Seq(Addr)
  /\ heapFree \in 0 .. HeapSize /\ heapUsed \in 0 .. HeapSize
  /\ held \subseteq given /\ given \subseteq Addr
  /\ asked \in {0} \cup Requests /\ got \in Addr \cup {HeapSize}

(* Blocks held and blocks listed cover the heap from end to end, no two    *)
(* overlap, and the header of each says which it is: nothing kfree'd twice *)
(* or split is ever in two places or in none.                              *)
Tiled ==
  /\ 0 \in Blocks /\ held \cap Listed = {}
  /\ \A b \in Blocks : /\ hdr[b].magic /\ (hdr[b].free <=> b \in Listed)
                       /\ End(b) \in Blocks \cup {HeapSize}
                       /\ \A c \in Blocks : b < c => End(b) <= c

(* The free list is in address order and no two of its blocks touch, so    *)
(* that first fit finds every gap.                                         *)
Coalesced == \A i \in 1 .. Len(list) - 1 : End(list[i]) < list[i + 1]

(* heap_free_bytes and heap_used_bytes are the bytes that lie in blocks of *)
(* the list and in blocks held.                                            *)
Bytes(S) == Cardinality({x \in 0 .. HeapSize - 1 : \E b \in S : b <= x /\ x < End(b)})
CountersExact == heapFree = Bytes(Listed) /\ heapUsed = Bytes(held)

(* Headers, free list and counters tell one story of the heap, whatever    *)
(* was taken, split, freed, freed twice and merged before.                 *)
HeapSound == TypeOK /\ Tiled /\ Coalesced /\ CountersExact

(* The heap keeps its promises: live blocks are what callers hold.         *)
Promise == INSTANCE Allocator WITH
  live <- {[at |-> b, size |-> hdr[b].size] : b \in held},
  Slack <- Hdr + MinSplit - 1, MaxRequest <- Wrap - Align
KeepsPromise == Promise!Spec
=============================================================================
