----------------------------- MODULE HeapProofs -----------------------------
(***************************************************************************)
(* The heap's blocks tile it, its free list is in order with no two blocks *)
(* that touch, its counters are exact, and it keeps its promises to its    *)
(* callers: for all sizes of heap, header, alignment and width, and all    *)
(* requests, also those that wrap.                                         *)
(***************************************************************************)
EXTENDS Heap, SequenceTheorems, FiniteSetTheorems, WellFoundedInduction, TLAPS

USE SizesAssumption, RequestsAssumption

-----------------------------------------------------------------------------
(* Rounding up.                                                            *)
LEMMA Multiple ==
  ASSUME NEW a \in Nat
  PROVE  /\ a \div Align \in Nat /\ (a \div Align) * Align \in Nat
         /\ (a \div Align) * Align <= a /\ a < (a \div Align) * Align + Align
         /\ ((a \div Align) * Align) % Align = 0
OBVIOUS

LEMMA TimesAligned == ASSUME NEW q \in Nat PROVE (q * Align) % Align = 0
OBVIOUS

LEMMA SumAligned ==
  ASSUME NEW a \in Nat, NEW b \in Nat, a % Align = 0, b % Align = 0
  PROVE  (a + b) % Align = 0
<1>. DEFINE q == a \div Align
            r == b \div Align
<1>1. q \in Nat /\ r \in Nat /\ a = q * Align /\ b = r * Align
  OBVIOUS
<1>. HIDE DEF q, r
<1>2. a + b = (q + r) * Align
  BY <1>1
<1>. QED
  BY <1>1, <1>2, TimesAligned

(* What a size is rounded up to: the size the abstract heap serves.        *)
LEMMA AlignUpServes ==
  ASSUME NEW n \in 0 .. Wrap - 1
  PROVE  AlignUp(n) = Promise!Served(n) /\ AlignUp(n) \in Nat /\ AlignUp(n) % Align = 0
<1>. DEFINE v == n + Align - 1
<1>1. v \in Nat /\ v = n + (Align - 1)
  OBVIOUS
<1>2. Align <= Wrap
  OBVIOUS
<1>3. CASE n <= Wrap - Align
  <2>1. v < Wrap
    BY <1>1, <1>3
  <2>2. v % Wrap = v
    BY <1>1, <2>1
  <2>3. AlignUp(n) = (v \div Align) * Align
    BY <2>2 DEF AlignUp
  <2>4. Promise!Served(n) = (v \div Align) * Align
    BY <1>3 DEF Promise!Served
  <2>. QED
    BY <1>1, <2>3, <2>4, Multiple
<1>4. CASE n > Wrap - Align
  <2>. DEFINE w == v - Wrap
  <2>1. w \in Nat /\ w < Align /\ w < Wrap
    BY <1>1, <1>2, <1>4
  <2>2. v = Wrap + w
    BY <1>1
  <2>. HIDE DEF v, w
  <2>3. v % Wrap = w
    BY <1>2, <2>1, <2>2
  <2>4. w \div Align = 0
    BY <2>1
  <2>5. AlignUp(n) = 0
    BY <2>3, <2>4 DEF AlignUp, v
  <2>. QED
    BY <1>4, <2>5 DEF Promise!Served
<1>. QED
  BY <1>3, <1>4

-----------------------------------------------------------------------------
(* Lowest and highest numbers.                                             *)
LEMMA LowestExists ==
  ASSUME NEW S \in SUBSET Nat, IsFiniteSet(S), S # {}
  PROVE  \E p \in S : \A q \in S : p <= q
<1>. DEFINE Below(p) == {q \in S : q < p}
            Belows == {Below(p) : p \in S}
<1>1. \A p \in S : Below(p) \in SUBSET S
  OBVIOUS
<1>2. Belows \subseteq FiniteSubsetsOf(S)
  <2>. HIDE DEF Below
  <2>. QED
    BY <1>1, FS_FiniteSubsetsOfFinite
<1>3. Belows # {}
  <2>1. PICK p : p \in S
    OBVIOUS
  <2>. HIDE DEF Below
  <2>. QED
    BY <2>1
<1>4. PICK B \in Belows : \A C \in Belows : <<C, B>> \notin StrictSubsetOrdering(S)
  <2>. HIDE DEF Belows
  <2>. QED
    BY <1>2, <1>3, FS_StrictSubsetOrderingWellFounded, WFMin
<1>5. PICK p \in S : B = Below(p)
  BY <1>4
<1>6. ASSUME NEW q \in S, q < p PROVE FALSE
  <2>1. q \in Below(p) /\ q \notin Below(q)
    BY <1>6
  <2>2. \A r \in Below(q) : r \in Below(p)
    BY <1>6
  <2>. HIDE DEF Below
  <2>3. <<Below(q), B>> \in StrictSubsetOrdering(S)
    BY <1>1, <1>5, <2>1, <2>2 DEF StrictSubsetOrdering
  <2>4. Below(q) \in Belows
    OBVIOUS
  <2>. HIDE DEF Belows
  <2>. QED
    BY <1>4, <2>3, <2>4
<1>. QED
  BY <1>6

LEMMA HighestExists ==
  ASSUME NEW n \in Nat, NEW S \in SUBSET (0 .. n), S # {}
  PROVE  \E p \in S : \A q \in S : q <= p
<1>. DEFINE T == {n - q : q \in S}
<1>1. T \subseteq 0 .. n /\ T # {}
  OBVIOUS
<1>2. IsFiniteSet(0 .. n)
  BY FS_Interval
<1>3. IsFiniteSet(T) /\ T \in SUBSET Nat
  <2>. DEFINE N == 0 .. n
  <2>1. IsFiniteSet(N) /\ T \subseteq N /\ N \subseteq Nat
    BY <1>1, <1>2
  <2>. HIDE DEF T, N
  <2>. QED
    BY <2>1, FS_Subset
<1>4. PICK t \in T : \A u \in T : t <= u
  <2>. HIDE DEF T
  <2>. QED
    BY <1>1, <1>3, LowestExists
<1>5. PICK p \in S : t = n - p
  BY <1>4
<1>6. ASSUME NEW q \in S PROVE q <= p
  <2>1. n - p <= n - q
    BY <1>4, <1>5
  <2>. QED
    BY <2>1
<1>. QED
  BY <1>6

-----------------------------------------------------------------------------
(* The edits of the free list.                                             *)
LEMMA FirstOf ==
  ASSUME NEW k \in Nat, NEW I \in SUBSET (1 .. k), I # {}
  PROVE  Min(I) \in I /\ \A i \in I : Min(I) <= i
<1>1. IsFiniteSet(1 .. k)
  BY FS_Interval
<1>2. IsFiniteSet(I) /\ I \in SUBSET Nat
  <2>. DEFINE N == 1 .. k
  <2>1. IsFiniteSet(N) /\ I \subseteq N /\ N \subseteq Nat
    BY <1>1
  <2>. HIDE DEF N
  <2>. QED
    BY <2>1, FS_Subset
<1>. QED
  BY <1>2, LowestExists DEF Min

LEMMA RemoveAtSound ==
  ASSUME NEW S, NEW s \in Seq(S), NEW i \in 1 .. Len(s)
  PROVE  /\ RemoveAt(s, i) \in Seq(S) /\ Len(RemoveAt(s, i)) = Len(s) - 1
         /\ \A j \in 1 .. Len(s) - 1 : RemoveAt(s, i)[j] = IF j < i THEN s[j] ELSE s[j + 1]
<1>. DEFINE n == Len(s)
            a == SubSeq(s, 1, i - 1)
            b == SubSeq(s, i + 1, n)
<1>1. n \in Nat /\ i \in Nat /\ 1 <= i /\ i <= n /\ \A j \in 1 .. n : s[j] \in S
  BY LenProperties
<1>2. /\ a \in Seq(S) /\ Len(a) = IF 1 <= i - 1 THEN (i - 1) - 1 + 1 ELSE 0
      /\ \A j \in 1 .. (i - 1) - 1 + 1 : a[j] = s[1 + j - 1]
  BY <1>1, SubSeqProperties
<1>3. /\ b \in Seq(S) /\ Len(b) = IF i + 1 <= n THEN n - (i + 1) + 1 ELSE 0
      /\ \A j \in 1 .. n - (i + 1) + 1 : b[j] = s[(i + 1) + j - 1]
  BY <1>1, SubSeqProperties
<1>. HIDE DEF n, a, b
<1>4. Len(a) = i - 1 /\ \A j \in 1 .. i - 1 : a[j] = s[j]
  <2>1. Len(a) = i - 1
    BY <1>1, <1>2
  <2>2. ASSUME NEW j \in 1 .. i - 1 PROVE a[j] = s[j]
    <3>1. j \in 1 .. (i - 1) - 1 + 1 /\ 1 + j - 1 = j
      BY <1>1
    <3>. QED
      BY <1>2, <3>1
  <2>. QED
    BY <2>1, <2>2
<1>5. Len(b) = n - i /\ \A j \in 1 .. n - i : b[j] = s[i + j]
  <2>1. Len(b) = n - i
    BY <1>1, <1>3
  <2>2. ASSUME NEW j \in 1 .. n - i PROVE b[j] = s[i + j]
    <3>1. j \in 1 .. n - (i + 1) + 1 /\ (i + 1) + j - 1 = i + j
      BY <1>1
    <3>. QED
      BY <1>3, <3>1
  <2>. QED
    BY <2>1, <2>2
<1>6. /\ a \o b \in Seq(S) /\ Len(a \o b) = Len(a) + Len(b)
      /\ \A j \in 1 .. Len(a) + Len(b) : (a \o b)[j] = IF j <= Len(a) THEN a[j] ELSE b[j - Len(a)]
  <2>1. a \in Seq(S) /\ b \in Seq(S)
    BY <1>2, <1>3
  <2>. QED
    BY <2>1, ConcatProperties
<1>. DEFINE r == a \o b
<1>7. RemoveAt(s, i) = r
  BY DEF RemoveAt, a, b, n
<1>. HIDE DEF r
<1>8. r \in Seq(S) /\ Len(r) = n - 1
  BY <1>1, <1>4, <1>5, <1>6 DEF r
<1>9. ASSUME NEW j \in 1 .. n - 1 PROVE r[j] = IF j < i THEN s[j] ELSE s[j + 1]
  <2>y. j \in 1 .. Len(a) + Len(b)
    BY <1>1, <1>4, <1>5
  <2>x. r[j] = IF j <= Len(a) THEN a[j] ELSE b[j - Len(a)]
    BY <1>6, <2>y DEF r
  <2>1. r[j] = IF j <= i - 1 THEN a[j] ELSE b[j - (i - 1)]
    BY <1>4, <2>x
  <2>2. CASE j < i
    BY <1>1, <1>4, <2>1, <2>2
  <2>3. CASE ~(j < i)
    <3>1. j - (i - 1) \in 1 .. n - i /\ i + (j - (i - 1)) = j + 1
      BY <1>1, <2>3
    <3>2. r[j] = b[j - (i - 1)]
      BY <1>1, <2>1, <2>3
    <3>3. b[j - (i - 1)] = s[j + 1]
      BY <1>5, <3>1
    <3>. QED
      BY <2>3, <3>2, <3>3
  <2>. QED
    BY <2>2, <2>3
<1>. QED
  BY <1>7, <1>8, <1>9 DEF n

LEMMA InsertAtSound ==
  ASSUME NEW S, NEW s \in Seq(S), NEW i \in 1 .. Len(s) + 1, NEW e \in S
  PROVE  /\ InsertAt(s, i, e) \in Seq(S) /\ Len(InsertAt(s, i, e)) = Len(s) + 1
         /\ \A j \in 1 .. Len(s) + 1 :
              InsertAt(s, i, e)[j] = IF j < i THEN s[j] ELSE IF j = i THEN e ELSE s[j - 1]
<1>. DEFINE n == Len(s)
            a == SubSeq(s, 1, i - 1)
            b == SubSeq(s, i, n)
<1>1. n \in Nat /\ i \in Nat /\ 1 <= i /\ i <= n + 1 /\ \A j \in 1 .. n : s[j] \in S
  BY LenProperties
<1>2. /\ a \in Seq(S) /\ Len(a) = IF 1 <= i - 1 THEN (i - 1) - 1 + 1 ELSE 0
      /\ \A j \in 1 .. (i - 1) - 1 + 1 : a[j] = s[1 + j - 1]
  BY <1>1, SubSeqProperties
<1>3. /\ b \in Seq(S) /\ Len(b) = IF i <= n THEN n - i + 1 ELSE 0
      /\ \A j \in 1 .. n - i + 1 : b[j] = s[i + j - 1]
  BY <1>1, SubSeqProperties
<1>. HIDE DEF n, a, b
<1>4. Len(a) = i - 1 /\ \A j \in 1 .. i - 1 : a[j] = s[j]
  <2>1. Len(a) = i - 1
    BY <1>1, <1>2
  <2>2. ASSUME NEW j \in 1 .. i - 1 PROVE a[j] = s[j]
    <3>1. j \in 1 .. (i - 1) - 1 + 1 /\ 1 + j - 1 = j
      BY <1>1
    <3>. QED
      BY <1>2, <3>1
  <2>. QED
    BY <2>1, <2>2
<1>5. Len(b) = n + 1 - i
  BY <1>1, <1>3
<1>. DEFINE c == Append(a, e)
<1>6. /\ c \in Seq(S) /\ Len(c) = i /\ c[i] = e
      /\ \A j \in 1 .. i - 1 : c[j] = s[j]
  BY <1>1, <1>2, <1>4, AppendProperties
<1>7. a \o <<e>> = c
  BY <1>2, AppendIsConcat
<1>. HIDE DEF c
<1>8. /\ c \o b \in Seq(S) /\ Len(c \o b) = Len(c) + Len(b)
      /\ \A j \in 1 .. Len(c) + Len(b) : (c \o b)[j] = IF j <= Len(c) THEN c[j] ELSE b[j - Len(c)]
  <2>1. c \in Seq(S) /\ b \in Seq(S)
    BY <1>3, <1>6
  <2>. QED
    BY <2>1, ConcatProperties
<1>. DEFINE r == c \o b
<1>9. InsertAt(s, i, e) = r
  BY <1>7 DEF InsertAt, a, b, n
<1>. HIDE DEF r
<1>10. r \in Seq(S) /\ Len(r) = n + 1
  BY <1>1, <1>5, <1>6, <1>8 DEF r
<1>11. ASSUME NEW j \in 1 .. n + 1
       PROVE  r[j] = IF j < i THEN s[j] ELSE IF j = i THEN e ELSE s[j - 1]
  <2>y. j \in 1 .. Len(c) + Len(b)
    <3>1. Len(c) + Len(b) = n + 1
      BY <1>1, <1>5, <1>6, SMTT(30)
    <3>. QED
      BY <3>1
  <2>x. r[j] = IF j <= Len(c) THEN c[j] ELSE b[j - Len(c)]
    BY <1>8, <2>y DEF r
  <2>1. r[j] = IF j <= i THEN c[j] ELSE b[j - i]
    BY <1>6, <2>x
  <2>2. CASE j <= i
    BY <1>1, <1>6, <2>1, <2>2
  <2>3. CASE ~(j <= i)
    <3>1. j - i \in 1 .. n - i + 1 /\ i + (j - i) - 1 = j - 1
      BY <1>1, <2>3
    <3>2. r[j] = b[j - i] /\ ~(j < i) /\ j # i
      BY <1>1, <2>1, <2>3
    <3>3. b[j - i] = s[i + (j - i) - 1]
      BY <1>3, <3>1
    <3>. QED
      BY <3>1, <3>2, <3>3
  <2>. QED
    BY <2>2, <2>3
<1>. QED
  BY <1>9, <1>10, <1>11 DEF n

-----------------------------------------------------------------------------
(* The tiling, for any memory h, blocks H that are held and L on the list. *)
Memories == [Addr -> [magic : BOOLEAN, size : 0 .. HeapSize, free : BOOLEAN]]

TiledIn(h, H, L) ==
  /\ h \in Memories /\ H \subseteq Addr /\ L \subseteq Addr
  /\ 0 \in H \cup L /\ H \cap L = {}
  /\ \A b \in H \cup L : /\ h[b].magic /\ (h[b].free <=> b \in L)
                         /\ EndIn(h, b) \in H \cup L \cup {HeapSize}
                         /\ \A c \in H \cup L : b < c => EndIn(h, b) <= c

LEMMA Ends ==
  ASSUME NEW h \in Memories, NEW b \in Addr
  PROVE  /\ b \in Nat /\ b < HeapSize /\ b % Align = 0
         /\ EndIn(h, b) \in Nat /\ b < EndIn(h, b) /\ EndIn(h, b) = b + Hdr + h[b].size
         /\ h[b].size \in Nat /\ h[b] = [magic |-> h[b].magic, size |-> h[b].size, free |-> h[b].free]
<1>1. h[b] \in [magic : BOOLEAN, size : 0 .. HeapSize, free : BOOLEAN]
  BY DEF Memories
<1>. DEFINE z == h[b].size
<1>2. z \in Nat /\ b \in Nat /\ Hdr \in Nat \ {0}
  BY <1>1 DEF Addr
<1>. HIDE DEF z
<1>3. b + Hdr + z \in Nat /\ b < b + Hdr + z
  BY <1>2
<1>. QED
  BY <1>1, <1>2, <1>3 DEF EndIn, Addr, z

LEMMA EndsInside ==
  ASSUME NEW h, NEW H, NEW L, TiledIn(h, H, L), NEW b \in H \cup L
  PROVE  EndIn(h, b) <= HeapSize /\ b \in Addr
<1>1. EndIn(h, b) \in Addr \cup {HeapSize} /\ b \in Addr
  BY DEF TiledIn
<1>2. \A x \in Addr : x <= HeapSize
  BY DEF Addr
<1>3. HeapSize <= HeapSize
  OBVIOUS
<1>. QED
  BY <1>1, <1>2, <1>3

(* A block that is freed.                                                  *)
LEMMA FreeTiled ==
  ASSUME NEW h, NEW H, NEW L, TiledIn(h, H, L), NEW b \in H
  PROVE  TiledIn([h EXCEPT ![b] = Header(h[b].size, TRUE)], H \ {b}, L \cup {b})
<1>. DEFINE g == [h EXCEPT ![b] = Header(h[b].size, TRUE)]
            K == H \ {b}
            M == L \cup {b}
<1>1. h \in Memories /\ b \in Addr /\ H \subseteq Addr /\ L \subseteq Addr /\ H \cap L = {}
  BY DEF TiledIn
<1>2. g \in Memories
  BY <1>1, Ends DEF Header, Memories
<1>3. /\ g[b].magic /\ g[b].free /\ g[b].size = h[b].size
      /\ \A x \in Addr \ {b} : g[x] = h[x]
  BY <1>1 DEF Header, Memories
<1>4. \A x \in Addr : EndIn(g, x) = EndIn(h, x)
  BY <1>3 DEF EndIn
<1>. HIDE DEF g
<1>5. K \cup M = H \cup L /\ K \cap M = {}
  BY <1>1
<1>6. ASSUME NEW x \in K \cup M PROVE g[x].magic /\ (g[x].free <=> x \in M)
  <2>1. CASE x = b
    BY <1>3, <2>1
  <2>2. CASE x # b
    BY <1>1, <1>3, <1>5, <2>2 DEF TiledIn
  <2>. QED
    BY <2>1, <2>2
<1>7. TiledIn(g, K, M)
  BY <1>1, <1>2, <1>4, <1>5, <1>6 DEF TiledIn
<1>. QED
  BY <1>7 DEF g

(* Two free blocks that touch and become one.                              *)
Grown(h, a, c) == [h EXCEPT ![a].size = @ + Hdr + h[c].size]
LEMMA MergeTiled ==
  ASSUME NEW h, NEW H, NEW L, TiledIn(h, H, L), NEW a \in L, NEW c \in L, EndIn(h, a) = c
  PROVE  /\ TiledIn(Grown(h, a, c), H, L \ {c})
         /\ EndIn(Grown(h, a, c), a) = EndIn(h, c)
         /\ \A x \in Addr \ {a} : Grown(h, a, c)[x] = h[x]
<1>. DEFINE y == h[a].size
            z == h[c].size
            g == Grown(h, a, c)
            M == L \ {c}
<1>1. h \in Memories /\ H \subseteq Addr /\ L \subseteq Addr /\ H \cap L = {} /\ a \in Addr /\ c \in Addr
  BY DEF TiledIn
<1>2. y \in Nat /\ z \in Nat /\ a \in Nat /\ c \in Nat /\ a < c /\ c = a + Hdr + y
      /\ EndIn(h, c) = c + Hdr + z
  BY <1>1, Ends
<1>3. EndIn(h, c) \in H \cup L \cup {HeapSize}
  BY DEF TiledIn
<1>4. EndIn(h, c) <= HeapSize
  BY EndsInside
<1>. HIDE DEF y, z
<1>5. y + Hdr + z \in 0 .. HeapSize /\ a + Hdr + (y + Hdr + z) = c + Hdr + z
  BY <1>2, <1>4
<1>6. g \in Memories /\ g[a].size = y + Hdr + z
      /\ g[a].magic = h[a].magic /\ g[a].free = h[a].free
      /\ \A x \in Addr \ {a} : g[x] = h[x]
  <2>1. g = [h EXCEPT ![a] = [@ EXCEPT !.size = y + Hdr + z]]
    BY DEF y, z, Grown
  <2>2. h[a] \in [magic : BOOLEAN, size : 0 .. HeapSize, free : BOOLEAN]
    BY <1>1 DEF Memories
  <2>3. [h[a] EXCEPT !.size = y + Hdr + z] \in [magic : BOOLEAN, size : 0 .. HeapSize, free : BOOLEAN]
    BY <1>5, <2>2
  <2>. QED
    BY <1>1, <2>1, <2>2, <2>3 DEF Memories
<1>. HIDE DEF g
<1>7. EndIn(g, a) = EndIn(h, c)
  BY <1>2, <1>5, <1>6 DEF EndIn
<1>8. \A x \in Addr \ {a} : EndIn(g, x) = EndIn(h, x)
  BY <1>6 DEF EndIn
<1>x. c \notin H /\ H \cap M = {}
  BY <1>1
<1>y. H \cup M = (H \cup L) \ {c}
  BY <1>x
<1>z. c # a /\ c # 0 /\ 0 \in H \cup L
  BY <1>2 DEF TiledIn
<1>9. c \notin H /\ H \cup M = (H \cup L) \ {c} /\ a \in H \cup M /\ 0 \in H \cup M /\ H \cap M = {}
  BY <1>x, <1>y, <1>z
<1>10. ASSUME NEW x \in H \cup M PROVE g[x].magic /\ (g[x].free <=> x \in M)
  <2>1. h[x].magic /\ (h[x].free <=> x \in L) /\ x \in Addr /\ x # c
    BY <1>1, <1>9 DEF TiledIn
  <2>. QED
    BY <1>6, <2>1
<1>11. ASSUME NEW x \in H \cup M
       PROVE  /\ EndIn(g, x) \in H \cup M \cup {HeapSize}
              /\ \A d \in H \cup M : x < d => EndIn(g, x) <= d
  <2>1. x \in Addr /\ x \in Nat /\ x \in H \cup L /\ EndIn(h, x) \in Nat /\ x < EndIn(h, x)
    BY <1>1, <1>9, Ends
  <2>2. /\ EndIn(h, x) \in H \cup L \cup {HeapSize}
        /\ \A d \in H \cup L : x < d => EndIn(h, x) <= d
    BY <2>1 DEF TiledIn
  <2>3. CASE x = a
    <3>0. EndIn(h, c) # c
      <4>1. c < EndIn(h, c)
        BY <1>1, Ends
      <4>. QED
        BY <1>2, <4>1
    <3>1. EndIn(h, c) # c /\ EndIn(h, c) \in H \cup M \cup {HeapSize}
      BY <1>3, <1>9, <3>0
    <3>2. ASSUME NEW d \in H \cup M, a < d PROVE EndIn(h, c) <= d
      <4>1. d \in H \cup L /\ d # c /\ c <= d /\ d \in Nat
        BY <1>1, <1>9, <2>2, <2>3, <3>2, Ends
      <4>2. c < d
        BY <1>2, <4>1
      <4>. QED
        BY <4>1, <4>2 DEF TiledIn
    <3>. QED
      BY <1>7, <2>3, <3>1, <3>2
  <2>4. CASE x # a
    <3>1. EndIn(g, x) = EndIn(h, x)
      BY <1>8, <2>1, <2>4
    <3>2. EndIn(h, x) # c
      <4>1. CASE x < a
        BY <1>2, <2>1, <2>2, <4>1
      <4>2. CASE a < x
        <5>1. c <= x
          BY <2>1, <4>2 DEF TiledIn
        <5>. DEFINE e == EndIn(h, x)
        <5>2. e \in Nat /\ x < e
          BY <2>1
        <5>. HIDE DEF e
        <5>3. e # c
          BY <1>2, <2>1, <5>1, <5>2
        <5>. QED
          BY <5>3 DEF e
      <4>. QED
        BY <1>2, <2>1, <2>4, <4>1, <4>2
    <3>. QED
      BY <1>9, <2>2, <3>1, <3>2
  <2>. QED
    BY <2>3, <2>4
<1>12. TiledIn(g, H, M)
  BY <1>1, <1>6, <1>9, <1>10, <1>11 DEF TiledIn
<1>. QED
  BY <1>6, <1>7, <1>12 DEF g

(* A block that is taken whole.                                            *)
Taken(h, b) == [h EXCEPT ![b].free = FALSE]
TakesWell(h, H, L, b, g) ==
  /\ TiledIn(g, H \cup {b}, L \ {b})
  /\ g[b].size = h[b].size /\ \A x \in Addr \ {b} : g[x] = h[x]
LEMMA TakeTiled ==
  ASSUME NEW h, NEW H, NEW L, TiledIn(h, H, L), NEW b \in L
  PROVE  TakesWell(h, H, L, b, Taken(h, b))
<1>. DEFINE g == [h EXCEPT ![b].free = FALSE]
            K == H \cup {b}
            M == L \ {b}
<1>1. h \in Memories /\ b \in Addr /\ H \subseteq Addr /\ L \subseteq Addr /\ H \cap L = {}
  BY DEF TiledIn
<1>2. h[b] \in [magic : BOOLEAN, size : 0 .. HeapSize, free : BOOLEAN]
  BY <1>1 DEF Memories
<1>3. /\ g[b].magic = h[b].magic /\ g[b].free = FALSE /\ g[b].size = h[b].size
      /\ \A x \in Addr \ {b} : g[x] = h[x]
  BY <1>1, <1>2 DEF Memories
<1>4. g \in Memories
  BY <1>1, <1>2 DEF Memories
<1>5. \A x \in Addr : EndIn(g, x) = EndIn(h, x)
  BY <1>3 DEF EndIn
<1>. HIDE DEF g
<1>6. K \cup M = H \cup L /\ K \cap M = {}
  BY <1>1
<1>7. ASSUME NEW x \in K \cup M PROVE g[x].magic /\ (g[x].free <=> x \in M)
  <2>1. CASE x = b
    BY <1>3, <2>1 DEF TiledIn
  <2>2. CASE x # b
    BY <1>1, <1>3, <1>6, <2>2 DEF TiledIn
  <2>. QED
    BY <2>1, <2>2
<1>8. TiledIn(g, K, M)
  BY <1>1, <1>4, <1>5, <1>6, <1>7 DEF TiledIn
<1>. QED
  BY <1>3, <1>8 DEF g, Taken, TakesWell

(* A block that is split: its rest takes its place among the free ones.    *)
Rest(b, need) == b + Hdr + need
Cut(h, b, need) == [h EXCEPT ![b] = Header(need, FALSE),
                             ![Rest(b, need)] = Header(h[b].size - need - Hdr, TRUE)]
SplitsWell(h, H, L, b, need, rest, g) ==
  /\ TiledIn(g, H \cup {b}, (L \ {b}) \cup {rest})
  /\ rest \in Addr /\ b < rest /\ rest < EndIn(h, b) /\ rest \notin H \cup L
  /\ g[b].size = need /\ EndIn(g, rest) = EndIn(h, b)
  /\ \A x \in Addr \ {b, rest} : g[x] = h[x]
LEMMA SplitTiled ==
  ASSUME NEW h, NEW H, NEW L, TiledIn(h, H, L), NEW b \in L,
         NEW need \in Nat, need % Align = 0, WorthSplitting(h[b].size, need)
  PROVE  SplitsWell(h, H, L, b, need, Rest(b, need), Cut(h, b, need))
<1>. DEFINE z == h[b].size
            rest == b + Hdr + need
            g == [h EXCEPT ![b] = Header(need, FALSE), ![rest] = Header(h[b].size - need - Hdr, TRUE)]
            K == H \cup {b}
            M == (L \ {b}) \cup {rest}
<1>1. h \in Memories /\ b \in Addr /\ H \subseteq Addr /\ L \subseteq Addr /\ H \cap L = {}
  BY DEF TiledIn
<1>2. z \in Nat /\ b \in Nat /\ b % Align = 0 /\ EndIn(h, b) = b + Hdr + z
  BY <1>1, Ends
<1>3. EndIn(h, b) <= HeapSize
  BY EndsInside
<1>4. need + Hdr + MinSplit <= z
  BY DEF WorthSplitting
<1>. HIDE DEF z
<1>5. /\ rest \in Nat /\ b < rest /\ rest < b + Hdr + z /\ rest < HeapSize
      /\ z - need - Hdr \in 0 .. HeapSize /\ rest + Hdr + (z - need - Hdr) = b + Hdr + z
      /\ need \in 0 .. HeapSize
  BY <1>2, <1>3, <1>4
<1>6. rest % Align = 0
  <2>1. Hdr % Align = 0
    OBVIOUS
  <2>2. (Hdr + need) % Align = 0
    BY <2>1, SumAligned
  <2>3. (b + (Hdr + need)) % Align = 0
    BY <1>2, <2>2, SumAligned
  <2>4. b + (Hdr + need) = rest
    BY <1>2
  <2>. QED
    BY <2>3, <2>4
<1>7. rest \in Addr
  BY <1>5, <1>6 DEF Addr
<1>8. rest \notin H \cup L
  BY <1>2, <1>5 DEF TiledIn
<1>. HIDE DEF rest
<1>9. /\ g \in Memories /\ g[b] = Header(need, FALSE) /\ g[rest] = Header(z - need - Hdr, TRUE)
      /\ \A x \in Addr \ {b, rest} : g[x] = h[x]
  <2>1. b # rest
    BY <1>2, <1>5
  <2>2. Header(need, FALSE) \in [magic : BOOLEAN, size : 0 .. HeapSize, free : BOOLEAN]
        /\ Header(z - need - Hdr, TRUE) \in [magic : BOOLEAN, size : 0 .. HeapSize, free : BOOLEAN]
    BY <1>5 DEF Header
  <2>3. g = [h EXCEPT ![b] = Header(need, FALSE), ![rest] = Header(z - need - Hdr, TRUE)]
    BY DEF z
  <2>. QED
    BY <1>1, <1>7, <2>1, <2>2, <2>3 DEF Memories
<1>. HIDE DEF g
<1>10. g[b].size = need /\ g[b].magic /\ ~g[b].free
       /\ g[rest].size = z - need - Hdr /\ g[rest].magic /\ g[rest].free
  BY <1>9 DEF Header
<1>11. EndIn(g, b) = rest /\ EndIn(g, rest) = EndIn(h, b)
  BY <1>2, <1>5, <1>10 DEF EndIn, rest
<1>12. \A x \in Addr \ {b, rest} : EndIn(g, x) = EndIn(h, x)
  BY <1>9 DEF EndIn
<1>13. K \cup M = H \cup L \cup {rest} /\ K \cap M = {} /\ 0 \in K \cup M
  BY <1>1, <1>5, <1>8 DEF TiledIn
<1>14. ASSUME NEW x \in K \cup M PROVE g[x].magic /\ (g[x].free <=> x \in M)
  <2>1. CASE x = b
    BY <1>5, <1>10, <2>1
  <2>2. CASE x = rest
    BY <1>10, <2>2
  <2>3. CASE x # b /\ x # rest
    BY <1>1, <1>9, <1>13, <2>3 DEF TiledIn
  <2>. QED
    BY <2>1, <2>2, <2>3
<1>15. ASSUME NEW x \in K \cup M
       PROVE  /\ EndIn(g, x) \in K \cup M \cup {HeapSize}
              /\ \A d \in K \cup M : x < d => EndIn(g, x) <= d
  <2>1. b \in H \cup L /\ EndIn(h, b) \in H \cup L \cup {HeapSize} /\ EndIn(h, b) \in Nat
        /\ \A d \in H \cup L : b < d => EndIn(h, b) <= d
    BY <1>1, Ends DEF TiledIn
  <2>2. \A d \in K \cup M : d \in Nat /\ (d = rest \/ d \in H \cup L)
    BY <1>1, <1>5, <1>13 DEF Addr
  <2>3. CASE x = b
    <3>1. ASSUME NEW d \in K \cup M, b < d PROVE rest <= d
      BY <1>2, <1>5, <2>1, <2>2, <3>1
    <3>. QED
      BY <1>11, <2>3, <3>1
  <2>4. CASE x = rest
    <3>1. ASSUME NEW d \in K \cup M, rest < d PROVE EndIn(h, b) <= d
      BY <1>2, <1>5, <2>1, <2>2, <3>1
    <3>. QED
      BY <1>11, <1>13, <2>1, <2>4, <3>1
  <2>5. CASE x # b /\ x # rest
    <3>1. x \in H \cup L /\ x \in Addr /\ x \in Nat /\ EndIn(g, x) = EndIn(h, x) /\ EndIn(h, x) \in Nat
      BY <1>1, <1>12, <1>13, <2>5, Ends
    <3>2. /\ EndIn(h, x) \in H \cup L \cup {HeapSize}
          /\ \A d \in H \cup L : x < d => EndIn(h, x) <= d
      BY <3>1 DEF TiledIn
    <3>3. x < rest => EndIn(h, x) <= rest
      <4>1. CASE x < b
        BY <1>2, <1>5, <2>1, <3>1, <3>2, <4>1
      <4>2. CASE b < x
        BY <1>2, <1>5, <2>1, <3>1, <4>2
      <4>. QED
        BY <1>2, <2>5, <3>1, <4>1, <4>2
    <3>. QED
      BY <1>13, <2>2, <3>1, <3>2, <3>3
  <2>. QED
    BY <2>3, <2>4, <2>5
<1>16. TiledIn(g, K, M)
  BY <1>1, <1>7, <1>9, <1>13, <1>14, <1>15 DEF TiledIn
<1>. QED
  BY <1>5, <1>2, <1>7, <1>8, <1>9, <1>10, <1>11, <1>16 DEF g, rest, Rest, Cut, SplitsWell

-----------------------------------------------------------------------------
(* The list is in the order of addresses, and holds the free blocks.       *)
Elements(l) == {l[i] : i \in 1 .. Len(l)}
Sorted(l) == \A i, j \in 1 .. Len(l) : i < j => l[i] < l[j]
GapAt(h, l, i) == EndIn(h, l[i]) < l[i + 1]
Sane(h, l, H) == l \in Seq(Addr) /\ Sorted(l) /\ TiledIn(h, H, Elements(l))

LEMMA ListTyped ==
  ASSUME NEW l \in Seq(Addr)
  PROVE  /\ Len(l) \in Nat /\ Elements(l) \subseteq Addr
         /\ \A i \in 1 .. Len(l) : l[i] \in Addr /\ l[i] \in Nat /\ l[i] \in Elements(l)
<1>1. Len(l) \in Nat /\ \A i \in 1 .. Len(l) : l[i] \in Addr
  BY LenProperties
<1>2. Elements(l) \subseteq Addr /\ \A i \in 1 .. Len(l) : l[i] \in Elements(l)
  BY <1>1 DEF Elements
<1>. QED
  BY <1>1, <1>2 DEF Addr

LEMMA RemoveSorted ==
  ASSUME NEW l \in Seq(Addr), Sorted(l), NEW i \in 1 .. Len(l)
  PROVE  Sorted(RemoveAt(l, i)) /\ Elements(RemoveAt(l, i)) = Elements(l) \ {l[i]}
<1>. DEFINE r == RemoveAt(l, i)
            n == Len(l)
            old(j) == IF j < i THEN j ELSE j + 1
<1>1. n \in Nat /\ i \in 1 .. n /\ \A j \in 1 .. n : l[j] \in Nat
  BY ListTyped
<1>2. /\ Len(r) = n - 1
      /\ \A j \in 1 .. n - 1 : r[j] = IF j < i THEN l[j] ELSE l[j + 1]
  BY RemoveAtSound
<1>3. \A j, k \in 1 .. n : j < k => l[j] < l[k]
  BY DEF Sorted
<1>. HIDE DEF r, n
<1>4. \A j \in 1 .. n - 1 : old(j) \in 1 .. n /\ old(j) # i
  BY <1>1
<1>5. \A j \in 1 .. n - 1 : r[j] = l[old(j)]
  BY <1>2
<1>6. \A j, k \in 1 .. n - 1 : j < k => old(j) < old(k)
  BY <1>1
<1>7. ASSUME NEW k \in 1 .. n, k # i PROVE \E j \in 1 .. n - 1 : old(j) = k
  <2>1. CASE k < i
    <3>1. k \in 1 .. n - 1 /\ old(k) = k
      BY <1>1, <2>1
    <3>. QED
      BY <3>1
  <2>2. CASE i < k
    <3>1. k - 1 \in 1 .. n - 1 /\ old(k - 1) = k
      BY <1>1, <2>2
    <3>. QED
      BY <3>1
  <2>. QED
    BY <1>1, <1>7, <2>1, <2>2
<1>. HIDE DEF old
<1>8. \A j, k \in 1 .. n - 1 : j < k => r[j] < r[k]
  BY <1>3, <1>4, <1>5, <1>6
<1>9. \A k \in 1 .. n : k # i => l[k] # l[i]
  BY <1>1, <1>3
<1>10. Elements(r) = {r[j] : j \in 1 .. n - 1} /\ Elements(l) = {l[j] : j \in 1 .. n}
  BY <1>2 DEF Elements, n
<1>11. ASSUME NEW x \in Elements(r) PROVE x \in Elements(l) \ {l[i]}
  BY <1>4, <1>5, <1>9, <1>10
<1>12. ASSUME NEW x \in Elements(l) \ {l[i]} PROVE x \in Elements(r)
  <2>1. PICK k \in 1 .. n : x = l[k] /\ k # i
    BY <1>10
  <2>2. PICK j \in 1 .. n - 1 : old(j) = k
    BY <1>7, <2>1
  <2>. QED
    BY <1>5, <1>10, <2>1, <2>2
<1>13. Sorted(r)
  BY <1>2, <1>8 DEF Sorted
<1>. QED
  BY <1>11, <1>12, <1>13 DEF r

(* A block is inserted before the first that is not below it.              *)
LEMMA InsertSorted ==
  ASSUME NEW l \in Seq(Addr), Sorted(l), NEW b \in Addr, NEW k \in 1 .. Len(l) + 1,
         \A i \in 1 .. Len(l) : IF i < k THEN l[i] < b ELSE b < l[i]
  PROVE  Sorted(InsertAt(l, k, b)) /\ Elements(InsertAt(l, k, b)) = Elements(l) \cup {b}
<1>. DEFINE r == InsertAt(l, k, b)
            n == Len(l)
            old(j) == IF j < k THEN j ELSE j - 1
<1>1. n \in Nat /\ k \in 1 .. n + 1 /\ b \in Nat /\ \A j \in 1 .. n : l[j] \in Nat
  BY ListTyped DEF Addr
<1>2. /\ Len(r) = n + 1
      /\ \A j \in 1 .. n + 1 : r[j] = IF j < k THEN l[j] ELSE IF j = k THEN b ELSE l[j - 1]
  BY InsertAtSound
<1>3. \A i, j \in 1 .. n : i < j => l[i] < l[j]
  BY DEF Sorted
<1>4. \A i \in 1 .. n : (i < k => l[i] < b) /\ (~(i < k) => b < l[i])
  OBVIOUS
<1>. HIDE DEF r, n
<1>5. \A j \in 1 .. n + 1 : j # k => old(j) \in 1 .. n /\ (old(j) < k <=> j < k)
  BY <1>1
<1>6. r[k] = b /\ \A j \in 1 .. n + 1 : j # k => r[j] = l[old(j)]
  BY <1>1, <1>2
<1>7. \A i, j \in 1 .. n + 1 : i # k /\ j # k /\ i < j => old(i) < old(j)
  BY <1>1
<1>8. ASSUME NEW i \in 1 .. n PROVE \E j \in 1 .. n + 1 : j # k /\ old(j) = i
  <2>1. CASE i < k
    <3>1. i \in 1 .. n + 1 /\ i # k /\ old(i) = i
      BY <1>1, <2>1
    <3>. QED
      BY <3>1
  <2>2. CASE ~(i < k)
    <3>1. i + 1 \in 1 .. n + 1 /\ i + 1 # k /\ old(i + 1) = i
      BY <1>1, <2>2
    <3>. QED
      BY <3>1
  <2>. QED
    BY <2>1, <2>2
<1>. HIDE DEF old
<1>9. ASSUME NEW i \in 1 .. n + 1, NEW j \in 1 .. n + 1, i < j PROVE r[i] < r[j]
  <2>1. CASE i # k /\ j # k
    BY <1>3, <1>5, <1>6, <1>7, <1>9, <2>1
  <2>2. CASE i = k
    <3>1. j # k /\ ~(j < k)
      BY <1>1, <1>9, <2>2
    <3>. QED
      BY <1>4, <1>5, <1>6, <2>2, <3>1
  <2>3. CASE j = k
    <3>1. i # k /\ i < k
      BY <1>1, <1>9, <2>3
    <3>. QED
      BY <1>4, <1>5, <1>6, <2>3, <3>1
  <2>. QED
    BY <2>1, <2>2, <2>3
<1>10. Elements(r) = {r[j] : j \in 1 .. n + 1} /\ Elements(l) = {l[j] : j \in 1 .. n}
  BY <1>2 DEF Elements, n
<1>11. ASSUME NEW x \in Elements(r) PROVE x \in Elements(l) \cup {b}
  BY <1>5, <1>6, <1>10
<1>12. ASSUME NEW x \in Elements(l) \cup {b} PROVE x \in Elements(r)
  <2>1. CASE x = b
    BY <1>1, <1>6, <1>10, <2>1
  <2>2. CASE x # b
    <3>1. PICK i \in 1 .. n : x = l[i]
      BY <1>10, <2>2
    <3>2. PICK j \in 1 .. n + 1 : j # k /\ old(j) = i
      BY <1>8
    <3>. QED
      BY <1>6, <1>10, <3>1, <3>2
  <2>. QED
    BY <2>1, <2>2
<1>13. Sorted(r)
  BY <1>2, <1>9 DEF Sorted
<1>. QED
  BY <1>11, <1>12, <1>13 DEF r

(* A block's place is taken by another that lies between its neighbours.   *)
LEMMA ReplaceSorted ==
  ASSUME NEW l \in Seq(Addr), Sorted(l), NEW i \in 1 .. Len(l), NEW e \in Addr, l[i] < e,
         \A j \in 1 .. Len(l) : i < j => e < l[j]
  PROVE  /\ ReplaceAt(l, i, e) \in Seq(Addr) /\ Len(ReplaceAt(l, i, e)) = Len(l)
         /\ ReplaceAt(l, i, e)[i] = e
         /\ \A j \in 1 .. Len(l) : j # i => ReplaceAt(l, i, e)[j] = l[j]
         /\ Sorted(ReplaceAt(l, i, e))
         /\ Elements(ReplaceAt(l, i, e)) = (Elements(l) \ {l[i]}) \cup {e}
<1>. DEFINE r == ReplaceAt(l, i, e)
            n == Len(l)
<1>1. n \in Nat /\ DOMAIN l = 1 .. n /\ \A j \in 1 .. n : l[j] \in Nat /\ l[j] \in Addr
  BY ListTyped, LenProperties
<1>2. r \in Seq(Addr) /\ Len(r) = n /\ r[i] = e /\ \A j \in 1 .. n : j # i => r[j] = l[j]
  <2>1. r = [l EXCEPT ![i] = e]
    BY <1>1 DEF ReplaceAt
  <2>2. r \in [1 .. n -> Addr] /\ r[i] = e /\ \A j \in 1 .. n : j # i => r[j] = l[j]
    <3>1. l \in [1 .. n -> Addr]
      BY <1>1, LenProperties
    <3>. HIDE DEF r, n
    <3>. QED
      BY <2>1, <3>1, <1>1 DEF n
  <2>. HIDE DEF r, n
  <2>3. r \in Seq(Addr) /\ DOMAIN r = 1 .. n
    <3>1. n \in Nat /\ r \in [1 .. n -> Addr]
      BY <1>1, <2>2
    <3>. QED
      BY <3>1, SMTT(30)
  <2>. QED
    BY <1>1, <2>2, <2>3, LenProperties
<1>3. \A j, k \in 1 .. n : j < k => l[j] < l[k]
  BY DEF Sorted
<1>4. i \in 1 .. n /\ e \in Nat /\ l[i] < e /\ \A j \in 1 .. n : i < j => e < l[j]
  BY DEF Addr
<1>. HIDE DEF r, n
<1>5. ASSUME NEW j \in 1 .. n, NEW k \in 1 .. n, j < k PROVE r[j] < r[k]
  <2>1. CASE j = i
    <3>1. r[j] = e /\ k # i /\ r[k] = l[k] /\ e < l[k]
      BY <1>2, <1>4, <1>5, <2>1
    <3>. QED
      BY <3>1
  <2>2. CASE k = i
    BY <1>1, <1>2, <1>3, <1>4, <1>5, <2>2
  <2>3. CASE j # i /\ k # i
    BY <1>2, <1>3, <1>5, <2>3
  <2>. QED
    BY <2>1, <2>2, <2>3
<1>6. Sorted(r)
  BY <1>2, <1>5 DEF Sorted
<1>7. \A j \in 1 .. n : j # i => l[j] # l[i]
  BY <1>1, <1>3, <1>4
<1>8. Elements(r) = ({l[j] : j \in 1 .. n} \ {l[i]}) \cup {e}
  BY <1>2, <1>4, <1>7 DEF Elements
<1>. QED
  BY <1>2, <1>6, <1>8 DEF Elements, r, n

-----------------------------------------------------------------------------
(* Merging keeps the heap sane, changes no block that is held, and closes  *)
(* the gap it looks at without opening another.                            *)
LEMMA MergeSound ==
  ASSUME NEW h, NEW l, NEW H, Sane(h, l, H), NEW i \in Int
  PROVE  LET m == MergeAt([hdr |-> h, list |-> l], i)
         IN  /\ Sane(m.hdr, m.list, H) /\ m = [hdr |-> m.hdr, list |-> m.list]
             /\ \A x \in Addr : m.hdr[x].magic = h[x].magic /\ m.hdr[x].free = h[x].free
             /\ \A x \in H : m.hdr[x] = h[x]
             /\ \/ /\ m = [hdr |-> h, list |-> l]
                   /\ i \in 1 .. Len(l) - 1 => GapAt(h, l, i)
                \/ /\ Len(m.list) = Len(l) - 1 /\ i \in 1 .. Len(l) - 1
                   /\ \A j \in 1 .. Len(l) - 2 :
                        GapAt(h, l, IF j < i THEN j ELSE j + 1) => GapAt(m.hdr, m.list, j)
<1>. DEFINE m == MergeAt([hdr |-> h, list |-> l], i)
            n == Len(l)
            L == Elements(l)
<1>1. /\ l \in Seq(Addr) /\ Sorted(l) /\ TiledIn(h, H, L) /\ n \in Nat
      /\ \A j \in 1 .. n : l[j] \in Addr /\ l[j] \in Nat /\ l[j] \in L
  BY ListTyped DEF Sane
<1>2. \A j, k \in 1 .. n : j < k => l[j] < l[k]
  BY <1>1 DEF Sorted
<1>3. h \in Memories /\ H \subseteq Addr /\ L \subseteq Addr /\ H \cap L = {}
  BY <1>1 DEF TiledIn
<1>4. CASE ~(i \in 1 .. n - 1 /\ EndIn(h, l[i]) = l[i + 1])
  <2>1. m = [hdr |-> h, list |-> l]
    BY <1>4 DEF MergeAt
  <2>2. ASSUME i \in 1 .. n - 1 PROVE GapAt(h, l, i)
    <3>1. i \in 1 .. n /\ i + 1 \in 1 .. n /\ i < i + 1
      BY <1>1, <2>2
    <3>2. l[i] \in L /\ l[i + 1] \in L /\ l[i] < l[i + 1] /\ l[i] \in Addr /\ l[i + 1] \in Nat
      BY <1>1, <1>2, <3>1
    <3>3. EndIn(h, l[i]) <= l[i + 1] /\ EndIn(h, l[i]) \in Nat
      BY <1>1, <1>3, <3>2, Ends DEF TiledIn
    <3>4. EndIn(h, l[i]) # l[i + 1]
      BY <1>4, <2>2
    <3>. QED
      BY <3>2, <3>3, <3>4 DEF GapAt
  <2>. HIDE DEF m
  <2>. QED
    BY <2>1, <2>2 DEF m
<1>5. CASE i \in 1 .. n - 1 /\ EndIn(h, l[i]) = l[i + 1]
  <2>. DEFINE a == l[i]
              c == l[i + 1]
              g == Grown(h, a, c)
              r == RemoveAt(l, i + 1)
  <2>1. m = [hdr |-> g, list |-> r]
    BY <1>5 DEF MergeAt, Grown
  <2>2. i \in 1 .. n /\ i + 1 \in 1 .. n /\ a \in L /\ c \in L /\ a \in Addr /\ EndIn(h, a) = c
    <3>1. i \in 1 .. n /\ i + 1 \in 1 .. n
      BY <1>1, <1>5
    <3>. QED
      BY <1>1, <1>5, <3>1
  <2>3. TiledIn(g, H, L \ {c}) /\ EndIn(g, a) = EndIn(h, c) /\ \A x \in Addr \ {a} : g[x] = h[x]
    <3>1. TiledIn(h, H, L) /\ a \in L /\ c \in L /\ EndIn(h, a) = c
      BY <1>1, <2>2
    <3>. HIDE DEF a, c, L, m, n, r
    <3>. QED
      BY <3>1, MergeTiled
  <2>4. /\ r \in Seq(Addr) /\ Len(r) = n - 1
        /\ \A j \in 1 .. n - 1 : r[j] = IF j < i + 1 THEN l[j] ELSE l[j + 1]
    BY <1>1, <2>2, RemoveAtSound
  <2>5. Sorted(r) /\ Elements(r) = L \ {c}
    BY <1>1, <2>2, RemoveSorted
  <2>6. Sane(g, r, H)
    BY <2>3, <2>4, <2>5 DEF Sane
  <2>7. g[a].magic = h[a].magic /\ g[a].free = h[a].free
    <3>1. h[a] \in [magic : BOOLEAN, size : 0 .. HeapSize, free : BOOLEAN]
      BY <1>3, <2>2 DEF Memories
    <3>. QED
      BY <1>3, <2>2, <3>1 DEF Memories, Grown
  <2>8. a \notin H
    BY <1>3, <2>2
  <2>. HIDE DEF a, c, g, r, n, L
  <2>9. \A x \in Addr : g[x].magic = h[x].magic /\ g[x].free = h[x].free
    BY <2>3, <2>7
  <2>10. \A x \in H : g[x] = h[x]
    BY <1>3, <2>3, <2>8
  <2>11. ASSUME NEW j \in 1 .. n - 2, GapAt(h, l, IF j < i THEN j ELSE j + 1) PROVE GapAt(g, r, j)
    <3>1. CASE j < i
      <4>1. j \in 1 .. n /\ j \in 1 .. n - 1 /\ j + 1 \in 1 .. n - 1 /\ j < i + 1 /\ j + 1 < i + 1
        BY <1>1, <2>2, <3>1
      <4>2. r[j] = l[j] /\ r[j + 1] = l[j + 1]
        BY <2>4, <4>1
      <4>3. l[j] < a /\ l[j] \in Addr
        BY <1>1, <1>2, <2>2, <3>1, <4>1 DEF a
      <4>4. l[j] # a
        BY <1>1, <2>2, <4>1, <4>3 DEF a
      <4>5. EndIn(g, l[j]) = EndIn(h, l[j])
        BY <2>3, <4>3, <4>4 DEF EndIn
      <4>. QED
        BY <2>11, <3>1, <4>2, <4>5 DEF GapAt
    <3>2. CASE j = i
      <4>1. j \in 1 .. n - 1 /\ j + 1 \in 1 .. n - 1 /\ j < i + 1 /\ ~(j + 1 < i + 1)
        BY <1>1, <2>2, <3>2
      <4>2. r[j] = a /\ r[j + 1] = l[(j + 1) + 1] /\ l[j + 1] = c
        BY <2>4, <3>2, <4>1 DEF a, c
      <4>3. GapAt(h, l, j + 1)
        BY <2>11, <3>2
      <4>. QED
        BY <2>3, <4>2, <4>3 DEF GapAt
    <3>3. CASE i < j
      <4>1. /\ j \in 1 .. n - 1 /\ j + 1 \in 1 .. n - 1 /\ ~(j < i + 1) /\ ~(j + 1 < i + 1)
            /\ j + 1 \in 1 .. n /\ i < j + 1
        BY <1>1, <2>2, <3>3
      <4>2. r[j] = l[j + 1] /\ r[j + 1] = l[(j + 1) + 1]
        BY <2>4, <4>1
      <4>3. a < l[j + 1] /\ l[j + 1] \in Addr
        BY <1>1, <1>2, <2>2, <4>1 DEF a
      <4>4. l[j + 1] # a
        BY <1>1, <2>2, <4>1, <4>3 DEF a
      <4>5. EndIn(g, l[j + 1]) = EndIn(h, l[j + 1])
        BY <2>3, <4>3, <4>4 DEF EndIn
      <4>6. GapAt(h, l, j + 1)
        BY <2>11, <2>2, <3>3, <4>1
      <4>. QED
        BY <4>2, <4>5, <4>6 DEF GapAt
    <3>. QED
      BY <2>2, <3>1, <3>2, <3>3
  <2>12. Len(r) = n - 1 /\ i \in 1 .. n - 1
    BY <1>5, <2>4
  <2>. HIDE DEF m
  <2>. QED
    BY <2>1, <2>6, <2>9, <2>10, <2>11, <2>12 DEF m, n
<1>. QED
  BY <1>4, <1>5

-----------------------------------------------------------------------------
(* The place that heap_add_free finds.                                     *)
LEMMA PlaceSound ==
  ASSUME Sane(hdr, list, held), NEW b \in Addr, b \notin Elements(list)
  PROVE  /\ Place(b) \in 1 .. Len(list) + 1
         /\ \A i \in 1 .. Len(list) : IF i < Place(b) THEN list[i] < b ELSE b < list[i]
<1>. DEFINE n == Len(list)
            I == {i \in 1 .. n : list[i] >= b}
<1>1. /\ n \in Nat /\ b \in Nat
      /\ \A i \in 1 .. n : list[i] \in Nat /\ list[i] # b
  <2>1. list \in Seq(Addr) /\ b \in Nat
    BY DEF Sane, Addr
  <2>2. n \in Nat /\ \A i \in 1 .. n : list[i] \in Nat /\ list[i] \in Elements(list)
    BY <2>1, ListTyped
  <2>. QED
    BY <2>1, <2>2
<1>2. \A i, j \in 1 .. n : i < j => list[i] < list[j]
  BY DEF Sane, Sorted
<1>3. SelectInSeq(list, LAMBDA a : a >= b) = IF I # {} THEN Min(I) ELSE 0
  BY DEF SelectInSeq
<1>. HIDE DEF n
<1>4. CASE I = {}
  <2>1. Place(b) = n + 1
    BY <1>3, <1>4 DEF Place, n
  <2>2. \A i \in 1 .. n : list[i] < b
    BY <1>1, <1>4
  <2>. QED
    BY <1>1, <2>1, <2>2 DEF n
<1>5. CASE I # {}
  <2>. DEFINE k == Min(I)
  <2>1. k \in I /\ \A i \in I : k <= i
    BY <1>1, <1>5, FirstOf
  <2>2. k \in 1 .. n /\ list[k] >= b
    BY <2>1
  <2>3. Place(b) = k
    <3>1. k # 0
      BY <2>2
    <3>. HIDE DEF k
    <3>2. SelectInSeq(list, LAMBDA a : a >= b) = k
      BY <1>3, <1>5 DEF k
    <3>. QED
      BY <3>1, <3>2 DEF Place
  <2>4. \A i \in 1 .. n : i < k => list[i] < b
    <3>1. ASSUME NEW i \in 1 .. n, i < k PROVE list[i] < b
      <4>1. i \notin I
        BY <2>1, <2>2, <3>1
      <4>. QED
        BY <1>1, <4>1
    <3>. QED
      BY <3>1
  <2>. HIDE DEF k
  <2>5. ASSUME NEW i \in 1 .. n, ~(i < k) PROVE b < list[i]
    <3>1. CASE i = k
      BY <1>1, <2>2, <3>1
    <3>2. CASE k < i
      BY <1>1, <1>2, <2>2, <3>2
    <3>. QED
      BY <2>2, <2>5, <3>1, <3>2
  <2>6. k \in 1 .. n + 1
    BY <1>1, <2>2
  <2>. QED
    BY <2>3, <2>4, <2>5, <2>6 DEF n
<1>. QED
  BY <1>4, <1>5

-----------------------------------------------------------------------------
(* No two blocks of a list touch, but perhaps at one place.                *)
GapsBut(h, l, X) == \A j \in 1 .. Len(l) - 1 : j \notin X => GapAt(h, l, j)

(* What merging leaves: only the sizes of free blocks change.              *)
MergesWell(m, h, H, X) ==
  /\ Sane(m.hdr, m.list, H) /\ m = [hdr |-> m.hdr, list |-> m.list]
  /\ GapsBut(m.hdr, m.list, X)
  /\ \A x \in Addr : m.hdr[x].magic = h[x].magic /\ m.hdr[x].free = h[x].free
  /\ \A x \in H : m.hdr[x] = h[x]

(* One merge closes the last gap.                                          *)
LEMMA MergeCloses ==
  ASSUME NEW h, NEW l, NEW H, Sane(h, l, H), NEW i \in Int, GapsBut(h, l, {i})
  PROVE  MergesWell(MergeAt([hdr |-> h, list |-> l], i), h, H, {})
<1>. DEFINE m == MergeAt([hdr |-> h, list |-> l], i)
            n == Len(l)
<1>1. /\ Sane(m.hdr, m.list, H) /\ m = [hdr |-> m.hdr, list |-> m.list]
      /\ \A x \in Addr : m.hdr[x].magic = h[x].magic /\ m.hdr[x].free = h[x].free
      /\ \A x \in H : m.hdr[x] = h[x]
      /\ \/ /\ m = [hdr |-> h, list |-> l]
            /\ i \in 1 .. n - 1 => GapAt(h, l, i)
         \/ /\ Len(m.list) = n - 1 /\ i \in 1 .. n - 1
            /\ \A j \in 1 .. n - 2 :
                 GapAt(h, l, IF j < i THEN j ELSE j + 1) => GapAt(m.hdr, m.list, j)
  BY MergeSound
<1>2. n \in Nat
  BY ListTyped DEF Sane
<1>. HIDE DEF m, n
<1>3. ASSUME m = [hdr |-> h, list |-> l], i \in 1 .. n - 1 => GapAt(h, l, i)
      PROVE  GapsBut(m.hdr, m.list, {})
  <2>1. m.hdr = h /\ m.list = l
    BY <1>3
  <2>. QED
    BY <1>3, <2>1 DEF GapsBut, n
<1>4. ASSUME Len(m.list) = n - 1, i \in 1 .. n - 1,
             \A j \in 1 .. n - 2 :
                GapAt(h, l, IF j < i THEN j ELSE j + 1) => GapAt(m.hdr, m.list, j)
      PROVE  GapsBut(m.hdr, m.list, {})
  <2>1. ASSUME NEW j \in 1 .. n - 2 PROVE GapAt(m.hdr, m.list, j)
    <3>. DEFINE k == IF j < i THEN j ELSE j + 1
    <3>1. k \in 1 .. n - 1 /\ k # i
      BY <1>2, <1>4
    <3>. HIDE DEF k
    <3>2. GapAt(h, l, k)
      BY <3>1 DEF GapsBut, n
    <3>. QED
      BY <1>4, <3>2 DEF k
  <2>2. Len(m.list) - 1 = n - 2
    BY <1>2, <1>4
  <2>. QED
    BY <2>1, <2>2 DEF GapsBut
<1>5. GapsBut(m.hdr, m.list, {})
  BY <1>1, <1>3, <1>4
<1>. QED
  BY <1>1, <1>5 DEF m, MergesWell

(* Of two places one merge leaves one: the same, or, if it merged, the     *)
(* place that follows has moved.                                           *)
LEMMA MergeBelow ==
  ASSUME NEW h, NEW l, NEW H, Sane(h, l, H), NEW k \in Int, GapsBut(h, l, {k - 1, k})
  PROVE  MergesWell(MergeAt([hdr |-> h, list |-> l], k - 1), h, H,
                    {IF MergeAt([hdr |-> h, list |-> l], k - 1) = [hdr |-> h, list |-> l]
                       THEN k ELSE k - 1})
<1>. DEFINE i == k - 1
            m == MergeAt([hdr |-> h, list |-> l], i)
            n == Len(l)
<1>1. i \in Int
  OBVIOUS
<1>2. /\ Sane(m.hdr, m.list, H) /\ m = [hdr |-> m.hdr, list |-> m.list]
      /\ \A x \in Addr : m.hdr[x].magic = h[x].magic /\ m.hdr[x].free = h[x].free
      /\ \A x \in H : m.hdr[x] = h[x]
      /\ \/ /\ m = [hdr |-> h, list |-> l]
            /\ i \in 1 .. n - 1 => GapAt(h, l, i)
         \/ /\ Len(m.list) = n - 1 /\ i \in 1 .. n - 1
            /\ \A j \in 1 .. n - 2 :
                 GapAt(h, l, IF j < i THEN j ELSE j + 1) => GapAt(m.hdr, m.list, j)
  <2>. HIDE DEF i
  <2>. QED
    BY <1>1, MergeSound
<1>3. n \in Nat /\ k = i + 1
  BY ListTyped DEF Sane
<1>. HIDE DEF m, n
<1>4. CASE m = [hdr |-> h, list |-> l] /\ (i \in 1 .. n - 1 => GapAt(h, l, i))
  <2>1. m.hdr = h /\ m.list = l
    BY <1>4
  <2>2. ASSUME NEW j \in 1 .. n - 1, j # k PROVE GapAt(h, l, j)
    <3>1. CASE j = i
      BY <1>4, <3>1
    <3>2. CASE j # i
      BY <2>2, <3>2 DEF GapsBut, n
    <3>. QED
      BY <3>1, <3>2
  <2>3. GapsBut(m.hdr, m.list, {k})
    BY <2>1, <2>2 DEF GapsBut, n
  <2>. QED
    BY <1>2, <1>4, <2>3 DEF m, MergesWell
<1>5. CASE /\ Len(m.list) = n - 1 /\ i \in 1 .. n - 1
           /\ \A j \in 1 .. n - 2 :
                GapAt(h, l, IF j < i THEN j ELSE j + 1) => GapAt(m.hdr, m.list, j)
  <2>1. ASSUME NEW j \in 1 .. n - 2, j # i PROVE GapAt(m.hdr, m.list, j)
    <3>. DEFINE o == IF j < i THEN j ELSE j + 1
    <3>1. o \in 1 .. n - 1 /\ o # i /\ o # k
      BY <1>3, <1>5, <2>1
    <3>. HIDE DEF o, i
    <3>2. GapAt(h, l, o)
      BY <3>1 DEF GapsBut, n, i
    <3>. QED
      BY <1>5, <3>2 DEF o
  <2>2. Len(m.list) - 1 = n - 2
    BY <1>3, <1>5
  <2>3. GapsBut(m.hdr, m.list, {i})
    BY <2>1, <2>2 DEF GapsBut
  <2>4. m # [hdr |-> h, list |-> l]
    <3>1. SUFFICES ASSUME m = [hdr |-> h, list |-> l] PROVE FALSE
      OBVIOUS
    <3>2. m.list = l
      BY <3>1
    <3>. QED
      BY <1>3, <1>5, <3>2 DEF n
  <2>. QED
    BY <1>2, <2>3, <2>4 DEF m, MergesWell
<1>. QED
  BY <1>2, <1>4, <1>5

-----------------------------------------------------------------------------
(* The inductive invariant.  What is left of the header of a block that is *)
(* not held any more says that the block is free, or nothing.              *)
StaleRefused == \A b \in given \ held : ~Accepts(b)

IInv ==
  /\ Sane(hdr, list, held) /\ GapsBut(hdr, list, {})
  /\ held \subseteq given /\ given \subseteq Addr
  /\ StaleRefused

LEMMA InitSound == Init => IInv
<1>. SUFFICES ASSUME Init PROVE IInv
  OBVIOUS
<1>1. 0 \in Addr /\ HeapSize - Hdr \in 0 .. HeapSize /\ 0 + Hdr + (HeapSize - Hdr) = HeapSize
  <2>1. 0 % Align = 0
    OBVIOUS
  <2>. QED
    BY <2>1 DEF Addr
<1>2. Header(HeapSize - Hdr, TRUE) \in [magic : BOOLEAN, size : 0 .. HeapSize, free : BOOLEAN]
      /\ Junk \in [magic : BOOLEAN, size : 0 .. HeapSize, free : BOOLEAN]
  BY <1>1 DEF Header, Junk
<1>3. hdr \in Memories /\ hdr[0] = Header(HeapSize - Hdr, TRUE)
  BY <1>1, <1>2 DEF Init, Memories
<1>4. hdr[0].magic /\ hdr[0].free /\ hdr[0].size = HeapSize - Hdr
  BY <1>3 DEF Header
<1>5. EndIn(hdr, 0) = HeapSize
  BY <1>1, <1>4 DEF EndIn
<1>6. list = <<0>> /\ list \in Seq(Addr) /\ Len(list) = 1 /\ Elements(list) = {0} /\ held = {} /\ given = {}
  BY <1>1 DEF Init, Elements
<1>7. TiledIn(hdr, held, Elements(list))
  <2>1. held \cup Elements(list) = {0} /\ held \cap Elements(list) = {}
    BY <1>6
  <2>2. \A b \in {0} : /\ hdr[b].magic /\ (hdr[b].free <=> b \in Elements(list))
                       /\ EndIn(hdr, b) = HeapSize
    BY <1>4, <1>5, <1>6
  <2>3. \A b \in {0} : \A c \in {0} : ~(b < c)
    OBVIOUS
  <2>4. held \subseteq Addr /\ Elements(list) \subseteq Addr
    BY <1>1, <1>6
  <2>. QED
    BY <1>3, <2>1, <2>2, <2>3, <2>4 DEF TiledIn
<1>8. Sorted(list) /\ GapsBut(hdr, list, {})
  BY <1>6 DEF Sorted, GapsBut
<1>. QED
  BY <1>6, <1>7, <1>8 DEF IInv, Sane, StaleRefused

LEMMA Reads ==
  ASSUME IInv
  PROVE  /\ hdr \in Memories /\ list \in Seq(Addr) /\ TiledIn(hdr, held, Elements(list))
         /\ Elements(list) = Listed /\ Elements(list) \subseteq Addr
         /\ held \subseteq Addr /\ held \cap Elements(list) = {}
         /\ \A b \in held : Accepts(b)
BY DEF IInv, Sane, TiledIn, Elements, Listed, Accepts

-----------------------------------------------------------------------------
(* kfree of a block that is held: listed, and merged with its neighbours.  *)
LEMMA FreeHeld ==
  ASSUME IInv, NEW b \in held, Kfree(b)
  PROVE  IInv' /\ \A x \in held' : hdr'[x] = hdr[x]
<1>. DEFINE h == [hdr EXCEPT ![b] = Header(hdr[b].size, TRUE)]
            k == Place(b)
            l == InsertAt(list, k, b)
            K == held \ {b}
            added == [hdr |-> h, list |-> l]
            below == MergeAt(added, k - 1)
            last == MergeAt(below, IF below = added THEN k ELSE k - 1)
            n == Len(list)
<1>1. /\ hdr \in Memories /\ list \in Seq(Addr) /\ Sorted(list) /\ TiledIn(hdr, held, Elements(list))
      /\ b \in Addr /\ b \notin Elements(list) /\ Accepts(b)
      /\ Elements(list) \subseteq Addr /\ held \subseteq Addr
  BY Reads DEF IInv, Sane
<1>2. hdr' = last.hdr /\ list' = last.list /\ held' = K /\ given' = given
  BY <1>1 DEF Kfree, WithFree
<1>3. /\ k \in 1 .. n + 1 /\ n \in Nat
      /\ \A i \in 1 .. n : IF i < k THEN list[i] < b ELSE b < list[i]
  BY <1>1, PlaceSound, ListTyped DEF IInv
<1>. HIDE DEF k
<1>4. /\ l \in Seq(Addr) /\ Len(l) = n + 1
      /\ \A j \in 1 .. n + 1 : l[j] = IF j < k THEN list[j] ELSE IF j = k THEN b ELSE list[j - 1]
  BY <1>1, <1>3, InsertAtSound
<1>5. Sorted(l) /\ Elements(l) = Elements(list) \cup {b}
  BY <1>1, <1>3, InsertSorted
<1>6. TiledIn(h, K, Elements(list) \cup {b})
  BY <1>1, FreeTiled
<1>7. /\ h[b].magic /\ h[b].free /\ h[b].size = hdr[b].size
      /\ \A x \in Addr \ {b} : h[x] = hdr[x]
  BY <1>1 DEF Header, Memories
<1>8. \A x \in Addr : EndIn(h, x) = EndIn(hdr, x)
  BY <1>7 DEF EndIn
<1>. HIDE DEF h, l
<1>9. Sane(h, l, K)
  BY <1>4, <1>5, <1>6 DEF Sane
<1>10. GapsBut(h, l, {k - 1, k})
  <2>1. SUFFICES ASSUME NEW j \in 1 .. (n + 1) - 1, j # k - 1, j # k PROVE GapAt(h, l, j)
    BY <1>4 DEF GapsBut
  <2>2. \A j1 \in 1 .. n - 1 : EndIn(hdr, list[j1]) < list[j1 + 1]
    BY DEF IInv, GapsBut, GapAt
  <2>3. \A j1 \in 1 .. n : list[j1] \in Addr
    BY <1>1, ListTyped
  <2>4. CASE j < k
    <3>1. j \in 1 .. n + 1 /\ j + 1 \in 1 .. n + 1 /\ j + 1 < k /\ j \in 1 .. n - 1 /\ j \in 1 .. n
      BY <1>3, <2>1, <2>4
    <3>2. l[j] = list[j] /\ l[j + 1] = list[j + 1]
      BY <1>4, <2>4, <3>1
    <3>. QED
      BY <1>8, <2>2, <2>3, <3>1, <3>2 DEF GapAt
  <2>5. CASE k < j
    <3>1. /\ j \in 1 .. n + 1 /\ j + 1 \in 1 .. n + 1 /\ ~(j < k) /\ ~(j + 1 < k) /\ j + 1 # k
          /\ j - 1 \in 1 .. n - 1 /\ j - 1 \in 1 .. n /\ (j - 1) + 1 = j /\ (j + 1) - 1 = j
      <4>1. j \in Nat /\ j <= n /\ k \in Nat /\ 1 <= k /\ n \in Nat
        BY <1>3, <2>1
      <4>. QED
        BY <2>5, <4>1
    <3>2. l[j] = list[j - 1] /\ l[j + 1] = list[j]
      BY <1>4, <2>1, <3>1
    <3>3. EndIn(hdr, list[j - 1]) < list[j]
      BY <2>2, <3>1
    <3>. QED
      BY <1>8, <2>3, <3>1, <3>2, <3>3 DEF GapAt
  <2>. QED
    BY <1>3, <2>1, <2>4, <2>5
<1>11. k \in Int /\ k - 1 \in Int
  BY <1>3
<1>. DEFINE i == IF below = added THEN k ELSE k - 1
<1>12. MergesWell(below, h, K, {i}) /\ i \in Int
  <2>. HIDE DEF K
  <2>. QED
    BY <1>9, <1>10, <1>11, MergeBelow
<1>13. MergesWell(last, below.hdr, K, {})
  <2>. DEFINE g == below.hdr
              r == below.list
  <2>1. Sane(g, r, K) /\ below = [hdr |-> g, list |-> r] /\ GapsBut(g, r, {i}) /\ i \in Int
    BY <1>12 DEF MergesWell
  <2>2. last = MergeAt([hdr |-> g, list |-> r], i)
    BY <2>1
  <2>. HIDE DEF g, r, i, below, last, K
  <2>3. MergesWell(MergeAt([hdr |-> g, list |-> r], i), g, K, {})
    BY <2>1, MergeCloses
  <2>. QED
    BY <2>2, <2>3 DEF g
<1>. HIDE DEF below, last
<1>14. StaleRefused'
  <2>1. SUFFICES ASSUME NEW x \in given \ K PROVE ~(hdr'[x].magic /\ ~hdr'[x].free)
    BY <1>2 DEF StaleRefused, Accepts
  <2>2. x \in Addr /\ hdr'[x].magic = h[x].magic /\ hdr'[x].free = h[x].free
    BY <1>2, <1>12, <1>13 DEF IInv, MergesWell
  <2>3. CASE x = b
    BY <1>7, <2>2, <2>3
  <2>4. CASE x # b
    BY <1>7, <2>2, <2>4 DEF IInv, StaleRefused, Accepts
  <2>. QED
    BY <2>3, <2>4
<1>15. \A x \in K : hdr'[x] = hdr[x]
  BY <1>1, <1>2, <1>7, <1>12, <1>13 DEF MergesWell
<1>. QED
  BY <1>2, <1>13, <1>14, <1>15 DEF IInv, MergesWell

(* A second kfree of a pointer changes nothing.                            *)
LEMMA FreeAgain ==
  ASSUME IInv, NEW b \in given \ held, Kfree(b) PROVE IInv' /\ UNCHANGED vars
<1>1. ~Accepts(b) /\ held \ {b} = held
  BY DEF IInv, StaleRefused
<1>2. UNCHANGED vars
  BY <1>1 DEF Kfree, vars, heapVars, callVars
<1>. QED
  BY <1>2 DEF IInv, Sane, StaleRefused, Accepts, vars, heapVars, callVars

(* A caller that fills its block writes over no header of a block.         *)
LEMMA FillSound ==
  ASSUME IInv, NEW b \in held, Fill(b) PROVE IInv' /\ \A x \in held : hdr'[x] = hdr[x]
<1>. DEFINE L == Elements(list)
<1>1. /\ hdr \in Memories /\ TiledIn(hdr, held, L) /\ L \subseteq Addr /\ held \subseteq Addr
      /\ UNCHANGED <<list, held, given>>
      /\ hdr' = [a \in Addr |-> IF a > b /\ a < EndIn(hdr, b) THEN Junk ELSE hdr[a]]
  BY Reads DEF Fill, End, EndIn, callVars
<1>2. ASSUME NEW x \in held \cup L PROVE hdr'[x] = hdr[x]
  <2>1. x \in Addr /\ b \in Addr /\ x \in Nat /\ EndIn(hdr, b) \in Nat
    BY <1>1, Ends
  <2>2. ~(x > b /\ x < EndIn(hdr, b))
    BY <1>1, <2>1, Ends DEF TiledIn
  <2>. QED
    BY <1>1, <2>1, <2>2
<1>3. hdr' \in Memories
  <2>1. Junk \in [magic : BOOLEAN, size : 0 .. HeapSize, free : BOOLEAN]
    BY DEF Junk
  <2>. QED
    BY <1>1, <2>1 DEF Memories
<1>4. \A x \in held \cup L : EndIn(hdr', x) = EndIn(hdr, x)
  BY <1>2 DEF EndIn
<1>5. TiledIn(hdr', held, L)
  BY <1>1, <1>2, <1>3, <1>4 DEF TiledIn
<1>6. GapsBut(hdr', list, {})
  <2>1. \A i \in 1 .. Len(list) - 1 : EndIn(hdr, list[i]) < list[i + 1]
    BY DEF IInv, GapsBut, GapAt
  <2>2. \A i \in 1 .. Len(list) - 1 : list[i] \in L
    BY ListTyped, Reads
  <2>3. ASSUME NEW i \in 1 .. Len(list) - 1 PROVE EndIn(hdr', list[i]) < list[i + 1]
    <3>1. EndIn(hdr', list[i]) = EndIn(hdr, list[i])
      BY <1>4, <2>2
    <3>. QED
      BY <2>1, <3>1
  <2>. QED
    BY <2>3 DEF GapsBut, GapAt
<1>7. StaleRefused'
  <2>1. SUFFICES ASSUME NEW x \in given \ held PROVE ~(hdr'[x].magic /\ ~hdr'[x].free)
    BY <1>1 DEF StaleRefused, Accepts
  <2>2. hdr'[x] = Junk \/ hdr'[x] = hdr[x]
    BY <1>1 DEF IInv
  <2>3. ~Junk.magic
    BY DEF Junk
  <2>. QED
    BY <2>2, <2>3 DEF IInv, StaleRefused, Accepts
<1>. QED
  BY <1>1, <1>2, <1>5, <1>6, <1>7 DEF IInv, Sane

-----------------------------------------------------------------------------
(* The first block that fits, if there is one.                             *)
LEMMA FitSound ==
  ASSUME IInv, NEW n \in Requests
  PROVE  /\ FirstFit(n) = 0 => \A x \in Elements(list) : hdr[x].size < AlignUp(n)
         /\ FirstFit(n) # 0 => /\ FirstFit(n) \in 1 .. Len(list)
                               /\ AlignUp(n) <= hdr[list[FirstFit(n)]].size
<1>. DEFINE need == AlignUp(n)
            len == Len(list)
            I == {i \in 1 .. len : hdr[list[i]].size >= need}
<1>1. need \in Nat
  BY AlignUpServes
<1>2. len \in Nat /\ \A i \in 1 .. len : list[i] \in Addr /\ hdr[list[i]].size \in Nat
  BY Reads, ListTyped, Ends
<1>3. FirstFit(n) = IF I # {} THEN Min(I) ELSE 0
  BY DEF FirstFit, SelectInSeq
<1>. HIDE DEF need, len
<1>4. CASE I = {}
  <2>1. \A i \in 1 .. len : ~(hdr[list[i]].size >= need)
    BY <1>4
  <2>2. \A i \in 1 .. len : hdr[list[i]].size < need
    BY <1>1, <1>2, <2>1
  <2>3. FirstFit(n) = 0
    BY <1>3, <1>4
  <2>. QED
    BY <2>2, <2>3 DEF Elements, need, len
<1>5. CASE I # {}
  <2>1. Min(I) \in I
    BY <1>2, <1>5, FirstOf
  <2>2. FirstFit(n) = Min(I)
    BY <1>3, <1>5
  <2>3. FirstFit(n) \in 1 .. len /\ hdr[list[FirstFit(n)]].size >= need
    BY <2>1, <2>2
  <2>4. FirstFit(n) # 0
    BY <2>3
  <2>5. need <= hdr[list[FirstFit(n)]].size
    BY <1>1, <1>2, <2>3
  <2>. QED
    BY <2>3, <2>4, <2>5 DEF need, len
<1>. QED
  BY <1>4, <1>5

(* kmalloc that finds a block takes it off the list, whole or in part.     *)
LEMMA MallocTakes ==
  ASSUME IInv, NEW n \in Requests, Kmalloc(n), n # 0, FirstFit(n) # 0
  PROVE  /\ IInv' /\ got' \in Addr \ held /\ held' = held \cup {got'}
         /\ \A x \in held : hdr'[x] = hdr[x]
         /\ hdr'[got'].size \in AlignUp(n) .. AlignUp(n) + (Hdr + MinSplit - 1)
<1>. DEFINE need == AlignUp(n)
            k == FirstFit(n)
            b == list[k]
            L == Elements(list)
            len == Len(list)
            rest == Rest(b, need)
            g == Cut(hdr, b, need)
            f == Taken(hdr, b)
<1>1. /\ hdr \in Memories /\ list \in Seq(Addr) /\ TiledIn(hdr, held, L) /\ Sorted(list)
      /\ L \subseteq Addr /\ held \subseteq Addr /\ held \cap L = {}
      /\ len \in Nat /\ \A i \in 1 .. len : list[i] \in L /\ list[i] \in Addr /\ list[i] \in Nat
  BY Reads, ListTyped DEF IInv, Sane
<1>2. need \in Nat /\ need % Align = 0 /\ k \in 1 .. len /\ need <= hdr[b].size
  BY AlignUpServes, FitSound
<1>3. b \in L /\ b \in Addr /\ b \notin held
  BY <1>1, <1>2
<1>4. /\ got' = b /\ held' = held \cup {b} /\ given' = given \cup {b}
      /\ Take(b, k, need)
  BY DEF Kmalloc
<1>5. /\ \A i \in 1 .. len - 1 : EndIn(hdr, list[i]) < list[i + 1]
      /\ \A i, j \in 1 .. len : i < j => list[i] < list[j]
  BY DEF IInv, GapsBut, GapAt, Sane, Sorted
<1>t. /\ len \in Nat /\ k \in 1 .. len /\ list[k] = b
      /\ \A i \in 1 .. len : list[i] \in L /\ list[i] \in Addr /\ list[i] \in Nat
  BY <1>1, <1>2
<1>. HIDE DEF need, k, b, L, len
<1>6. hdr[b].size \in Nat /\ EndIn(hdr, b) \in Nat /\ b \in Nat
  BY <1>1, <1>3, Ends
<1>7. ASSUME WorthSplitting(hdr[b].size, need)
      PROVE  /\ IInv' /\ \A x \in held : hdr'[x] = hdr[x]
             /\ hdr'[b].size \in need .. need + (Hdr + MinSplit - 1)
  <2>1. /\ TiledIn(g, held \cup {b}, (L \ {b}) \cup {rest})
        /\ rest \in Addr /\ b < rest /\ rest < EndIn(hdr, b) /\ rest \notin held \cup L
        /\ g[b].size = need /\ EndIn(g, rest) = EndIn(hdr, b)
        /\ \A x \in Addr \ {b, rest} : g[x] = hdr[x]
    <3>1. SplitsWell(hdr, held, L, b, need, Rest(b, need), Cut(hdr, b, need))
      BY <1>1, <1>2, <1>3, <1>7, SplitTiled
    <3>. QED
      BY <3>1 DEF SplitsWell
  <2>2. hdr' = g /\ list' = ReplaceAt(list, k, rest)
    BY <1>4, <1>7 DEF Take, RestListed, Rest, Cut
  <2>. HIDE DEF g, rest
  <2>3. g[rest].free
    <3>. DEFINE M == (L \ {b}) \cup {rest}
    <3>1. rest \in M /\ TiledIn(g, held \cup {b}, M)
      BY <2>1
    <3>. HIDE DEF M
    <3>. QED
      BY <3>1 DEF TiledIn
  <2>4. ASSUME NEW j \in 1 .. len, k < j PROVE rest < list[j]
    <3>1. b < list[j] /\ list[j] \in L /\ list[j] \in Nat
      BY <1>t, <1>5, <2>4
    <3>a. rest \in Nat
      BY <2>1 DEF Addr
    <3>2. EndIn(hdr, b) <= list[j]
      BY <1>1, <1>3, <3>1 DEF TiledIn
    <3>. QED
      BY <1>6, <2>1, <3>1, <3>2, <3>a
  <2>5. /\ list' \in Seq(Addr) /\ Len(list') = len /\ list'[k] = rest
        /\ \A j \in 1 .. len : j # k => list'[j] = list[j]
        /\ Sorted(list') /\ Elements(list') = (L \ {b}) \cup {rest}
    <3>1. list \in Seq(Addr) /\ Sorted(list) /\ k \in 1 .. Len(list) /\ rest \in Addr
          /\ list[k] < rest /\ \A j \in 1 .. Len(list) : k < j => rest < list[j]
      <4>1. list \in Seq(Addr) /\ Sorted(list)
        BY <1>1
      <4>2. k \in 1 .. Len(list) /\ list[k] = b
        BY <1>t DEF len
      <4>3. rest \in Addr /\ b < rest
        BY <2>1
      <4>4. \A j \in 1 .. Len(list) : k < j => rest < list[j]
        BY <2>4 DEF len
      <4>. QED
        BY <4>1, <4>2, <4>3, <4>4
    <3>. DEFINE r == ReplaceAt(list, k, rest)
    <3>2. /\ r \in Seq(Addr) /\ Len(r) = Len(list) /\ r[k] = rest
          /\ \A j \in 1 .. Len(list) : j # k => r[j] = list[j]
          /\ Sorted(r) /\ Elements(r) = (Elements(list) \ {list[k]}) \cup {rest}
      BY <3>1, ReplaceSorted, SMTT(30)
    <3>. HIDE DEF r
    <3>3. list' = r
      BY <2>2 DEF r
    <3>. QED
      BY <3>2, <3>3 DEF b, len, L
  <2>6. Sane(hdr', list', held')
    BY <1>4, <2>1, <2>2, <2>5 DEF Sane
  <2>7. \A x \in held \cup (L \ {b}) : hdr'[x] = hdr[x] /\ EndIn(hdr', x) = EndIn(hdr, x)
    BY <1>1, <1>3, <2>1, <2>2 DEF EndIn
  <2>8. ASSUME NEW j \in 1 .. len - 1 PROVE EndIn(hdr', list'[j]) < list'[j + 1]
    <3>1. j \in 1 .. len /\ j + 1 \in 1 .. len /\ j # j + 1 /\ k \in 1 .. len
      BY <1>t
    <3>2. EndIn(hdr, list[j]) < list[j + 1]
      BY <1>5
    <3>3. CASE j = k
      <4>1. list'[j] = rest /\ list'[j + 1] = list[j + 1] /\ list[j] = b
        BY <1>t, <2>5, <3>1, <3>3
      <4>. QED
        BY <2>1, <2>2, <3>2, <4>1
    <3>4. CASE j + 1 = k
      <4>1. list'[j] = list[j] /\ list'[j + 1] = rest /\ list[j + 1] = b
        BY <1>t, <2>5, <3>1, <3>4
      <4>2. list[j] \in L /\ list[j] \in Addr /\ list[j] # b
        <5>1. j < j + 1
          BY <3>1
        <5>2. list[j] < list[j + 1] /\ list[j] \in Nat
          BY <1>t, <1>5, <3>1, <5>1
        <5>. QED
          BY <1>t, <1>6, <3>1, <4>1, <5>2
      <4>3. EndIn(hdr', list[j]) < b /\ EndIn(hdr', list[j]) \in Nat
        <5>1. EndIn(hdr', list[j]) = EndIn(hdr, list[j])
          BY <2>7, <4>2
        <5>2. EndIn(hdr, list[j]) \in Nat
          BY <1>1, <4>2, Ends
        <5>. QED
          BY <3>2, <4>1, <5>1, <5>2
      <4>4. rest \in Nat
        BY <2>1 DEF Addr
      <4>. QED
        BY <1>6, <2>1, <4>1, <4>3, <4>4
    <3>5. CASE j # k /\ j + 1 # k
      <4>1. list'[j] = list[j] /\ list'[j + 1] = list[j + 1]
        BY <2>5, <3>1, <3>5
      <4>2. list[j] \in L /\ list[j] # b
        <5>1. list[j] # list[k]
          <6>1. j < k \/ k < j
            BY <3>1, <3>5
          <6>2. list[j] < list[k] \/ list[k] < list[j]
            BY <1>5, <3>1, <6>1
          <6>. QED
            BY <1>t, <3>1, <6>2
        <5>. QED
          BY <1>t, <3>1, <5>1
      <4>. QED
        BY <2>7, <3>2, <4>1, <4>2
    <3>. QED
      BY <3>3, <3>4, <3>5
  <2>9. GapsBut(hdr', list', {})
    BY <2>5, <2>8 DEF GapsBut, GapAt
  <2>10. StaleRefused'
    <3>1. SUFFICES ASSUME NEW x \in given, x \notin held, x # b
                   PROVE  ~(hdr'[x].magic /\ ~hdr'[x].free)
      BY <1>4 DEF StaleRefused, Accepts
    <3>2. CASE x = rest
      BY <2>2, <2>3, <3>2
    <3>3. CASE x # rest
      BY <2>1, <2>2, <3>1, <3>3 DEF IInv, StaleRefused, Accepts
    <3>. QED
      BY <3>2, <3>3
  <2>11. IInv'
    BY <1>3, <1>4, <2>6, <2>9, <2>10 DEF IInv
  <2>12. \A x \in held : hdr'[x] = hdr[x]
    BY <2>7
  <2>13. hdr'[b].size \in need .. need + (Hdr + MinSplit - 1)
    BY <1>2, <2>1, <2>2
  <2>. QED
    BY <2>11, <2>12, <2>13
<1>8. ASSUME ~WorthSplitting(hdr[b].size, need)
      PROVE  /\ IInv' /\ \A x \in held : hdr'[x] = hdr[x]
             /\ hdr'[b].size \in need .. need + (Hdr + MinSplit - 1)
  <2>1. /\ TiledIn(f, held \cup {b}, L \ {b})
        /\ f[b].size = hdr[b].size /\ \A x \in Addr \ {b} : f[x] = hdr[x]
    <3>1. TakesWell(hdr, held, L, b, Taken(hdr, b))
      BY <1>1, <1>3, TakeTiled
    <3>. QED
      BY <3>1 DEF TakesWell
  <2>2. hdr' = f /\ list' = RemoveAt(list, k)
    BY <1>4, <1>8 DEF Take, Taken
  <2>. HIDE DEF f
  <2>3. /\ list' \in Seq(Addr) /\ Len(list') = len - 1
        /\ \A j \in 1 .. len - 1 : list'[j] = IF j < k THEN list[j] ELSE list[j + 1]
    <3>1. list \in Seq(Addr) /\ k \in 1 .. Len(list)
      BY <1>1, <1>2 DEF len
    <3>. DEFINE r == RemoveAt(list, k)
    <3>2. /\ r \in Seq(Addr) /\ Len(r) = Len(list) - 1
          /\ \A j \in 1 .. Len(list) - 1 : r[j] = IF j < k THEN list[j] ELSE list[j + 1]
      BY <3>1, RemoveAtSound
    <3>. HIDE DEF r
    <3>3. list' = r
      BY <2>2 DEF r
    <3>. QED
      BY <3>2, <3>3 DEF len
  <2>4. Sorted(list') /\ Elements(list') = L \ {b}
    BY <1>1, <1>2, <2>2, RemoveSorted DEF len, L, b
  <2>5. Sane(hdr', list', held')
    BY <1>4, <2>1, <2>2, <2>3, <2>4 DEF Sane
  <2>6. \A x \in held \cup (L \ {b}) : hdr'[x] = hdr[x] /\ EndIn(hdr', x) = EndIn(hdr, x)
    BY <1>1, <1>3, <2>1, <2>2 DEF EndIn
  <2>7. ASSUME NEW j \in 1 .. (len - 1) - 1 PROVE EndIn(hdr', list'[j]) < list'[j + 1]
    <3>1. j \in 1 .. len - 1 /\ j + 1 \in 1 .. len - 1 /\ j \in 1 .. len /\ j + 1 \in 1 .. len
          /\ (j + 1) + 1 \in 1 .. len /\ k \in 1 .. len
      BY <1>t
    <3>l. \A i \in 1 .. len - 1 : list'[i] = IF i < k THEN list[i] ELSE list[i + 1]
      BY <2>3
    <3>2. CASE j + 1 < k
      <4>1. list'[j] = list[j] /\ list'[j + 1] = list[j + 1]
        <5>1. j < k
          BY <3>1, <3>2
        <5>. QED
          BY <3>1, <3>2, <3>l, <5>1
      <4>2. list[j] \in L /\ list[j] < list[k]
        <5>1. j < k
          BY <3>1, <3>2
        <5>. QED
          BY <1>t, <1>5, <3>1, <5>1
      <4>3. list[j] # b
        BY <1>t, <1>6, <3>1, <4>2
      <4>4. EndIn(hdr', list[j]) = EndIn(hdr, list[j])
        BY <2>6, <4>2, <4>3
      <4>. QED
        BY <1>5, <3>1, <4>1, <4>4
    <3>3. CASE j + 1 = k
      <4>1. list'[j] = list[j] /\ list'[j + 1] = list[(j + 1) + 1] /\ list[j + 1] = b
        <5>1. j < k /\ ~(j + 1 < k)
          BY <3>1, <3>3
        <5>. QED
          BY <1>t, <3>1, <3>3, <3>l, <5>1
      <4>2. list[j] \in L /\ list[j] < b /\ list[(j + 1) + 1] \in Nat
        <5>1. j < j + 1
          BY <3>1
        <5>. QED
          BY <1>t, <1>5, <3>1, <4>1, <5>1
      <4>3. EndIn(hdr', list[j]) < b /\ EndIn(hdr', list[j]) \in Nat
        <5>1. list[j] # b /\ list[j] \in Addr
          BY <1>t, <1>6, <3>1, <4>2
        <5>2. EndIn(hdr', list[j]) = EndIn(hdr, list[j])
          BY <2>6, <4>2, <5>1
        <5>3. EndIn(hdr, list[j]) \in Nat
          BY <1>1, <5>1, Ends
        <5>4. EndIn(hdr, list[j]) < list[j + 1]
          BY <1>5, <3>1
        <5>. QED
          BY <4>1, <5>2, <5>3, <5>4
      <4>4. b < list[(j + 1) + 1]
        <5>1. j + 1 < (j + 1) + 1
          BY <3>1
        <5>. QED
          BY <1>5, <3>1, <4>1, <5>1
      <4>. QED
        BY <1>6, <4>1, <4>2, <4>3, <4>4
    <3>4. CASE ~(j < k)
      <4>1. list'[j] = list[j + 1] /\ list'[j + 1] = list[(j + 1) + 1]
        <5>1. ~(j + 1 < k)
          BY <3>1, <3>4
        <5>. QED
          BY <3>1, <3>4, <3>l, <5>1
      <4>2. list[j + 1] \in L /\ list[k] < list[j + 1]
        <5>1. k < j + 1
          BY <3>1, <3>4
        <5>. QED
          BY <1>t, <1>5, <3>1, <5>1
      <4>3. list[j + 1] # b
        BY <1>t, <1>6, <3>1, <4>2
      <4>4. EndIn(hdr', list[j + 1]) = EndIn(hdr, list[j + 1])
        BY <2>6, <4>2, <4>3
      <4>5. EndIn(hdr, list[j + 1]) < list[(j + 1) + 1]
        BY <1>5, <3>1
      <4>. QED
        BY <4>1, <4>4, <4>5
    <3>. QED
      BY <3>1, <3>2, <3>3, <3>4
  <2>8. GapsBut(hdr', list', {})
    BY <2>3, <2>7 DEF GapsBut, GapAt
  <2>9. StaleRefused'
    <3>1. SUFFICES ASSUME NEW x \in given, x \notin held, x # b
                   PROVE  ~(hdr'[x].magic /\ ~hdr'[x].free)
      BY <1>4 DEF StaleRefused, Accepts
    <3>. QED
      BY <2>1, <2>2, <3>1 DEF IInv, StaleRefused, Accepts
  <2>10. IInv'
    BY <1>3, <1>4, <2>5, <2>8, <2>9 DEF IInv
  <2>11. hdr'[b].size \in need .. need + (Hdr + MinSplit - 1)
    <3>. DEFINE z == hdr[b].size
    <3>1. z \in Nat /\ ~(z >= need + Hdr + MinSplit) /\ need <= z
      BY <1>2, <1>6, <1>8 DEF WorthSplitting
    <3>. HIDE DEF z
    <3>2. z \in need .. need + (Hdr + MinSplit - 1)
      BY <1>2, <3>1
    <3>. QED
      BY <2>1, <2>2, <3>2 DEF z
  <2>. QED
    BY <2>6, <2>10, <2>11
<1>9. /\ IInv' /\ \A x \in held : hdr'[x] = hdr[x]
      /\ hdr'[b].size \in need .. need + (Hdr + MinSplit - 1)
  BY <1>7, <1>8
<1>. QED
  BY <1>3, <1>4, <1>9 DEF need

-----------------------------------------------------------------------------
(* What the allocator that Heap.tla names sees of the heap.                *)
Block(b) == [at |-> b, size |-> hdr[b].size]
Live == {[at |-> b, size |-> hdr[b].size] : b \in held}

LEMMA PlacesFit ==
  /\ Promise!Places = Addr
  /\ \A c, s \in Nat : Promise!Fits([at |-> c, size |-> s])
        <=> /\ c + Hdr + s <= HeapSize
            /\ \A x \in held : c + Hdr + s <= x \/ x + Hdr + hdr[x].size <= c
<1>1. Promise!Places = Addr
  BY DEF Promise!Places, Addr
<1>2. ASSUME NEW c \in Nat, NEW s \in Nat
      PROVE  Promise!Fits([at |-> c, size |-> s])
               <=> /\ c + Hdr + s <= HeapSize
                   /\ \A x \in held : c + Hdr + s <= x \/ x + Hdr + hdr[x].size <= c
  <2>. DEFINE p == [at |-> c, size |-> s]
  <2>1. p.at = c /\ p.size = s
    OBVIOUS
  <2>2. \A x \in held : Promise!Apart(p, Block(x)) <=> (c + Hdr + s <= x \/ x + Hdr + hdr[x].size <= c)
    BY <2>1 DEF Promise!Apart, Block
  <2>3. Promise!Fits(p) <=> /\ p.at + Hdr + p.size <= HeapSize
                            /\ \A x \in held : Promise!Apart(p, Block(x))
    BY Zenon DEF Promise!Fits, Block
  <2>. HIDE DEF p
  <2>4. Promise!Fits(p) <=> /\ c + Hdr + s <= HeapSize
                            /\ \A x \in held : c + Hdr + s <= x \/ x + Hdr + hdr[x].size <= c
    BY <2>1, <2>2, <2>3
  <2>. QED
    BY <2>4 DEF p
<1>. QED
  BY <1>1, <1>2

(* A request that no free block is large enough for fits nowhere: free     *)
(* blocks do not touch, so a gap is one of them.                           *)
LEMMA NoGap ==
  ASSUME IInv, NEW need \in Nat, \A x \in Elements(list) : hdr[x].size < need, NEW a \in Promise!Places
  PROVE  ~Promise!Fits([at |-> a, size |-> need])
<1>. DEFINE L == Elements(list)
            K == held \cup L
            S == {x \in K : x <= a}
            len == Len(list)
<1>1. /\ hdr \in Memories /\ list \in Seq(Addr) /\ TiledIn(hdr, held, L) /\ Sorted(list)
      /\ L \subseteq Addr /\ held \subseteq Addr /\ held \cap L = {}
      /\ a \in Addr /\ a \in Nat /\ a < HeapSize
  BY Reads, PlacesFit DEF IInv, Sane, Addr
<1>2. \A i \in 1 .. len - 1 : EndIn(hdr, list[i]) < list[i + 1]
  BY DEF IInv, GapsBut, GapAt
<1>3. \A i, j \in 1 .. len : i < j => list[i] < list[j]
  BY <1>1 DEF Sorted
<1>4. len \in Nat /\ L = {list[i] : i \in 1 .. len}
  BY <1>1, ListTyped DEF Elements
<1>5. \A x \in K : x \in Addr /\ x \in Nat /\ EndIn(hdr, x) \in Nat /\ x < EndIn(hdr, x)
  BY <1>1, Ends
<1>a. a \in Nat /\ a < HeapSize /\ Hdr \in Nat
  BY <1>1
<1>. HIDE DEF L, len
<1>6. PICK b \in S : \A x \in S : x <= b
  <2>1. S \subseteq 0 .. HeapSize /\ 0 \in S
    <3>1. 0 \in K
      BY <1>1 DEF TiledIn
    <3>2. \A x \in K : x \in 0 .. HeapSize
      BY <1>5 DEF Addr
    <3>. HIDE DEF K
    <3>. QED
      BY <1>a, <3>1, <3>2
  <2>. HIDE DEF S
  <2>. QED
    BY <2>1, HighestExists
<1>. DEFINE e == EndIn(hdr, b)
            z == hdr[b].size
<1>7. /\ b \in K /\ b \in Addr /\ b \in Nat /\ b <= a /\ e \in Nat /\ z \in Nat /\ e = b + Hdr + z
      /\ e \in K \cup {HeapSize}
  BY <1>1, <1>5, <1>6, Ends DEF TiledIn
<1>b. \A x \in K : x <= a => x <= b
  BY <1>6
<1>. HIDE DEF e, z, S, K
<1>8. a < e
  <2>1. ASSUME e <= a PROVE FALSE
    <3>1. e \in K
      BY <1>a, <1>7, <2>1
    <3>2. e <= b /\ b < e
      BY <1>b, <1>5, <1>7, <2>1, <3>1 DEF e
    <3>. QED
      BY <1>7, <3>2
  <2>. QED
    BY <1>a, <1>7, <2>1
<1>9. SUFFICES ASSUME Promise!Fits([at |-> a, size |-> need]) PROVE FALSE
  OBVIOUS
<1>10. /\ a + Hdr + need <= HeapSize
       /\ \A x \in held : a + Hdr + need <= x \/ EndIn(hdr, x) <= a
  BY <1>1, <1>9, PlacesFit DEF EndIn
<1>11. b \in L
  <2>1. ASSUME b \in held PROVE FALSE
    <3>1. a + Hdr + need <= b \/ e <= a
      BY <1>10, <2>1 DEF e
    <3>. QED
      BY <1>a, <1>7, <1>8, <3>1
  <2>. QED
    BY <1>7, <2>1 DEF K
<1>12. z < need
  BY <1>11 DEF L, z
<1>13. CASE e \in L
  <2>1. PICK i \in 1 .. len, j \in 1 .. len : b = list[i] /\ e = list[j]
    BY <1>4, <1>11, <1>13
  <2>2. i < j
    <3>1. CASE j < i
      <4>1. e < b
        BY <1>3, <2>1, <3>1
      <4>. QED
        BY <1>a, <1>7, <1>8, <4>1
    <3>2. CASE j = i
      BY <1>a, <1>7, <1>8, <2>1, <3>2
    <3>. QED
      BY <1>4, <2>1, <3>1, <3>2
  <2>3. i \in 1 .. len - 1 /\ i + 1 \in 1 .. len /\ (i + 1 = j \/ i + 1 < j)
    BY <1>4, <2>1, <2>2
  <2>4. e < list[i + 1]
    BY <1>2, <2>1, <2>3 DEF e
  <2>5. list[i + 1] \in Nat
    BY <1>4, <1>5, <2>3 DEF K
  <2>6. i + 1 = j \/ list[i + 1] < e
    BY <1>3, <2>1, <2>3
  <2>. QED
    BY <1>7, <2>1, <2>4, <2>5, <2>6
<1>14. CASE e = HeapSize
  BY <1>a, <1>7, <1>10, <1>12, <1>14
<1>15. CASE e \in held
  <2>1. a + Hdr + need <= e \/ EndIn(hdr, e) <= a
    BY <1>10, <1>15
  <2>2. EndIn(hdr, e) \in Nat /\ e < EndIn(hdr, e)
    BY <1>5, <1>15 DEF K
  <2>. QED
    BY <1>a, <1>7, <1>8, <1>12, <2>1, <2>2
<1>. QED
  BY <1>7, <1>13, <1>14, <1>15 DEF K

-----------------------------------------------------------------------------
(* Each step keeps the invariant and is one of the allocator's, or none.   *)
seen == <<Live, asked, got>>

LEMMA SameLive ==
  ASSUME held' = held, \A x \in held : hdr'[x] = hdr[x]
  PROVE  Live' = Live
BY DEF Live

LEMMA MallocRefuses ==
  ASSUME IInv, NEW n \in Requests, Kmalloc(n), n = 0 \/ FirstFit(n) = 0
  PROVE  IInv' /\ Promise!Refuse(n)
<1>1. asked' = n /\ got' = HeapSize /\ UNCHANGED <<hdr, list, held, given>>
  BY DEF Kmalloc, heapVars
<1>2. IInv'
  BY <1>1 DEF IInv, Sane, StaleRefused, Accepts
<1>3. Live' = Live
  BY <1>1 DEF Live
<1>4. ASSUME n # 0 PROVE \A a \in Promise!Places : ~Promise!Fits([at |-> a, size |-> Promise!Served(n)])
  <2>1. n \in 0 .. Wrap - 1
    OBVIOUS
  <2>2. AlignUp(n) = Promise!Served(n) /\ AlignUp(n) \in Nat
    BY <2>1, AlignUpServes
  <2>3. \A x \in Elements(list) : hdr[x].size < AlignUp(n)
    BY <1>4, FitSound
  <2>. DEFINE need == AlignUp(n)
  <2>. HIDE DEF need
  <2>4. \A a \in Promise!Places : ~Promise!Fits([at |-> a, size |-> need])
    BY <2>2, <2>3, NoGap DEF need
  <2>. QED
    BY <2>2, <2>4, Zenon DEF need
<1>. QED
  BY <1>1, <1>2, <1>3, <1>4, Zenon DEF Promise!Refuse, Live

LEMMA MallocServes ==
  ASSUME IInv, NEW n \in Requests, Kmalloc(n), n # 0, FirstFit(n) # 0
  PROVE  IInv' /\ Promise!Alloc(n)
<1>. DEFINE b == got'
            z == hdr'[b].size
            p == [at |-> b, size |-> z]
<1>1. /\ IInv' /\ b \in Addr \ held /\ held' = held \cup {b}
      /\ \A x \in held : hdr'[x] = hdr[x]
      /\ z \in AlignUp(n) .. AlignUp(n) + (Hdr + MinSplit - 1)
  BY MallocTakes
<1>2. asked' = n
  BY DEF Kmalloc
<1>3. TiledIn(hdr', held', Elements(list')) /\ hdr' \in Memories /\ held' \subseteq Addr
  BY <1>1 DEF IInv, Sane, TiledIn
<1>4. b \in held'
  BY <1>1
<1>. HIDE DEF b
<1>5. EndIn(hdr', b) = b + Hdr + z /\ b + Hdr + z <= HeapSize /\ b \in Nat /\ z \in Nat
  <2>1. EndIn(hdr', b) <= HeapSize
    BY <1>3, <1>4, EndsInside
  <2>. QED
    BY <1>1, <1>3, <2>1, Ends
<1>6. ASSUME NEW x \in held PROVE b + Hdr + z <= x \/ x + Hdr + hdr[x].size <= b
  <2>1. x \in held' /\ x # b /\ hdr'[x] = hdr[x] /\ x \in Nat /\ EndIn(hdr', x) = x + Hdr + hdr[x].size
    BY <1>1, <1>3, Ends
  <2>2. b < x => EndIn(hdr', b) <= x
    BY <1>3, <1>4, <2>1 DEF TiledIn
  <2>3. x < b => EndIn(hdr', x) <= b
    BY <1>3, <1>4, <2>1 DEF TiledIn
  <2>. QED
    BY <1>5, <2>1, <2>2, <2>3
<1>7. AlignUp(n) = Promise!Served(n)
  <2>1. n \in 0 .. Wrap - 1
    OBVIOUS
  <2>. QED
    BY <2>1, AlignUpServes
<1>8. Live' = Live \cup {p}
  <2>1. Live' = {[at |-> x, size |-> hdr'[x].size] : x \in held \cup {b}}
    BY <1>1 DEF Live
  <2>2. \A x \in held : [at |-> x, size |-> hdr'[x].size] = [at |-> x, size |-> hdr[x].size]
    BY <1>1
  <2>. QED
    BY <2>1, <2>2 DEF Live
<1>. HIDE DEF z
<1>9. b \in Promise!Places /\ Promise!Fits(p)
  BY <1>1, <1>5, <1>6, PlacesFit
<1>. HIDE DEF p
<1>10. \E a \in Promise!Places, size \in Promise!Served(n) .. Promise!Served(n) + (Hdr + MinSplit - 1) :
         /\ Promise!Fits([at |-> a, size |-> size])
         /\ Live' = Live \cup {[at |-> a, size |-> size]} /\ got' = a
  BY <1>1, <1>7, <1>8, <1>9, Zenon DEF p, b
<1>. QED
  BY <1>1, <1>2, <1>10, Zenon DEF Promise!Alloc, Live

LEMMA FreeReleases ==
  ASSUME IInv, NEW b \in held, Kfree(b)
  PROVE  IInv' /\ Promise!Release
<1>1. IInv' /\ \A x \in held' : hdr'[x] = hdr[x]
  BY FreeHeld
<1>2. held' = held \ {b} /\ UNCHANGED <<asked, got>>
  BY DEF Kfree
<1>3. Live' = Live \ {Block(b)}
  <2>1. Live' = {Block(x) : x \in held \ {b}}
    BY <1>1, <1>2 DEF Live, Block
  <2>2. \A x \in held : Block(x) = Block(b) => x = b
    BY DEF Block
  <2>3. Live = {Block(x) : x \in held}
    BY DEF Live, Block
  <2>. QED
    BY <2>1, <2>2, <2>3
<1>4. Block(b) \in Live
  BY DEF Live, Block
<1>. QED
  BY <1>1, <1>2, <1>3, <1>4, Zenon DEF Promise!Release, Live

LEMMA StepSound ==
  ASSUME IInv, [Next]_vars
  PROVE  IInv' /\ [Promise!Next]_seen
<1>1. CASE \E n \in Requests : Kmalloc(n)
  <2>1. PICK n \in Requests : Kmalloc(n)
    BY <1>1
  <2>2. IInv' /\ (Promise!Alloc(n) \/ Promise!Refuse(n))
    BY <2>1, MallocRefuses, MallocServes
  <2>. QED
    BY <2>2 DEF Promise!Next
<1>2. CASE \E b \in given : Kfree(b)
  <2>1. PICK b \in given : Kfree(b)
    BY <1>2
  <2>2. CASE b \in held
    BY <2>1, <2>2, FreeReleases DEF Promise!Next
  <2>3. CASE b \notin held
    <3>1. IInv' /\ UNCHANGED vars
      BY <2>1, <2>3, FreeAgain
    <3>. QED
      BY <3>1, SameLive DEF vars, heapVars, callVars, seen
  <2>. QED
    BY <2>2, <2>3
<1>3. CASE \E b \in held : Fill(b)
  <2>1. PICK b \in held : Fill(b)
    BY <1>3
  <2>2. IInv' /\ \A x \in held : hdr'[x] = hdr[x]
    BY <2>1, FillSound
  <2>3. UNCHANGED <<held, asked, got>>
    BY <2>1 DEF Fill, callVars
  <2>. QED
    BY <2>2, <2>3, SameLive DEF seen
<1>4. CASE UNCHANGED vars
  <2>1. UNCHANGED <<hdr, list, held, given, asked, got>>
    BY <1>4 DEF vars, heapVars, callVars
  <2>2. IInv'
    BY <2>1 DEF IInv, Sane, StaleRefused, Accepts
  <2>. QED
    BY <2>1, <2>2, SameLive DEF seen
<1>. QED
  BY <1>1, <1>2, <1>3, <1>4 DEF Next

THEOREM Invariance == Spec => []IInv
<1>1. IInv /\ [Next]_vars => IInv'
  BY StepSound
<1>. QED
  BY <1>1, InitSound, PTL DEF Spec

(* The blocks that are held and those on the list cover the heap from end  *)
(* to end, without overlap, whatever was asked for, split, freed, merged,  *)
(* freed again and written to: kmalloc and kfree lose no byte.             *)
THEOREM TiledAlways == Spec => []Tiled
<1>1. IInv => Tiled
  BY DEF IInv, Sane, TiledIn, Tiled, Elements, Listed, Blocks, EndIn, End
<1>. QED
  BY <1>1, Invariance, PTL

(* kfree merges a block with whatever free block it touches.               *)
THEOREM CoalescedAlways == Spec => []Coalesced
<1>1. IInv => Coalesced
  BY DEF IInv, GapsBut, GapAt, Coalesced, EndIn, End
<1>. QED
  BY <1>1, Invariance, PTL

(* The bytes that lie in the blocks S of a memory h, and their number.     *)
Within(h, S) == {x \in 0 .. HeapSize - 1 : \E b \in S : b <= x /\ x < EndIn(h, b)}

LEMMA WithinFinite ==
  ASSUME NEW h, NEW S
  PROVE  /\ IsFiniteSet(Within(h, S)) /\ Cardinality(Within(h, S)) \in 0 .. HeapSize
         /\ IsFiniteSet(0 .. HeapSize - 1) /\ Cardinality(0 .. HeapSize - 1) = HeapSize
<1>. DEFINE N == 0 .. HeapSize - 1
            W == Within(h, S)
<1>1. IsFiniteSet(N) /\ Cardinality(N) = HeapSize
  <2>1. HeapSize - 1 \in Int /\ 0 \in Int /\ 0 <= HeapSize - 1 /\ (HeapSize - 1) - 0 + 1 = HeapSize
    OBVIOUS
  <2>. QED
    BY <2>1, FS_Interval
<1>2. W \subseteq N
  BY DEF Within
<1>. HIDE DEF N, W
<1>3. IsFiniteSet(W) /\ Cardinality(W) <= Cardinality(N) /\ Cardinality(W) \in Nat
  BY <1>1, <1>2, FS_Subset, FS_CardinalityType
<1>4. Cardinality(W) \in 0 .. HeapSize
  BY <1>1, <1>3
<1>. QED
  BY <1>1, <1>3, <1>4 DEF N, W

(* One more block of a tiled heap: as many more bytes as it takes.         *)
LEMMA WithinOneMore ==
  ASSUME NEW h, NEW H, NEW L, TiledIn(h, H, L), NEW b \in H \cup L,
         NEW S \in SUBSET (H \cup L), b \notin S
  PROVE  Cardinality(Within(h, S \cup {b})) = Cardinality(Within(h, S)) + (Hdr + h[b].size)
<1>. DEFINE e == EndIn(h, b)
            I == b .. e - 1
            W == Within(h, S)
<1>1. /\ h \in Memories /\ b \in Nat /\ e \in Nat /\ b < e /\ e <= HeapSize
      /\ e = b + Hdr + h[b].size /\ h[b].size \in Nat
      /\ \A c \in H \cup L : c \in Nat /\ EndIn(h, c) \in Nat
  <2>1. h \in Memories /\ H \cup L \subseteq Addr
    BY DEF TiledIn
  <2>. QED
    BY <2>1, Ends, EndsInside
<1>2. \A c \in S : EndIn(h, c) <= b \/ e <= c
  <2>1. SUFFICES ASSUME NEW c \in S PROVE EndIn(h, c) <= b \/ e <= c
    OBVIOUS
  <2>2. c \in H \cup L /\ c # b /\ c \in Nat
    BY <1>1
  <2>3. b < c => e <= c
    BY <2>2 DEF TiledIn
  <2>4. c < b => EndIn(h, c) <= b
    BY <2>2 DEF TiledIn
  <2>. QED
    BY <1>1, <2>2, <2>3, <2>4
<1>. HIDE DEF e
<1>3. Within(h, S \cup {b}) = W \cup I
  <2>1. ASSUME NEW x \in I PROVE x \in 0 .. HeapSize - 1 /\ b <= x /\ x < e
    BY <1>1, <2>1
  <2>2. ASSUME NEW x \in 0 .. HeapSize - 1, b <= x, x < e PROVE x \in I
    BY <1>1, <2>2
  <2>. HIDE DEF I
  <2>. QED
    BY <2>1, <2>2 DEF Within, e
<1>4. W \cap I = {}
  <2>1. SUFFICES ASSUME NEW x \in W, x \in I PROVE FALSE
    OBVIOUS
  <2>2. PICK c \in S : c <= x /\ x < EndIn(h, c)
    BY DEF Within
  <2>3. c \in Nat /\ EndIn(h, c) \in Nat /\ (EndIn(h, c) <= b \/ e <= c)
    BY <1>1, <1>2
  <2>4. x \in Int /\ b <= x /\ x < e
    BY <1>1, <2>1
  <2>. QED
    BY <1>1, <2>2, <2>3, <2>4
<1>5. IsFiniteSet(I) /\ Cardinality(I) = Hdr + h[b].size
  <2>1. b \in Int /\ e - 1 \in Int /\ b <= e - 1 /\ (e - 1) - b + 1 = Hdr + h[b].size
    BY <1>1
  <2>. QED
    BY <2>1, FS_Interval
<1>6. IsFiniteSet(W) /\ Cardinality(W) \in Nat
  BY WithinFinite
<1>. HIDE DEF W, I
<1>7. Cardinality(W \cup I) = Cardinality(W) + Cardinality(I) - Cardinality(W \cap I)
  BY <1>5, <1>6, FS_Union
<1>8. Cardinality(W \cap I) = 0
  BY <1>4, FS_EmptySet
<1>9. Cardinality(W \cup I) = Cardinality(W) + (Hdr + h[b].size)
  <2>. DEFINE w == Cardinality(W)
              z == Hdr + h[b].size
  <2>1. w \in Nat /\ z \in Nat /\ Cardinality(W \cup I) = w + z - 0
    BY <1>1, <1>5, <1>6, <1>7, <1>8
  <2>. HIDE DEF w, z
  <2>2. Cardinality(W \cup I) = w + z
    BY <2>1
  <2>. QED
    BY <2>2 DEF w, z
<1>. QED
  BY <1>3, <1>9 DEF W

(* Every byte of a tiled heap lies in a held or in a free block.           *)
LEMMA WithinRest ==
  ASSUME NEW h, NEW H, NEW L, TiledIn(h, H, L)
  PROVE  Cardinality(Within(h, L)) = HeapSize - Cardinality(Within(h, H))
<1>. DEFINE N == 0 .. HeapSize - 1
            W == Within(h, H)
<1>1. /\ h \in Memories /\ H \cup L \subseteq Addr /\ H \cap L = {} /\ 0 \in H \cup L
      /\ \A c \in H \cup L : c \in Nat /\ EndIn(h, c) \in Nat /\ c < EndIn(h, c)
  <2>1. h \in Memories /\ H \cup L \subseteq Addr /\ H \cap L = {} /\ 0 \in H \cup L
    BY DEF TiledIn
  <2>. QED
    BY <2>1, Ends
<1>2. ASSUME NEW x \in N, x \notin Within(h, H) PROVE x \in Within(h, L)
  <2>. DEFINE S == {c \in H \cup L : c <= x}
  <2>1. x \in Nat /\ x < HeapSize
    OBVIOUS
  <2>2. S \in SUBSET (0 .. x) /\ S # {}
    BY <1>1, <2>1
  <2>3. PICK p \in S : \A q \in S : q <= p
    <3>. HIDE DEF S
    <3>. QED
      BY <2>1, <2>2, HighestExists
  <2>4. p \in H \cup L /\ p <= x /\ p < EndIn(h, p) /\ p \in Nat /\ EndIn(h, p) \in Nat
    BY <1>1
  <2>5. EndIn(h, p) \in H \cup L \cup {HeapSize}
    BY <2>4 DEF TiledIn
  <2>6. x < EndIn(h, p)
    <3>1. SUFFICES ASSUME EndIn(h, p) <= x PROVE FALSE
      BY <2>1, <2>4
    <3>2. EndIn(h, p) \in S
      BY <2>1, <2>5, <3>1
    <3>. QED
      BY <2>3, <2>4, <3>2
  <2>. QED
    BY <1>2, <2>4, <2>6 DEF Within
<1>3. ASSUME NEW x \in Within(h, H), x \in Within(h, L) PROVE FALSE
  <2>1. PICK b \in H : b <= x /\ x < EndIn(h, b)
    BY DEF Within
  <2>2. PICK c \in L : c <= x /\ x < EndIn(h, c)
    BY <1>3 DEF Within
  <2>3. x \in Nat /\ b # c /\ b \in Nat /\ c \in Nat /\ EndIn(h, b) \in Nat /\ EndIn(h, c) \in Nat
    BY <1>1 DEF Within
  <2>4. (b < c => EndIn(h, b) <= c) /\ (c < b => EndIn(h, c) <= b)
    BY DEF TiledIn
  <2>. QED
    BY <2>1, <2>2, <2>3, <2>4
<1>4. Within(h, L) = N \ W
  <2>1. Within(h, L) \subseteq N
    BY DEF Within
  <2>. QED
    BY <1>2, <1>3, <2>1
<1>5. IsFiniteSet(N) /\ Cardinality(N) = HeapSize /\ IsFiniteSet(W) /\ Cardinality(W) \in Nat
  BY WithinFinite
<1>6. N \cap W = W
  BY DEF Within
<1>. HIDE DEF N, W
<1>7. Cardinality(N \ W) = Cardinality(N) - Cardinality(N \cap W)
  BY <1>5, FS_Difference
<1>. QED
  BY <1>4, <1>5, <1>6, <1>7 DEF W

LEMMA WithinSame ==
  ASSUME NEW h, NEW g, NEW S, \A x \in S : g[x] = h[x]
  PROVE  Within(g, S) = Within(h, S)
BY DEF Within, EndIn

(* What the counters say, and the last request and its answer.             *)
Counted ==
  /\ heapUsed = Cardinality(Within(hdr, held)) /\ heapFree = HeapSize - heapUsed
  /\ asked \in {0} \cup Requests /\ got \in Addr \cup {HeapSize}

LEMMA InitCounted == Init => Counted
<1>. SUFFICES ASSUME Init PROVE Counted
  OBVIOUS
<1>1. held = {} /\ heapFree = HeapSize /\ heapUsed = 0 /\ asked = 0 /\ got = HeapSize
  BY DEF Init
<1>2. Within(hdr, held) = {}
  BY <1>1 DEF Within
<1>3. Cardinality(Within(hdr, held)) = 0 /\ HeapSize = HeapSize - 0
  BY <1>2, FS_EmptySet
<1>. QED
  BY <1>1, <1>3 DEF Counted

LEMMA StepCounted == ASSUME IInv, IInv', Counted, [Next]_vars PROVE Counted'
<1>1. /\ TiledIn(hdr, held, Elements(list)) /\ TiledIn(hdr', held', Elements(list'))
      /\ hdr \in Memories /\ hdr' \in Memories /\ held \subseteq Addr
  BY DEF IInv, Sane, TiledIn
<1>2. /\ heapUsed \in 0 .. HeapSize /\ heapUsed = Cardinality(Within(hdr, held))
      /\ heapFree = HeapSize - heapUsed /\ asked \in {0} \cup Requests /\ got \in Addr \cup {HeapSize}
  BY WithinFinite DEF Counted
<1>3. CASE \E n \in Requests : Kmalloc(n)
  <2>1. PICK n \in Requests : Kmalloc(n)
    BY <1>3
  <2>2. CASE n = 0 \/ FirstFit(n) = 0
    <3>1. asked' = n /\ got' = HeapSize /\ UNCHANGED <<hdr, heapFree, heapUsed, held>>
      BY <2>1, <2>2 DEF Kmalloc, heapVars
    <3>. QED
      BY <1>2, <3>1 DEF Counted
  <2>3. CASE ~(n = 0 \/ FirstFit(n) = 0)
    <3>1. /\ got' \in Addr \ held /\ held' = held \cup {got'} /\ \A x \in held : hdr'[x] = hdr[x]
      BY <2>1, <2>3, MallocTakes
    <3>2. /\ heapFree' = heapFree - (Hdr + hdr'[got'].size)
          /\ heapUsed' = heapUsed + (Hdr + hdr'[got'].size) /\ asked' = n
      BY <2>1, <2>3 DEF Kmalloc, Footprint
    <3>3. Within(hdr', held) = Within(hdr, held)
      BY <3>1, WithinSame
    <3>4. got' \in held' \cup Elements(list') /\ held \in SUBSET (held' \cup Elements(list')) /\ got' \notin held
      BY <3>1
    <3>5. Cardinality(Within(hdr', held')) = Cardinality(Within(hdr, held)) + (Hdr + hdr'[got'].size)
      BY <1>1, <3>1, <3>3, <3>4, WithinOneMore
    <3>6. hdr'[got'].size \in Nat
      BY <1>1, <3>1, Ends
    <3>. QED
      BY <1>2, <3>1, <3>2, <3>5, <3>6 DEF Counted
  <2>. QED
    BY <2>2, <2>3
<1>4. CASE \E b \in given : Kfree(b)
  <2>1. PICK b \in given : Kfree(b)
    BY <1>4
  <2>2. CASE b \in held
    <3>1. /\ \A x \in held' : hdr'[x] = hdr[x]
          /\ held' = held \ {b} /\ Accepts(b) /\ UNCHANGED <<asked, got>>
      BY <2>1, <2>2, FreeHeld, Reads DEF Kfree
    <3>2. /\ heapFree' = heapFree + (Hdr + hdr[b].size)
          /\ heapUsed' = heapUsed - (Hdr + hdr[b].size)
      BY <2>1, <3>1 DEF Kfree
    <3>3. Within(hdr', held') = Within(hdr, held \ {b})
      BY <3>1, WithinSame
    <3>4. Cardinality(Within(hdr, (held \ {b}) \cup {b})) = Cardinality(Within(hdr, held \ {b})) + (Hdr + hdr[b].size)
      <4>1. b \in held \cup Elements(list) /\ held \ {b} \in SUBSET (held \cup Elements(list)) /\ b \notin held \ {b}
        BY <2>2
      <4>. QED
        BY <1>1, <4>1, WithinOneMore
    <3>5. (held \ {b}) \cup {b} = held
      BY <2>2
    <3>. DEFINE w == Cardinality(Within(hdr, held \ {b}))
                z == hdr[b].size
    <3>6. z \in Nat
      BY <1>1, <2>2, Ends
    <3>7. w \in Nat
      BY WithinFinite
    <3>8. heapUsed = w + (Hdr + z) /\ Cardinality(Within(hdr', held')) = w
      BY <1>2, <3>3, <3>4, <3>5
    <3>9. heapUsed' = heapUsed - (Hdr + z) /\ heapFree' = heapFree + (Hdr + z)
      BY <3>2
    <3>. HIDE DEF w, z
    <3>10. Hdr \in Nat /\ HeapSize \in Nat /\ heapFree = HeapSize - heapUsed
      BY <1>2
    <3>11. heapUsed' = w
      BY <3>6, <3>7, <3>8, <3>9, <3>10
    <3>12. heapFree' = HeapSize - w
      BY <3>6, <3>7, <3>8, <3>9, <3>10
    <3>13. heapUsed' = w /\ heapFree' = HeapSize - heapUsed'
      BY <3>11, <3>12
    <3>. QED
      BY <1>2, <3>1, <3>8, <3>13 DEF Counted
  <2>3. CASE b \notin held
    <3>1. UNCHANGED vars
      BY <2>1, <2>3, FreeAgain
    <3>. QED
      BY <3>1 DEF Counted, vars, heapVars, callVars
  <2>. QED
    BY <2>2, <2>3
<1>5. CASE \E b \in held : Fill(b)
  <2>1. PICK b \in held : Fill(b)
    BY <1>5
  <2>2. UNCHANGED <<heapFree, heapUsed, held, asked, got>> /\ \A x \in held : hdr'[x] = hdr[x]
    BY <2>1, FillSound DEF Fill, callVars
  <2>3. Within(hdr', held) = Within(hdr, held)
    BY <2>2, WithinSame
  <2>. QED
    BY <1>2, <2>2, <2>3 DEF Counted
<1>6. CASE UNCHANGED vars
  BY <1>6 DEF Counted, vars, heapVars, callVars
<1>. QED
  BY <1>3, <1>4, <1>5, <1>6 DEF Next

(* HeapSound: the headers tile the heap, the free list is in order and     *)
(* merged, and the two counters that sysinfo reports are the bytes in free *)
(* and in held blocks, at every time; so none of the subtractions in       *)
(* kmalloc and kfree ever wraps.                                           *)
THEOREM SoundAlways == Spec => []HeapSound
<1>1. IInv /\ Counted /\ [Next]_vars => Counted'
  BY StepSound, StepCounted
<1>2. Spec => []Counted
  BY <1>1, InitCounted, Invariance, PTL DEF Spec
<1>3. IInv /\ Counted => TypeOK /\ CountersExact
  <2>. SUFFICES ASSUME IInv, Counted PROVE TypeOK /\ CountersExact
    OBVIOUS
  <2>1. /\ heapUsed \in 0 .. HeapSize /\ heapFree \in 0 .. HeapSize
    BY WithinFinite DEF Counted
  <2>2. TypeOK
    BY <2>1, Reads DEF TypeOK, Counted, IInv, Memories
  <2>3. \A S : Bytes(S) = Cardinality(Within(hdr, S))
    BY DEF Bytes, Within, End, EndIn
  <2>4. heapUsed = Bytes(held)
    BY <2>3 DEF Counted
  <2>5. heapFree = Bytes(Listed)
    BY <2>3, Reads, WithinRest DEF Counted
  <2>. QED
    BY <2>2, <2>4, <2>5 DEF CountersExact
<1>. QED
  BY <1>2, <1>3, Invariance, TiledAlways, CoalescedAlways, PTL DEF HeapSound

(* What kmalloc returns lies in the heap, apart from all that is held and  *)
(* as long as asked for, and it refuses only what fits in no gap.          *)
THEOREM Implements == Spec => KeepsPromise
<1>1. Init => Promise!Init
  BY DEF Init, Promise!Init
<1>2. IInv /\ [Next]_vars => [Promise!Next]_<<{[at |-> b, size |-> hdr[b].size] : b \in held}, asked, got>>
  BY StepSound DEF seen, Live
<1>. QED
  BY <1>1, <1>2, Invariance, PTL DEF Spec, KeepsPromise, Promise!Spec
=============================================================================
