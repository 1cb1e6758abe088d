---------------------------- MODULE ShellProofs ----------------------------
(***************************************************************************)
(* The shell's line editor shows on the screen the line that will run, and *)
(* remembers the lines that ran: for all sizes of the screen, of the line  *)
(* and of the history, all letters and every prompt shorter than a row.    *)
(*                                                                         *)
(* The sessions of the shell leave the prompt's path where the file system *)
(* is, no user where a session that ended had been, and every user one     *)
(* account: for all users, trees of directories, lengths of path and of    *)
(* USERS.DAT.                                                              *)
(***************************************************************************)
EXTENDS Shell, LineEditor, SequenceTheorems, FiniteSetTheorems, WellFoundedInduction, TLAPS

(***************************************************************************)
(* The line editor.  Printing and erasing are folds over a sequence; what  *)
(* holds of the screen before and is kept by every character holds after   *)
(* the last one, by induction over the numbers up to the length (UpTo).    *)
(***************************************************************************)
-----------------------------------------------------------------------------
LEMMA FrontOf ==
  ASSUME NEW S, NEW s \in Seq(S), s # <<>>
  PROVE  /\ Front(s) \in Seq(S) /\ Len(s) \in Nat \ {0} /\ Len(Front(s)) = Len(s) - 1
         /\ \A i \in 1 .. Len(s) - 1 : Front(s)[i] = s[i]
<1>1. Len(s) \in Nat \ {0}
  BY EmptySeq, LenProperties
<1>. DEFINE m == Len(s) - 1
<1>2. /\ SubSeq(s, 1, m) \in Seq(S) /\ Len(SubSeq(s, 1, m)) = IF 1 <= m THEN m - 1 + 1 ELSE 0
      /\ \A i \in 1 .. m - 1 + 1 : SubSeq(s, 1, m)[i] = s[1 + i - 1]
  BY <1>1, SubSeqProperties
<1>3. Front(s) = SubSeq(s, 1, m) /\ m \in Nat /\ m = Len(s) - 1
  BY <1>1 DEF Front
<1>. HIDE DEF m
<1>4. m - 1 + 1 = m /\ \A i \in 1 .. m : 1 + i - 1 = i
  BY <1>3
<1>5. Len(SubSeq(s, 1, m)) = m
  BY <1>2, <1>3, <1>4
<1>6. \A i \in 1 .. m : SubSeq(s, 1, m)[i] = s[i]
  BY <1>2, <1>3, <1>4
<1>. QED
  BY <1>1, <1>2, <1>3, <1>5, <1>6

(* The lowest of a set of numbers.                                         *)
LEMMA LowestExists ==
  ASSUME NEW S \in SUBSET Nat, IsFiniteSet(S), S # {}
  PROVE  \E p \in S : \A q \in S : p <= q
<1>. DEFINE Below(p) == {q \in S : q < p}
            Belows == {Below(p) : p \in S}
<1>1. \A p \in S : Below(p) \in SUBSET S
  OBVIOUS
<1>2. Belows \subseteq FiniteSubsetsOf(S)
  <2>. HIDE DEF Below
  <2>. QED
    BY <1>1, FS_FiniteSubsetsOfFinite
<1>3. Belows # {}
  <2>1. PICK p : p \in S
    OBVIOUS
  <2>. HIDE DEF Below
  <2>. QED
    BY <2>1
<1>4. PICK B \in Belows : \A C \in Belows : <<C, B>> \notin StrictSubsetOrdering(S)
  <2>. HIDE DEF Belows
  <2>. QED
    BY <1>2, <1>3, FS_StrictSubsetOrderingWellFounded, WFMin
<1>5. PICK p \in S : B = Below(p)
  BY <1>4
<1>6. ASSUME NEW q \in S, q < p PROVE FALSE
  <2>1. q \in Below(p) /\ q \notin Below(q)
    BY <1>6
  <2>2. \A r \in Below(q) : r \in Below(p)
    BY <1>6
  <2>. HIDE DEF Below
  <2>3. <<Below(q), B>> \in StrictSubsetOrdering(S)
    BY <1>1, <1>5, <2>1, <2>2 DEF StrictSubsetOrdering
  <2>4. Below(q) \in Belows
    OBVIOUS
  <2>. HIDE DEF Belows
  <2>. QED
    BY <1>4, <2>3, <2>4
<1>. QED
  BY <1>6

(* What holds of 0 and passes from each number to the next holds up to n.  *)
LEMMA UpTo ==
  ASSUME NEW n \in Nat, NEW G, 0 \in G, \A k \in 0 .. n - 1 : k \in G => k + 1 \in G
  PROVE  \A k \in 0 .. n : k \in G
<1>. DEFINE N == 0 .. n
            Bad == N \ G
<1>. SUFFICES ASSUME Bad # {} PROVE FALSE
  OBVIOUS
<1>1. IsFiniteSet(N)
  BY FS_Interval
<1>2. IsFiniteSet(Bad) /\ Bad \in SUBSET Nat
  <2>1. Bad \subseteq N /\ N \subseteq Nat
    OBVIOUS
  <2>. HIDE DEF Bad, N
  <2>. QED
    BY <1>1, <2>1, FS_Subset
<1>3. PICK p \in Bad : \A q \in Bad : p <= q
  <2>. HIDE DEF Bad
  <2>. QED
    BY <1>2, LowestExists
<1>4. p \in Nat /\ p # 0 /\ p <= n /\ p \notin G
  OBVIOUS
<1>5. p - 1 \in 0 .. n - 1 /\ p - 1 \in N /\ (p - 1) + 1 = p
  BY <1>4
<1>6. p - 1 \in G
  BY <1>3, <1>4, <1>5
<1>. QED
  BY <1>4, <1>5, <1>6

(* Folding over a sequence of n elements goes through n + 1 values.        *)
LEMMA MaxOf == ASSUME NEW n \in Nat PROVE Max(1 .. n + 1) = n + 1
<1>1. n + 1 \in 1 .. n + 1 /\ \A y \in 1 .. n + 1 : n + 1 >= y
  OBVIOUS
<1>2. \A x \in 1 .. n + 1 : (\A y \in 1 .. n + 1 : x >= y) => x = n + 1
  BY <1>1
<1>. QED
  BY <1>1, <1>2 DEF Max

LEMMA MaxTop ==
  ASSUME NEW n \in Nat, NEW t \in SUBSET (1 .. n + 1), n + 1 \in t
  PROVE  Max(t) = n + 1
<1>1. \A y \in t : y \in Int /\ n + 1 >= y
  OBVIOUS
<1>2. \A x \in t : (\A y \in t : x >= y) => x = n + 1
  BY <1>1
<1>. QED
  BY <1>1, <1>2 DEF Max

LEMMA MaxIn ==
  ASSUME NEW n \in Nat, NEW t \in SUBSET (1 .. n), t # {}
  PROVE  Max(t) \in t
<1>. DEFINE u == {n - x : x \in t}
            N == 0 .. n
<1>1. IsFiniteSet(N) /\ u \subseteq N /\ N \subseteq Nat /\ u # {}
  <2>1. \A x \in t : n - x \in 0 .. n
    OBVIOUS
  <2>2. u \subseteq N /\ u # {}
    BY <2>1
  <2>3. N \subseteq Nat /\ IsFiniteSet(N)
    BY FS_Interval
  <2>. QED
    BY <2>2, <2>3
<1>2. PICK m \in u : \A q \in u : m <= q
  <2>. HIDE DEF u, N
  <2>. QED
    BY <1>1, FS_Subset, LowestExists
<1>3. PICK x \in t : m = n - x
  BY <1>2
<1>4. \A y \in t : x >= y
  <2>1. SUFFICES ASSUME NEW y \in t PROVE x >= y
    OBVIOUS
  <2>2. n - x <= n - y
    BY <1>2, <1>3
  <2>. QED
    BY <2>2
<1>. QED
  BY <1>4 DEF Max

(* A character put on the screen, or erased from it.                       *)
Wiped(s) == Back(PutChar(Back(s), Space))
Drawn(mode, s, c) == IF mode = "erase" THEN Wiped(s) ELSE PutChar(s, c)
Steps(e, f, n, s, str) ==
  f = [t \in SUBSET (1 .. n) |->
         IF t = {} THEN s ELSE Drawn(e, f[t \ {Max(t)}], str[Max(t)])]

LEMMA DrawnFunction ==
  ASSUME NEW e, NEW s, NEW str, NEW n \in Nat
  PROVE  \E f : Steps(e, f, n, s, str)
<1>. DEFINE G == {k \in Nat : \E f : Steps(e, f, k, s, str)}
<1>1. 0 \in G
  <2>. DEFINE f == [t \in SUBSET (1 .. 0) |-> s]
  <2>1. \A t \in SUBSET (1 .. 0) : t = {}
    OBVIOUS
  <2>2. Steps(e, f, 0, s, str)
    BY <2>1 DEF Steps
  <2>. HIDE DEF f
  <2>. QED
    BY <2>2
<1>2. ASSUME NEW k \in Nat, k \in G PROVE k + 1 \in G
  <2>1. PICK f : Steps(e, f, k, s, str)
    BY <1>2
  <2>. DEFINE top == k + 1
              g == [t \in SUBSET (1 .. top) |->
                      IF t = {} THEN s
                      ELSE IF top \in t THEN Drawn(e, f[t \ {top}], str[top]) ELSE f[t]]
  <2>2. \A t \in SUBSET (1 .. top) : top \notin t => t \in SUBSET (1 .. k)
    OBVIOUS
  <2>3. ASSUME NEW t \in SUBSET (1 .. top), t # {}
        PROVE  g[t] = Drawn(e, g[t \ {Max(t)}], str[Max(t)])
    <3>1. CASE top \in t
      <4>1. Max(t) = top
        BY <3>1, MaxTop
      <4>2. t \ {top} \in SUBSET (1 .. k) /\ t \ {top} \in SUBSET (1 .. top) /\ top \notin t \ {top}
        BY <2>2
      <4>3. g[t \ {top}] = f[t \ {top}]
        BY <2>1, <4>2 DEF Steps
      <4>. QED
        BY <2>3, <3>1, <4>1, <4>3
    <3>2. CASE top \notin t
      <4>1. t \in SUBSET (1 .. k) /\ Max(t) \in t
        BY <2>2, <2>3, <3>2, MaxIn
      <4>2. f[t] = Drawn(e, f[t \ {Max(t)}], str[Max(t)])
        BY <2>1, <2>3, <4>1 DEF Steps
      <4>3. t \ {Max(t)} \in SUBSET (1 .. k) /\ t \ {Max(t)} \in SUBSET (1 .. top) /\ top \notin t \ {Max(t)}
        BY <3>2, <4>1
      <4>4. g[t \ {Max(t)}] = f[t \ {Max(t)}]
        BY <2>1, <4>3 DEF Steps
      <4>. QED
        BY <2>3, <3>2, <4>2, <4>4
    <3>. QED
      BY <3>1, <3>2
  <2>4. g[{}] = s /\ DOMAIN g = SUBSET (1 .. top) /\ g = [t \in SUBSET (1 .. top) |-> g[t]]
    OBVIOUS
  <2>. HIDE DEF g
  <2>5. g = [t \in SUBSET (1 .. top) |->
              IF t = {} THEN s ELSE Drawn(e, g[t \ {Max(t)}], str[Max(t)])]
    BY <2>3, <2>4
  <2>6. Steps(e, g, k + 1, s, str)
    BY <2>5 DEF Steps
  <2>. QED
    BY <2>6
<1>3. \A k \in 0 .. n : k \in G
  <2>. HIDE DEF G
  <2>1. \A k \in 0 .. n - 1 : k \in G => k + 1 \in G
    BY <1>2
  <2>. QED
    BY <1>1, <2>1, UpTo
<1>. QED
  BY <1>3

(* Drawing goes one character after the other.                             *)
Drawing(e, s, str, n) == (CHOOSE f : Steps(e, f, n, s, str))[1 .. n]
Along(e, g, s, str, n) ==
  /\ g[0] = s /\ g[n] = Drawing(e, s, str, n)
  /\ \A k \in 0 .. n - 1 : g[k + 1] = Drawn(e, g[k], str[k + 1])

LEMMA DrawnSteps ==
  ASSUME NEW e, NEW s, NEW str, NEW n \in Nat
  PROVE  \E g : Along(e, g, s, str, n)
<1>. DEFINE it == CHOOSE f : Steps(e, f, n, s, str)
            g == [k \in 0 .. n |-> it[1 .. k]]
<1>1. Steps(e, it, n, s, str)
  BY DrawnFunction
<1>. HIDE DEF it
<1>2. g[0] = s
  BY <1>1 DEF Steps
<1>3. ASSUME NEW k \in 0 .. n - 1 PROVE g[k + 1] = Drawn(e, g[k], str[k + 1])
  <2>1. 1 .. k + 1 \in SUBSET (1 .. n) /\ 1 .. k + 1 # {} /\ (1 .. k + 1) \ {k + 1} = 1 .. k
    <3>1. 1 .. k + 1 \in SUBSET (1 .. n)
      OBVIOUS
    <3>2. k + 1 \in 1 .. k + 1
      OBVIOUS
    <3>3. (1 .. k + 1) \ {k + 1} = 1 .. k
      OBVIOUS
    <3>. QED
      BY <3>1, <3>2, <3>3
  <2>2. Max(1 .. k + 1) = k + 1
    BY MaxOf
  <2>3. it[1 .. k + 1] = Drawn(e, it[1 .. k], str[k + 1])
    BY <1>1, <2>1, <2>2 DEF Steps
  <2>. QED
    BY <2>3
<1>4. g[n] = it[1 .. n]
  OBVIOUS
<1>. HIDE DEF g
<1>5. Along(e, g, s, str, n)
  BY <1>2, <1>3, <1>4 DEF Along, it, Drawing
<1>. QED
  BY <1>5

LEMMA PutSteps ==
  ASSUME NEW s, NEW str, NEW n \in Nat
  PROVE  \E g : Along("put", g, s, str, n)
BY DrawnSteps

LEMMA PutsDrawn ==
  ASSUME NEW str, NEW n \in Nat, DOMAIN str = 1 .. n
  PROVE  \A s : Puts(s, str) = Drawing("put", s, str, n)
BY DEF Puts, FoldLeft, MapThenFoldSet, Drawing, Steps, Drawn

Putting(g, s, str, n) ==
  /\ g[0] = s /\ g[n] = Puts(s, str)
  /\ \A k \in 0 .. n - 1 : g[k + 1] = PutChar(g[k], str[k + 1])
Erasing(g, s, n) ==
  /\ g[0] = s /\ g[n] = Erase(s, n)
  /\ \A k \in 0 .. n - 1 : g[k + 1] = Wiped(g[k])

LEMMA PutsSteps ==
  ASSUME NEW s, NEW str, NEW n \in Nat, Puts(s, str) = Drawing("put", s, str, n)
  PROVE  \E g : Putting(g, s, str, n)
<1>1. \A x, c : Drawn("put", x, c) = PutChar(x, c)
  BY DEF Drawn
<1>p. PICK g : Along("put", g, s, str, n)
  BY PutSteps, Zenon
<1>2. /\ g[0] = s /\ g[n] = Drawing("put", s, str, n)
      /\ \A k \in 0 .. n - 1 : g[k + 1] = Drawn("put", g[k], str[k + 1])
  BY <1>p DEF Along
<1>3. g[n] = Puts(s, str)
  BY <1>2
<1>4. \A k \in 0 .. n - 1 : g[k + 1] = PutChar(g[k], str[k + 1])
  BY <1>1, <1>2
<1>. QED
  <2>1. Putting(g, s, str, n)
    BY <1>2, <1>3, <1>4 DEF Putting
  <2>. QED
    BY <2>1

LEMMA EraseSteps ==
  ASSUME NEW s, NEW n \in Nat
  PROVE  \E g : Erasing(g, s, n)
<1>. DEFINE str == [i \in 1 .. n |-> i]
<1>1. \A x, c : Drawn("erase", x, c) = Wiped(x)
  BY DEF Drawn
<1>2. Erase(s, n) = Drawing("erase", s, str, n)
  BY DEF Erase, FoldLeft, MapThenFoldSet, Drawing, Steps, Drawn, Wiped
<1>. HIDE DEF str
<1>p. PICK g : Along("erase", g, s, str, n)
  BY DrawnSteps, Zenon
<1>3. /\ g[0] = s /\ g[n] = Drawing("erase", s, str, n)
      /\ \A k \in 0 .. n - 1 : g[k + 1] = Drawn("erase", g[k], str[k + 1])
  BY <1>p DEF Along
<1>4. \A k \in 0 .. n - 1 : g[k + 1] = Wiped(g[k])
  BY <1>1, <1>3
<1>. QED
  <2>1. Erasing(g, s, n)
    BY <1>2, <1>3, <1>4 DEF Erasing
  <2>. QED
    BY <2>1

-----------------------------------------------------------------------------
(* Screens on which nothing stands below the cursor's row.                 *)
Chars == Letters \cup Range(Prompt) \cup {Space}
Rows == 0 .. Height - 1
Cols == 0 .. Width - 1
Screens == [row : Rows, col : 0 .. Width, cells : [Rows -> [Cols -> Chars]]]
Clean(s) == s \in Screens /\ \A y \in Rows : y > s.row => s.cells[y] = BlankRow

(* The cursor's row begins with the first n characters of f.               *)
Reads(s, f, n) ==
  /\ Clean(s) /\ s.col = n
  /\ \A x \in Cols : s.cells[s.row][x] = IF x < n THEN f[x + 1] ELSE Space

(* The sizes as numbers.                                                   *)
LEMMA SizesPositive == Width \in Nat /\ Height \in Nat /\ Width > 0 /\ Height > 0
BY ScreenAssumption

LEMMA BlankRowFits == BlankRow \in [Cols -> Chars]
BY DEF BlankRow, Cols, Chars

LEMMA ScreenParts ==
  ASSUME NEW s \in Screens
  PROVE  /\ s = [row |-> s.row, col |-> s.col, cells |-> s.cells]
         /\ s.row \in Rows /\ s.col \in 0 .. Width /\ s.cells \in [Rows -> [Cols -> Chars]]
BY DEF Screens

(* What the steps make of the parts of a screen.                           *)
LEMMA NewLineParts ==
  ASSUME NEW r, NEW c, NEW m
  PROVE  NewLine([row |-> r, col |-> c, cells |-> m])
           = IF r + 1 < Height THEN [row |-> r + 1, col |-> 0, cells |-> m]
             ELSE [row |-> r, col |-> 0, cells |-> Scrolled(m)]
<1>. DEFINE s == [row |-> r, col |-> c, cells |-> m]
            down == [row |-> r + 1, col |-> c, cells |-> m]
            up == [row |-> r, col |-> c, cells |-> Scrolled(m)]
<1>1. s.row = r /\ s.cells = m
  OBVIOUS
<1>2. [s EXCEPT !.row = r + 1] = down /\ [s EXCEPT !.cells = Scrolled(m)] = up
  OBVIOUS
<1>3. [down EXCEPT !.col = 0] = [row |-> r + 1, col |-> 0, cells |-> m]
  OBVIOUS
<1>4. [up EXCEPT !.col = 0] = [row |-> r, col |-> 0, cells |-> Scrolled(m)]
  OBVIOUS
<1>. HIDE DEF s, down, up
<1>5. NewLine(s) = IF r + 1 < Height THEN [[s EXCEPT !.row = r + 1] EXCEPT !.col = 0]
                   ELSE [[s EXCEPT !.cells = Scrolled(m)] EXCEPT !.col = 0]
  BY <1>1 DEF NewLine
<1>6. NewLine(s) = IF r + 1 < Height THEN [down EXCEPT !.col = 0] ELSE [up EXCEPT !.col = 0]
  BY <1>2, <1>5
<1>. QED
  BY <1>3, <1>4, <1>6 DEF s

LEMMA PutParts ==
  ASSUME NEW r, NEW c, NEW m, NEW d, ~(c >= Width)
  PROVE  PutChar([row |-> r, col |-> c, cells |-> m], d)
           = [row |-> r, col |-> c + 1, cells |-> [m EXCEPT ![r] = [m[r] EXCEPT ![c] = d]]]
<1>. DEFINE s == [row |-> r, col |-> c, cells |-> m]
            row == [m[r] EXCEPT ![c] = d]
            cells == [m EXCEPT ![r] = row]
            drawn == [row |-> r, col |-> c, cells |-> cells]
<1>1. s.row = r /\ s.col = c /\ s.cells = m
  OBVIOUS
<1>2. drawn = [s EXCEPT !.cells = cells]
  <2>. HIDE DEF cells
  <2>. QED
    OBVIOUS
<1>3. [drawn EXCEPT !.col = c + 1] = [row |-> r, col |-> c + 1, cells |-> cells]
  <2>. HIDE DEF cells
  <2>. QED
    OBVIOUS
<1>. HIDE DEF s, drawn
<1>4. PutChar(s, d) = [[s EXCEPT !.cells = cells] EXCEPT !.col = c + 1]
  BY <1>1 DEF PutChar
<1>. HIDE DEF cells
<1>5. PutChar(s, d) = [row |-> r, col |-> c + 1, cells |-> cells]
  BY <1>2, <1>3, <1>4
<1>. QED
  BY <1>5 DEF s, cells

LEMMA ClearedClean == Clean(Cleared) /\ \A f : Reads(Cleared, f, 0)
<1>1. Cleared \in Screens
  BY SizesPositive, BlankRowFits DEF Cleared, Screens, Rows
<1>2. Clean(Cleared)
  BY <1>1 DEF Clean, Cleared, Rows
<1>3. \A x \in Cols : Cleared.cells[Cleared.row][x] = Space /\ ~(x < 0)
  BY SizesPositive DEF Cleared, BlankRow, Cols
<1>. QED
  BY <1>2, <1>3 DEF Reads, Cleared

LEMMA NewLineClean ==
  ASSUME NEW s, Clean(s)
  PROVE  Clean(NewLine(s)) /\ \A f : Reads(NewLine(s), f, 0)
<1>. DEFINE t == NewLine(s)
<1>1. s \in Screens /\ s.row \in Rows /\ s.cells \in [Rows -> [Cols -> Chars]]
  BY ScreenParts DEF Clean
<1>0. t = IF s.row + 1 < Height THEN [row |-> s.row + 1, col |-> 0, cells |-> s.cells]
          ELSE [row |-> s.row, col |-> 0, cells |-> Scrolled(s.cells)]
  <2>1. s = [row |-> s.row, col |-> s.col, cells |-> s.cells]
    BY <1>1, ScreenParts
  <2>2. NewLine([row |-> s.row, col |-> s.col, cells |-> s.cells])
          = IF s.row + 1 < Height THEN [row |-> s.row + 1, col |-> 0, cells |-> s.cells]
            ELSE [row |-> s.row, col |-> 0, cells |-> Scrolled(s.cells)]
    BY NewLineParts
  <2>. QED
    BY <2>1, <2>2, Zenon
<1>2. CASE s.row + 1 < Height
  <2>1. t = [row |-> s.row + 1, col |-> 0, cells |-> s.cells]
    BY <1>0, <1>2
  <2>2. t \in Screens
    BY <1>1, <1>2, <2>1, SizesPositive DEF Screens, Rows
  <2>3. t.cells[t.row] = BlankRow
    <3>1. s.row + 1 \in Rows /\ s.row + 1 > s.row
      BY <1>1, <1>2, SizesPositive DEF Rows
    <3>. QED
      BY <2>1, <3>1 DEF Clean
  <2>4. \A y \in Rows : y > t.row => t.cells[y] = BlankRow
    BY <1>1, <2>1 DEF Clean, Rows
  <2>. HIDE DEF t
  <2>5. Clean(t)
    BY <2>2, <2>4 DEF Clean
  <2>6. \A x \in Cols : t.cells[t.row][x] = Space /\ ~(x < 0)
    BY <2>3 DEF BlankRow, Cols
  <2>7. Clean(t) /\ \A f : Reads(t, f, 0)
    BY <2>1, <2>5, <2>6 DEF Reads
  <2>. QED
    BY <2>7 DEF t
<1>3. CASE ~(s.row + 1 < Height)
  <2>1. t = [row |-> s.row, col |-> 0, cells |-> Scrolled(s.cells)]
    BY <1>0, <1>3
  <2>2. Scrolled(s.cells) \in [Rows -> [Cols -> Chars]]
    BY <1>1, BlankRowFits, SizesPositive DEF Scrolled, Rows
  <2>3. t \in Screens
    BY <1>1, <2>1, <2>2, SizesPositive DEF Screens
  <2>4. t.cells[t.row] = BlankRow
    BY <1>1, <1>3, <2>1 DEF Scrolled, Rows
  <2>5. \A y \in Rows : ~(y > t.row)
    BY <1>1, <1>3, <2>1, SizesPositive DEF Rows
  <2>. HIDE DEF t
  <2>6. Clean(t)
    BY <2>3, <2>5 DEF Clean
  <2>7. \A x \in Cols : t.cells[t.row][x] = Space /\ ~(x < 0)
    BY <2>4 DEF BlankRow, Cols
  <2>8. Clean(t) /\ \A f : Reads(t, f, 0)
    BY <2>1, <2>6, <2>7 DEF Reads
  <2>. QED
    BY <2>8 DEF t
<1>. QED
  BY <1>2, <1>3

LEMMA BackClean ==
  ASSUME NEW s, Clean(s)
  PROVE  /\ Clean(Back(s))
         /\ Back(s) = [row |-> s.row, col |-> IF s.col > 0 THEN s.col - 1 ELSE 0, cells |-> s.cells]
<1>1. s \in Screens /\ s.row \in Rows /\ s.cells \in [Rows -> [Cols -> Chars]] /\ s.col \in 0 .. Width
  BY ScreenParts DEF Clean
<1>2. Back(s) = [row |-> s.row, col |-> IF s.col > 0 THEN s.col - 1 ELSE 0, cells |-> s.cells]
  BY <1>1, ScreenParts DEF Back
<1>3. (IF s.col > 0 THEN s.col - 1 ELSE 0) \in 0 .. Width
  BY <1>1, SizesPositive
<1>4. Back(s) \in Screens
  BY <1>1, <1>2, <1>3 DEF Screens
<1>. QED
  BY <1>2, <1>4 DEF Clean

(* A character put where there is room in the row.                         *)
LEMMA PutInRow ==
  ASSUME NEW s, Clean(s), s.col < Width, NEW c \in Chars
  PROVE  /\ Clean(PutChar(s, c))
         /\ PutChar(s, c).row = s.row /\ PutChar(s, c).col = s.col + 1
         /\ PutChar(s, c).cells[s.row] = [s.cells[s.row] EXCEPT ![s.col] = c]
<1>1. s \in Screens /\ s.row \in Rows /\ s.cells \in [Rows -> [Cols -> Chars]] /\ s.col \in 0 .. Width
  BY ScreenParts DEF Clean
<1>. DEFINE row == [s.cells[s.row] EXCEPT ![s.col] = c]
            cells == [s.cells EXCEPT ![s.row] = row]
<1>2. PutChar(s, c) = [row |-> s.row, col |-> s.col + 1, cells |-> cells]
  <2>1. ~(s.col >= Width)
    BY <1>1, SizesPositive
  <2>2. s = [row |-> s.row, col |-> s.col, cells |-> s.cells]
    BY <1>1, ScreenParts
  <2>3. PutChar([row |-> s.row, col |-> s.col, cells |-> s.cells], c)
          = [row |-> s.row, col |-> s.col + 1, cells |-> cells]
    BY <2>1, PutParts
  <2>. QED
    BY <2>2, <2>3, Zenon
<1>3. row \in [Cols -> Chars]
  BY <1>1
<1>4. cells \in [Rows -> [Cols -> Chars]] /\ cells[s.row] = row
      /\ \A y \in Rows : y # s.row => cells[y] = s.cells[y]
  <2>. HIDE DEF row
  <2>. QED
    BY <1>1, <1>3
<1>5. s.col + 1 \in 0 .. Width
  BY <1>1, SizesPositive
<1>. HIDE DEF row, cells
<1>6. PutChar(s, c) \in Screens
  BY <1>1, <1>2, <1>4, <1>5 DEF Screens
<1>7. \A y \in Rows : y > s.row => cells[y] = BlankRow
  BY <1>1, <1>4 DEF Clean, Rows
<1>8. Clean(PutChar(s, c))
  BY <1>2, <1>6, <1>7 DEF Clean
<1>. QED
  BY <1>2, <1>4, <1>8 DEF row

LEMMA PutClean ==
  ASSUME NEW s, Clean(s), NEW c \in Chars
  PROVE  Clean(PutChar(s, c))
<1>1. s.col \in 0 .. Width
  BY ScreenParts DEF Clean
<1>2. CASE s.col < Width
  BY <1>2, PutInRow
<1>3. CASE s.col >= Width
  <2>1. Clean(NewLine(s)) /\ NewLine(s).col = 0
    BY NewLineClean DEF Reads
  <2>2. PutChar(s, c) = PutChar(NewLine(s), c)
    <3>. DEFINE t == NewLine(s)
    <3>1. PutChar(s, c) = [t EXCEPT !.cells[t.row][t.col] = c, !.col = @ + 1]
      BY <1>3 DEF PutChar
    <3>2. ~(t.col >= Width)
      BY <2>1, SizesPositive
    <3>. HIDE DEF t
    <3>3. PutChar(t, c) = [t EXCEPT !.cells[t.row][t.col] = c, !.col = @ + 1]
      BY <3>2 DEF PutChar
    <3>. QED
      BY <3>1, <3>3 DEF t
  <2>. QED
    BY <2>1, <2>2, SizesPositive, PutInRow
<1>. QED
  BY <1>1, <1>2, <1>3, SizesPositive

LEMMA PutReads ==
  ASSUME NEW s, NEW f, NEW n \in Nat, Reads(s, f, n), n < Width, f[n + 1] \in Chars
  PROVE  Reads(PutChar(s, f[n + 1]), f, n + 1)
<1>. DEFINE t == PutChar(s, f[n + 1])
<1>1. /\ Clean(t) /\ t.row = s.row /\ t.col = n + 1
      /\ t.cells[t.row] = [s.cells[s.row] EXCEPT ![n] = f[n + 1]]
  BY PutInRow DEF Reads
<1>. HIDE DEF t
<1>2. s.cells[s.row] \in [Cols -> Chars] /\ n \in Cols
  BY ScreenParts, SizesPositive DEF Reads, Clean, Cols
<1>3. ASSUME NEW x \in Cols
      PROVE  t.cells[t.row][x] = IF x < n + 1 THEN f[x + 1] ELSE Space
  <2>1. x \in Nat
    BY DEF Cols
  <2>2. CASE x = n
    BY <1>1, <1>2, <2>2
  <2>3. CASE x # n
    <3>1. t.cells[t.row][x] = s.cells[s.row][x]
      BY <1>1, <1>2, <2>3
    <3>2. x < n + 1 <=> x < n
      BY <2>1, <2>3
    <3>. QED
      BY <3>1, <3>2 DEF Reads
  <2>. QED
    BY <2>2, <2>3
<1>4. Reads(t, f, n + 1)
  BY <1>1, <1>3 DEF Reads
<1>. QED
  BY <1>4 DEF t

LEMMA WipedClean == ASSUME NEW s, Clean(s) PROVE Clean(Wiped(s))
<1>1. Space \in Chars
  BY DEF Chars
<1>. QED
  BY <1>1, BackClean, PutClean DEF Wiped

LEMMA WipedReads ==
  ASSUME NEW s, NEW f, NEW n \in Nat, Reads(s, f, n + 1), n < Width
  PROVE  Reads(Wiped(s), f, n)
<1>. DEFINE b == Back(s)
            p == PutChar(b, Space)
<1>1. Clean(b) /\ b.row = s.row /\ b.col = n /\ b.cells = s.cells
  BY BackClean DEF Reads
<1>2. Space \in Chars
  BY DEF Chars
<1>. HIDE DEF b
<1>3. Clean(p) /\ p.row = s.row /\ p.col = n + 1 /\ p.cells[s.row] = [s.cells[s.row] EXCEPT ![n] = Space]
  BY <1>1, <1>2, PutInRow
<1>. HIDE DEF p
<1>4. Clean(Back(p)) /\ Back(p).row = s.row /\ Back(p).col = n /\ Back(p).cells[s.row] = [s.cells[s.row] EXCEPT ![n] = Space]
  BY <1>3, BackClean
<1>5. s.cells[s.row] \in [Cols -> Chars] /\ n \in Cols
  BY ScreenParts, SizesPositive DEF Reads, Clean, Cols
<1>6. ASSUME NEW x \in Cols
      PROVE  Back(p).cells[s.row][x] = IF x < n THEN f[x + 1] ELSE Space
  <2>1. x \in Nat
    BY DEF Cols
  <2>2. CASE x = n
    BY <1>4, <1>5, <2>2
  <2>3. CASE x # n
    <3>1. Back(p).cells[s.row][x] = s.cells[s.row][x]
      BY <1>4, <1>5, <2>3
    <3>2. x < n + 1 <=> x < n
      BY <2>1, <2>3
    <3>. QED
      BY <3>1, <3>2 DEF Reads
  <2>. QED
    BY <2>2, <2>3
<1>7. Reads(Back(p), f, n)
  BY <1>4, <1>6 DEF Reads
<1>. QED
  BY <1>7 DEF Wiped, p, b

(* Strings put on the screen and erased from it.                           *)
LEMMA PutsClean ==
  ASSUME NEW str \in Seq(Chars), NEW s, Clean(s)
  PROVE  Clean(Puts(s, str))
<1>. DEFINE n == Len(str)
<1>1. n \in Nat /\ DOMAIN str = 1 .. n /\ \A k \in 1 .. n : str[k] \in Chars
  BY LenProperties, ElementOfSeq
<1>. HIDE DEF n
<1>2. Puts(s, str) = Drawing("put", s, str, n)
  BY <1>1, PutsDrawn
<1>p. PICK g : Putting(g, s, str, n)
  BY <1>1, <1>2, PutsSteps, Zenon
<1>3. /\ g[0] = s /\ g[n] = Puts(s, str)
      /\ \A k \in 0 .. n - 1 : g[k + 1] = PutChar(g[k], str[k + 1])
  BY <1>p DEF Putting
<1>. DEFINE G == {k \in 0 .. n : Clean(g[k])}
<1>4. ASSUME NEW k \in 0 .. n - 1, k \in G PROVE k + 1 \in G
  <2>1. str[k + 1] \in Chars /\ k + 1 \in 0 .. n
    BY <1>1
  <2>. QED
    BY <1>3, <1>4, <2>1, PutClean
<1>5. 0 \in G /\ n \in 0 .. n
  BY <1>1, <1>3
<1>6. n \in G
  <2>. HIDE DEF G
  <2>. QED
    BY <1>1, <1>4, <1>5, UpTo
<1>. QED
  BY <1>3, <1>6

LEMMA PutsReads ==
  ASSUME NEW str \in Seq(Chars), NEW f, NEW m \in Nat, NEW s, Reads(s, f, m),
         m + Len(str) <= Width, \A k \in 1 .. Len(str) : f[m + k] = str[k]
  PROVE  Reads(Puts(s, str), f, m + Len(str))
<1>. DEFINE n == Len(str)
<1>1. n \in Nat /\ DOMAIN str = 1 .. n /\ \A k \in 1 .. n : str[k] \in Chars
  BY LenProperties, ElementOfSeq
<1>a. m + n <= Width /\ \A k \in 1 .. n : f[m + k] = str[k]
  OBVIOUS
<1>. HIDE DEF n
<1>2. Puts(s, str) = Drawing("put", s, str, n)
  BY <1>1, PutsDrawn
<1>p. PICK g : Putting(g, s, str, n)
  BY <1>1, <1>2, PutsSteps, Zenon
<1>3. /\ g[0] = s /\ g[n] = Puts(s, str)
      /\ \A k \in 0 .. n - 1 : g[k + 1] = PutChar(g[k], str[k + 1])
  BY <1>p DEF Putting
<1>. DEFINE G == {k \in 0 .. n : Reads(g[k], f, m + k)}
<1>4. ASSUME NEW k \in 0 .. n - 1, k \in G PROVE k + 1 \in G
  <2>1. k \in Nat /\ m + k \in Nat /\ m + k < Width /\ k + 1 \in 1 .. n /\ k + 1 \in 0 .. n
        /\ m + (k + 1) = (m + k) + 1
    BY <1>1, <1>a, SizesPositive
  <2>2. f[(m + k) + 1] = str[k + 1] /\ f[(m + k) + 1] \in Chars
    BY <1>1, <1>a, <2>1
  <2>3. Reads(g[k], f, m + k)
    BY <1>4
  <2>4. Reads(PutChar(g[k], f[(m + k) + 1]), f, (m + k) + 1)
    BY <2>1, <2>2, <2>3, PutReads
  <2>5. Reads(g[k + 1], f, m + (k + 1))
    BY <1>3, <2>1, <2>2, <2>4
  <2>. QED
    BY <2>1, <2>5
<1>5. 0 \in G /\ n \in 0 .. n
  BY <1>1, <1>3
<1>6. n \in G
  <2>. HIDE DEF G
  <2>. QED
    BY <1>1, <1>4, <1>5, UpTo
<1>7. Reads(Puts(s, str), f, m + n)
  BY <1>3, <1>6
<1>. QED
  BY <1>7 DEF n

LEMMA EraseClean ==
  ASSUME NEW n \in Nat, NEW s, Clean(s)
  PROVE  Clean(Erase(s, n))
<1>e. PICK g : Erasing(g, s, n)
  BY EraseSteps, Zenon
<1>1. /\ g[0] = s /\ g[n] = Erase(s, n) /\ \A k \in 0 .. n - 1 : g[k + 1] = Wiped(g[k])
  BY <1>e DEF Erasing
<1>. DEFINE G == {k \in 0 .. n : Clean(g[k])}
<1>2. ASSUME NEW k \in 0 .. n - 1, k \in G PROVE k + 1 \in G
  BY <1>1, <1>2, WipedClean
<1>3. 0 \in G /\ n \in 0 .. n
  BY <1>1
<1>4. n \in G
  <2>. HIDE DEF G
  <2>. QED
    BY <1>2, <1>3, UpTo
<1>. QED
  BY <1>1, <1>4

LEMMA EraseReads ==
  ASSUME NEW f, NEW m \in Nat, NEW n \in Nat, NEW s, Reads(s, f, m + n), m + n <= Width
  PROVE  Reads(Erase(s, n), f, m)
<1>e. PICK g : Erasing(g, s, n)
  BY EraseSteps, Zenon
<1>1. /\ g[0] = s /\ g[n] = Erase(s, n) /\ \A k \in 0 .. n - 1 : g[k + 1] = Wiped(g[k])
  BY <1>e DEF Erasing
<1>. DEFINE G == {k \in 0 .. n : Reads(g[k], f, m + (n - k))}
<1>2. ASSUME NEW k \in 0 .. n - 1, k \in G PROVE k + 1 \in G
  <2>. DEFINE r == m + (n - (k + 1))
  <2>1. r \in Nat /\ r < Width /\ m + (n - k) = r + 1 /\ k + 1 \in 0 .. n
    BY SizesPositive
  <2>2. Reads(g[k], f, r + 1)
    BY <1>2, <2>1
  <2>. HIDE DEF r
  <2>3. Reads(g[k + 1], f, r)
    BY <1>1, <2>1, <2>2, WipedReads
  <2>. QED
    BY <2>1, <2>3 DEF r
<1>3. 0 \in G /\ n \in 0 .. n
  BY <1>1
<1>4. n \in G
  <2>. HIDE DEF G
  <2>. QED
    BY <1>2, <1>3, UpTo
<1>5. m + (n - n) = m
  OBVIOUS
<1>. QED
  BY <1>1, <1>4, <1>5

(* A row says no more of a text than its first characters.                 *)
LEMMA ReadsAgree ==
  ASSUME NEW f, NEW h, NEW n \in Nat, NEW s, Reads(s, f, n), \A k \in 1 .. n : f[k] = h[k]
  PROVE  Reads(s, h, n)
<1>1. ASSUME NEW x \in Cols, x < n PROVE f[x + 1] = h[x + 1]
  BY <1>1 DEF Cols
<1>. QED
  BY <1>1 DEF Reads

(* The prompt, and what is typed behind it.                                *)
LEMMA PromptReads ==
  ASSUME NEW s, Reads(s, Prompt, 0)
  PROVE  /\ Len(Prompt) \in Nat /\ Len(Prompt) < Width
         /\ Reads(Puts(s, Prompt), Prompt, Len(Prompt))
<1>1. Prompt \in Seq(Chars) /\ Len(Prompt) \in Nat
  BY PromptAssumption, SeqMonotonic, LenProperties DEF Chars
<1>2. \A k \in 1 .. Len(Prompt) : Prompt[0 + k] = Prompt[k]
  OBVIOUS
<1>4. Len(Prompt) < Width
  BY PromptAssumption
<1>3. Reads(Puts(s, Prompt), Prompt, 0 + Len(Prompt))
  BY <1>1, <1>2, <1>4, PutsReads, SizesPositive
<1>. QED
  BY <1>1, <1>3, <1>4

-----------------------------------------------------------------------------
(* Lines, as sequences.                                                    *)
LEMMA SizesOfHistory ==
  LineMax \in Nat /\ HistMax \in Nat /\ LineMax > 1 /\ HistMax > 1
BY HistAssumption

LEMMA LineIsSeq ==
  \A line : line \in Line <=> line \in Seq(Letters) /\ Len(line) <= LineMax - 1
<1>1. ASSUME NEW line \in Line PROVE line \in Seq(Letters) /\ Len(line) <= LineMax - 1
  <2>1. PICK n \in 0 .. LineMax - 1 : line \in [1 .. n -> Letters]
    BY DEF Line
  <2>2. n \in Nat /\ line \in Seq(Letters) /\ Len(line) = n
    BY <2>1
  <2>. QED
    BY <2>1, <2>2, SizesOfHistory
<1>2. ASSUME NEW line \in Seq(Letters), Len(line) <= LineMax - 1 PROVE line \in Line
  <2>1. Len(line) \in 0 .. LineMax - 1 /\ line \in [1 .. Len(line) -> Letters]
    BY <1>2, LenProperties, SizesOfHistory
  <2>. QED
    BY <2>1 DEF Line
<1>. QED
  BY <1>1, <1>2

LEMMA NoLine == <<>> \in Line /\ Len(<<>>) = 0
<1>1. <<>> \in Seq(Letters) /\ Len(<<>>) = 0
  OBVIOUS
<1>2. Len(<<>>) <= LineMax - 1
  BY <1>1, SizesOfHistory
<1>. QED
  BY <1>1, <1>2, LineIsSeq, Zenon

LEMMA Parts ==
  ASSUME LineTypeOK
  PROVE  /\ out \in Line /\ hist \in [HistSlot -> Line]
         /\ count \in 0 .. HistMax /\ nav \in 0 .. count /\ next \in HistSlot
BY Zenon DEF LineTypeOK

LEMMA Turned ==
  ASSUME NEW h \in Nat, h > 0, NEW x \in Nat, x < h
  PROVE  x % h = x /\ (x + h) % h = x /\ (x + 2 * h) % h = x
<1>1. x % h = x
  OBVIOUS
<1>2. (x + h) % h = x
  OBVIOUS
<1>3. (x + 2 * h) % h = x
  OBVIOUS
<1>. QED
  BY <1>1, <1>2, <1>3

(* The k-th slot before the one to be written.                             *)
At(nx, k) == IF k <= nx THEN nx - k ELSE nx + HistMax - k

LEMMA AtIs ==
  ASSUME NEW nx \in HistSlot, NEW k \in 1 .. HistMax
  PROVE  /\ At(nx, k) \in HistSlot
         /\ (nx + HistMax * 2 - k) % HistMax = At(nx, k)
<1>1. nx \in Nat /\ nx < HistMax /\ k \in Nat /\ 1 <= k /\ k <= HistMax /\ HistMax \in Nat
  BY SizesOfHistory DEF HistSlot
<1>2. At(nx, k) \in Nat /\ At(nx, k) < HistMax
  BY <1>1 DEF At
<1>3. CASE k <= nx
  <2>1. nx + HistMax * 2 - k = At(nx, k) + 2 * HistMax
    BY <1>1, <1>3 DEF At
  <2>2. (At(nx, k) + 2 * HistMax) % HistMax = At(nx, k)
    BY <1>1, <1>2, Turned
  <2>. QED
    BY <1>1, <1>2, <2>1, <2>2 DEF HistSlot
<1>4. CASE ~(k <= nx)
  <2>1. nx + HistMax * 2 - k = At(nx, k) + HistMax
    BY <1>1, <1>4 DEF At
  <2>2. \A x \in Nat : x < HistMax => (x + HistMax) % HistMax = x
    BY <1>1, Turned
  <2>3. (At(nx, k) + HistMax) % HistMax = At(nx, k)
    BY <1>2, <2>2
  <2>. QED
    BY <1>1, <1>2, <2>1, <2>3 DEF HistSlot
<1>. QED
  BY <1>3, <1>4

LEMMA AtNext ==
  ASSUME NEW nx \in HistSlot
  PROVE  LET to == (nx + 1) % HistMax
         IN  /\ to \in HistSlot /\ At(to, 1) = nx
             /\ \A k \in 1 .. HistMax - 1 : At(to, k + 1) = At(nx, k) /\ At(nx, k) # nx
<1>1. nx \in Nat /\ nx < HistMax /\ HistMax \in Nat /\ HistMax > 1
  BY SizesOfHistory DEF HistSlot
<1>. DEFINE to == (nx + 1) % HistMax
<1>2. to = IF nx + 1 < HistMax THEN nx + 1 ELSE 0
  <2>1. CASE nx + 1 < HistMax
    BY <1>1, <2>1
  <2>2. CASE ~(nx + 1 < HistMax)
    <3>1. nx + 1 = 0 + HistMax /\ (0 + HistMax) % HistMax = 0
      BY <1>1, <2>2
    <3>. QED
      BY <2>2, <3>1
  <2>. QED
    BY <2>1, <2>2
<1>. HIDE DEF to
<1>3. to \in HistSlot /\ At(to, 1) = nx
  BY <1>1, <1>2 DEF HistSlot, At
<1>4. \A k \in 1 .. HistMax - 1 : At(to, k + 1) = At(nx, k) /\ At(nx, k) # nx
  BY <1>1, <1>2 DEF At
<1>. QED
  BY <1>3, <1>4 DEF to

(* The ring holds the log, the last line just before the next slot.        *)
Ring ==
  /\ log \in Seq(Line) /\ count = Len(log)
  /\ \A k \in 1 .. count : hist[At(next, k)] = log[count + 1 - k]

LEMMA RingIsLog ==
  ASSUME LineTypeOK, Ring
  PROVE  HistoryIsLog
<1>1. ASSUME NEW n \in 0 .. count - 1 PROVE hist[SlotOf(n)] = log[n + 1]
  <2>. DEFINE k == count - n
  <2>0. next \in HistSlot /\ next \in Nat /\ count \in 0 .. HistMax
    BY Parts DEF HistSlot
  <2>1. k \in 1 .. HistMax /\ k \in 1 .. count /\ count + 1 - k = n + 1
    BY <2>0, SizesOfHistory
  <2>2. next + HistMax * 2 - count + n = next + HistMax * 2 - k
    BY <2>0, SizesOfHistory
  <2>. HIDE DEF k
  <2>3. SlotOf(n) = At(next, k)
    BY <2>0, <2>1, <2>2, AtIs DEF SlotOf
  <2>. QED
    BY <2>1, <2>3 DEF Ring
<1>. QED
  BY <1>1 DEF HistoryIsLog, Ring

(* sh_hist_add and the log agree on what repeats the line before.          *)
LEMMA RepeatsLast ==
  ASSUME LineTypeOK, Ring, NEW line
  PROVE  Repeats(line) <=> log # <<>> /\ Last(log) = line
<1>3. count \in Nat
  BY Parts, SizesOfHistory
<1>1. count = 0 <=> log = <<>>
  BY EmptySeq DEF Ring
<1>2. ASSUME count > 0 PROVE hist[LastSlot] = Last(log)
  <2>1. 1 \in 1 .. count /\ 1 \in 1 .. HistMax /\ count + 1 - 1 = Len(log) /\ next \in HistSlot
    BY <1>2, <1>3, Parts, SizesOfHistory DEF Ring
  <2>2. LastSlot = At(next, 1)
    <3>1. next \in Nat /\ next < HistMax
      BY <2>1, SizesOfHistory DEF HistSlot
    <3>2. At(next, 1) \in Nat /\ At(next, 1) < HistMax
      <4>1. At(next, 1) \in HistSlot
        BY <2>1, AtIs
      <4>. QED
        BY <4>1, SizesOfHistory DEF HistSlot
    <3>3. CASE next >= 1
      <4>1. next + HistMax - 1 = At(next, 1) + HistMax
        BY <3>1, <3>3, SizesOfHistory DEF At
      <4>2. (At(next, 1) + HistMax) % HistMax = At(next, 1)
        BY <3>2, SizesOfHistory
      <4>. QED
        BY <4>1, <4>2 DEF LastSlot
    <3>4. CASE ~(next >= 1)
      <4>1. next + HistMax - 1 = At(next, 1)
        BY <3>1, <3>4, SizesOfHistory DEF At
      <4>2. At(next, 1) % HistMax = At(next, 1)
        BY <3>2, SizesOfHistory
      <4>. QED
        BY <4>1, <4>2 DEF LastSlot
    <3>. QED
      BY <3>3, <3>4
  <2>. QED
    BY <2>1, <2>2 DEF Ring, Last
<1>. QED
  BY <1>1, <1>2, <1>3 DEF Repeats

LEMMA RingNext ==
  ASSUME LineTypeOK, Ring, HistAdd(out), log' = Logged(out)
  PROVE  /\ hist' \in [HistSlot -> Line] /\ next' \in HistSlot /\ count' \in 0 .. HistMax
         /\ Ring'
<1>1. hist \in [HistSlot -> Line] /\ next \in HistSlot /\ count \in 0 .. HistMax /\ out \in Line
  BY Parts
<1>2. CASE out = <<>> \/ Repeats(out)
  <2>1. UNCHANGED <<hist, count, next>> /\ log' = log
    BY <1>2, RepeatsLast DEF HistAdd, Logged
  <2>. QED
    BY <1>1, <2>1 DEF Ring
<1>3. CASE ~(out = <<>> \/ Repeats(out))
  <2>. DEFINE all == Append(log, out)
              to == (next + 1) % HistMax
  <2>1. /\ hist' = [hist EXCEPT ![next] = out] /\ next' = to
        /\ count' = IF count < HistMax THEN count + 1 ELSE count
        /\ log' = IF Len(all) > HistMax THEN Tail(all) ELSE all
    BY <1>3, RepeatsLast DEF HistAdd, Logged
  <2>2. /\ to \in HistSlot /\ At(to, 1) = next
        /\ \A k \in 1 .. HistMax - 1 : At(to, k + 1) = At(next, k) /\ At(next, k) # next
    BY <1>1, AtNext
  <2>3. /\ all \in Seq(Line) /\ all # <<>> /\ Len(all) = count + 1
        /\ \A i \in 1 .. count : all[i] = log[i]
        /\ all[count + 1] = out
    BY <1>1, AppendProperties DEF Ring
  <2>. HIDE DEF all, to
  <2>4. /\ Tail(all) \in Seq(Line) /\ Len(Tail(all)) = count
        /\ \A i \in 1 .. count : Tail(all)[i] = all[i + 1]
    <3>1. Tail(all) \in Seq(Line) /\ Len(Tail(all)) = Len(all) - 1
          /\ \A i \in 1 .. Len(Tail(all)) : Tail(all)[i] = all[i + 1]
      BY <2>3, HeadTailProperties
    <3>. QED
      BY <1>1, <2>3, <3>1, SizesOfHistory
  <2>5. hist' \in [HistSlot -> Line] /\ next' \in HistSlot /\ count' \in 0 .. HistMax
    BY <1>1, <2>1, <2>2, SizesOfHistory
  <2>6. log' \in Seq(Line) /\ count' = Len(log')
    BY <1>1, <2>1, <2>3, <2>4, SizesOfHistory
  <2>7. \A k \in 1 .. count' : log'[count' + 1 - k] = IF k = 1 THEN out ELSE log[count + 1 - (k - 1)]
    <3>1. CASE count < HistMax
      <4>1. log' = all /\ count' = count + 1
        BY <1>1, <2>1, <2>3, <3>1, SizesOfHistory
      <4>2. ASSUME NEW k \in 1 .. count'
            PROVE  all[count' + 1 - k] = IF k = 1 THEN out ELSE log[count + 1 - (k - 1)]
        BY <1>1, <2>3, <4>1, SizesOfHistory
      <4>. QED
        BY <4>1, <4>2
    <3>2. CASE ~(count < HistMax)
      <4>1. log' = Tail(all) /\ count' = count /\ count = HistMax
        BY <1>1, <2>1, <2>3, <3>2, SizesOfHistory
      <4>2. ASSUME NEW k \in 1 .. count'
            PROVE  Tail(all)[count' + 1 - k] = IF k = 1 THEN out ELSE log[count + 1 - (k - 1)]
        <5>1. count' + 1 - k \in 1 .. count /\ (count' + 1 - k) + 1 = count + 2 - k
          BY <1>1, <4>1, SizesOfHistory
        <5>2. Tail(all)[count' + 1 - k] = all[count + 2 - k]
          BY <2>4, <5>1
        <5>. QED
          BY <1>1, <2>3, <4>1, <5>2, SizesOfHistory
      <4>. QED
        BY <4>1, <4>2
    <3>. QED
      BY <3>1, <3>2
  <2>8. ASSUME NEW k \in 1 .. count' PROVE hist'[At(next', k)] = log'[count' + 1 - k]
    <3>1. CASE k = 1
      BY <1>1, <2>1, <2>2, <2>7, <3>1
    <3>2. CASE k # 1
      <4>. DEFINE j == k - 1
      <4>1. j \in 1 .. HistMax - 1 /\ j \in 1 .. count /\ k = j + 1
        BY <1>1, <2>1, <3>2, SizesOfHistory
      <4>2. At(next', k) = At(next, j) /\ At(next, j) # next
        BY <2>1, <2>2, <4>1
      <4>3. hist'[At(next, j)] = hist[At(next, j)]
        <5>1. At(next, j) \in HistSlot
          BY <1>1, <4>1, AtIs, SizesOfHistory
        <5>. QED
          BY <1>1, <2>1, <4>2, <5>1
      <4>4. hist[At(next, j)] = log[count + 1 - j]
        BY <4>1 DEF Ring
      <4>. QED
        BY <2>7, <3>2, <4>2, <4>3, <4>4
    <3>. QED
      BY <3>1, <3>2
  <2>. QED
    BY <2>5, <2>6, <2>8 DEF Ring
<1>. QED
  BY <1>2, <1>3

-----------------------------------------------------------------------------
(* The line on the screen, as long as it stays in its row.                 *)
Typed(line) == Prompt \o line
Upto(line) == Len(Prompt) + Len(line)
Shown == /\ Clean(screen) /\ wrapped \in BOOLEAN
         /\ ~wrapped => Upto(out) <= Width /\ Reads(screen, Typed(out), Upto(out))

LEMMA TypedParts ==
  ASSUME NEW line \in Line
  PROVE  /\ line \in Seq(Letters) /\ line \in Seq(Chars) /\ Prompt \in Seq(Chars)
         /\ Len(Prompt) \in Nat /\ Len(Prompt) < Width /\ Len(line) \in Nat /\ Upto(line) \in Nat
         /\ \A k \in 1 .. Len(Prompt) : Typed(line)[k] = Prompt[k]
         /\ \A k \in 1 .. Len(line) : Typed(line)[Len(Prompt) + k] = line[k]
         /\ Wraps(line) <=> ~(Upto(line) <= Width)
<1>1. line \in Seq(Letters)
  BY LineIsSeq
<1>2. Prompt \in Seq(Range(Prompt)) /\ Len(Prompt) < Width
  BY PromptAssumption
<1>3. Letters \subseteq Chars /\ Range(Prompt) \subseteq Chars
  BY DEF Chars
<1>4. line \in Seq(Chars)
  BY <1>1, <1>3, SeqMonotonic
<1>5. Prompt \in Seq(Chars)
  BY <1>2, <1>3, SeqMonotonic
<1>6. Len(line) \in Nat /\ Len(Prompt) \in Nat
  BY <1>4, <1>5, LenProperties
<1>7. \A i \in 1 .. Len(Prompt) + Len(line) :
        Typed(line)[i] = IF i <= Len(Prompt) THEN Prompt[i] ELSE line[i - Len(Prompt)]
  BY <1>4, <1>5, ConcatProperties DEF Typed
<1>8. \A k \in 1 .. Len(Prompt) : Typed(line)[k] = Prompt[k]
  BY <1>6, <1>7
<1>9. \A k \in 1 .. Len(line) : Typed(line)[Len(Prompt) + k] = line[k]
  <2>1. \A k \in 1 .. Len(line) :
          /\ Len(Prompt) + k \in 1 .. Len(Prompt) + Len(line) /\ ~(Len(Prompt) + k <= Len(Prompt))
          /\ (Len(Prompt) + k) - Len(Prompt) = k
    BY <1>6
  <2>. QED
    BY <1>7, <2>1
<1>10. Upto(line) \in Nat /\ (Wraps(line) <=> ~(Upto(line) <= Width))
  BY <1>6, SizesPositive DEF Upto, Wraps
<1>. QED
  BY <1>1, <1>2, <1>4, <1>5, <1>6, <1>8, <1>9, <1>10

(* A line printed behind the prompt.                                       *)
LEMMA LinePrinted ==
  ASSUME NEW s, NEW f, Reads(s, f, Len(Prompt)), \A k \in 1 .. Len(Prompt) : f[k] = Prompt[k],
         NEW line \in Line, Upto(line) <= Width
  PROVE  Reads(Puts(s, line), Typed(line), Upto(line))
<1>1. \A k \in 1 .. Len(Prompt) : f[k] = Typed(line)[k]
  BY TypedParts
<1>2. Reads(s, Typed(line), Len(Prompt))
  BY <1>1, TypedParts, ReadsAgree
<1>3. /\ line \in Seq(Chars) /\ Len(Prompt) \in Nat /\ Len(Prompt) + Len(line) <= Width
      /\ \A k \in 1 .. Len(line) : Typed(line)[Len(Prompt) + k] = line[k]
  BY TypedParts DEF Upto
<1>4. Reads(Puts(s, line), Typed(line), Len(Prompt) + Len(line))
  BY <1>2, <1>3, PutsReads
<1>. QED
  BY <1>4 DEF Upto

(* The prompt on an empty row.                                             *)
LEMMA Prompted ==
  ASSUME NEW s, Clean(s), Reads(s, Prompt, 0)
  PROVE  /\ Clean(Puts(s, Prompt)) /\ Upto(<<>>) <= Width
         /\ Reads(Puts(s, Prompt), Typed(<<>>), Upto(<<>>))
<1>1. Clean(Puts(s, Prompt))
  BY TypedParts, NoLine, PutsClean
<1>2. /\ Len(Prompt) \in Nat /\ Len(Prompt) < Width
      /\ Reads(Puts(s, Prompt), Prompt, Len(Prompt))
  BY PromptReads
<1>3. Upto(<<>>) = Len(Prompt) /\ Upto(<<>>) <= Width
  BY <1>2, NoLine, SizesPositive DEF Upto
<1>4. \A k \in 1 .. Len(Prompt) : Prompt[k] = Typed(<<>>)[k]
  BY NoLine, TypedParts
<1>5. Reads(Puts(s, Prompt), Typed(<<>>), Len(Prompt))
  BY <1>2, <1>4, ReadsAgree
<1>. QED
  BY <1>1, <1>3, <1>5

LEMMA ShowShown ==
  ASSUME Shown, out \in Line, NEW line \in Line, Show(line)
  PROVE  out' = line /\ Shown'
<1>1. /\ out' = line /\ screen' = Puts(Erase(screen, Len(out)), line)
      /\ wrapped' = (wrapped \/ Wraps(line))
  BY DEF Show, ShownInstead
<1>2. Clean(screen')
  <2>1. Clean(Erase(screen, Len(out)))
    BY TypedParts, EraseClean DEF Shown
  <2>. QED
    BY <1>1, <2>1, TypedParts, PutsClean
<1>3. ASSUME ~wrapped'
      PROVE  Upto(line) <= Width /\ Reads(screen', Typed(line), Upto(line))
  <2>1. ~wrapped /\ ~Wraps(line)
    BY <1>1, <1>3
  <2>2. Upto(line) <= Width
    BY <2>1, TypedParts
  <2>3. Reads(screen, Typed(out), Len(Prompt) + Len(out)) /\ Len(Prompt) + Len(out) <= Width
    BY <2>1 DEF Shown, Upto
  <2>4. Reads(Erase(screen, Len(out)), Typed(out), Len(Prompt))
    BY <2>3, TypedParts, EraseReads
  <2>5. Reads(Puts(Erase(screen, Len(out)), line), Typed(line), Upto(line))
    <3>1. \A k \in 1 .. Len(Prompt) : Typed(out)[k] = Prompt[k]
      BY TypedParts
    <3>. DEFINE e == Erase(screen, Len(out))
                f == Typed(out)
    <3>2. Reads(e, f, Len(Prompt)) /\ \A k \in 1 .. Len(Prompt) : f[k] = Prompt[k]
      BY <2>4, <3>1
    <3>. HIDE DEF e, f
    <3>3. Reads(Puts(e, line), Typed(line), Upto(line))
      BY <2>2, <3>2, LinePrinted
    <3>. QED
      BY <3>3 DEF e
  <2>. QED
    BY <1>1, <2>2, <2>5
<1>4. wrapped' \in BOOLEAN
  BY <1>1
<1>. QED
  BY <1>1, <1>2, <1>3, <1>4 DEF Shown

LEMMA LetterShown ==
  ASSUME Shown, out \in Line, NEW c \in Letters, Letter(c)
  PROVE  out' \in Line /\ Shown'
<1>1. wrapped' = (wrapped \/ Wraps(out')) /\ wrapped' \in BOOLEAN
  BY DEF Letter
<1>2. CASE ~HasRoom
  <2>1. out' = out /\ screen' = screen
    BY <1>2 DEF Letter
  <2>2. ~wrapped' => ~wrapped
    BY <1>1
  <2>. QED
    BY <1>1, <2>1, <2>2 DEF Shown
<1>3. CASE HasRoom
  <2>1. out' = Append(out, c) /\ screen' = PutChar(screen, c)
    BY <1>3 DEF Letter
  <2>2. /\ out \in Seq(Letters) /\ Len(out) \in Nat /\ out' \in Seq(Letters) /\ Len(out') = Len(out) + 1
        /\ \A i \in 1 .. Len(out) : out'[i] = out[i]
        /\ out'[Len(out) + 1] = c
    BY <2>1, TypedParts, AppendProperties
  <2>3. out' \in Line
    BY <1>3, <2>2, LineIsSeq, SizesOfHistory DEF HasRoom
  <2>4. Clean(screen')
    <3>1. c \in Chars
      BY DEF Chars
    <3>. QED
      BY <2>1, <3>1, PutClean DEF Shown
  <2>5. ASSUME ~wrapped'
        PROVE  Upto(out') <= Width /\ Reads(screen', Typed(out'), Upto(out'))
    <3>. DEFINE n == Upto(out)
                f == Typed(out)
                h == Typed(out')
    <3>1. ~wrapped /\ Upto(out') <= Width
      BY <1>1, <2>3, <2>5, TypedParts
    <3>2. Reads(screen, f, n) /\ n \in Nat /\ Upto(out') = n + 1 /\ n < Width
      BY <2>2, <3>1, TypedParts, SizesPositive DEF Shown, Upto
    <3>3. \A k \in 1 .. n : f[k] = h[k]
      <4>1. \A k \in 1 .. Len(Prompt) : f[k] = Prompt[k] /\ h[k] = Prompt[k]
        BY <2>3, TypedParts
      <4>2. \A k \in 1 .. Len(out) : f[Len(Prompt) + k] = out[k]
        BY TypedParts
      <4>3. \A k \in 1 .. Len(out) : h[Len(Prompt) + k] = out'[k]
        <5>1. \A k \in 1 .. Len(out') : h[Len(Prompt) + k] = out'[k]
          BY <2>3, TypedParts
        <5>2. 1 .. Len(out) \subseteq 1 .. Len(out')
          BY <2>2
        <5>. QED
          BY <5>1, <5>2
      <4>4. Len(Prompt) \in Nat /\ n = Len(Prompt) + Len(out)
        BY TypedParts DEF Upto
      <4>. HIDE DEF f, h, n
      <4>5. ASSUME NEW k \in 1 .. n, ~(k <= Len(Prompt)) PROVE f[k] = h[k]
        <5>1. k - Len(Prompt) \in 1 .. Len(out) /\ Len(Prompt) + (k - Len(Prompt)) = k
          BY <2>2, <4>4, <4>5
        <5>. QED
          BY <2>2, <4>2, <4>3, <5>1
      <4>6. ASSUME NEW k \in 1 .. n, k <= Len(Prompt) PROVE f[k] = h[k]
        BY <3>2, <4>1, <4>4, <4>6
      <4>. QED
        BY <4>5, <4>6
    <3>4. h[n + 1] = c
      <4>1. Len(out) + 1 \in 1 .. Len(out') /\ n + 1 = Len(Prompt) + (Len(out) + 1)
        BY <2>2, TypedParts DEF Upto
      <4>. QED
        BY <2>2, <2>3, <4>1, TypedParts
    <3>. HIDE DEF n, f, h
    <3>5. Reads(screen, h, n)
      BY <3>2, <3>3, ReadsAgree
    <3>6. h[n + 1] \in Chars
      BY <3>4 DEF Chars
    <3>7. Reads(PutChar(screen, h[n + 1]), h, n + 1)
      BY <3>2, <3>5, <3>6, PutReads
    <3>. QED
      BY <2>1, <3>1, <3>2, <3>4, <3>7 DEF h
  <2>. QED
    BY <1>1, <2>3, <2>4, <2>5 DEF Shown
<1>. QED
  BY <1>2, <1>3

LEMMA BackspaceShown ==
  ASSUME Shown, out \in Line, Backspace
  PROVE  out' \in Line /\ Shown'
<1>1. out # <<>> /\ out' = Front(out) /\ screen' = Erase(screen, 1) /\ wrapped' = wrapped
  BY DEF Backspace
<1>2. out \in Seq(Letters) /\ Len(out) \in Nat /\ Len(out) >= 1
  BY <1>1, TypedParts, EmptySeq
<1>3. /\ out' \in Seq(Letters) /\ Len(out') = Len(out) - 1
      /\ \A k \in 1 .. Len(out') : out'[k] = out[k]
  <2>1. /\ Front(out) \in Seq(Letters) /\ Len(Front(out)) = Len(out) - 1
        /\ \A k \in 1 .. Len(out) - 1 : Front(out)[k] = out[k]
    BY <1>1, <1>2, FrontOf
  <2>. QED
    BY <1>1, <2>1
<1>4. out' \in Line
  BY <1>2, <1>3, LineIsSeq, SizesOfHistory
<1>5. Clean(screen')
  BY <1>1, EraseClean DEF Shown
<1>6. ASSUME ~wrapped'
      PROVE  Upto(out') <= Width /\ Reads(screen', Typed(out'), Upto(out'))
  <2>. DEFINE n == Upto(out')
              f == Typed(out)
              h == Typed(out')
  <2>1. n \in Nat /\ Upto(out) = n + 1 /\ Reads(screen, f, n + 1) /\ n + 1 <= Width
    BY <1>1, <1>2, <1>3, <1>4, <1>6, TypedParts, SizesPositive DEF Shown, Upto
  <2>2. \A k \in 1 .. n : f[k] = h[k]
    <3>1. \A k \in 1 .. Len(Prompt) : f[k] = Prompt[k] /\ h[k] = Prompt[k]
      BY <1>4, TypedParts
    <3>2. \A k \in 1 .. Len(out) : f[Len(Prompt) + k] = out[k]
      BY TypedParts
    <3>3. \A k \in 1 .. Len(out') : h[Len(Prompt) + k] = out'[k]
      BY <1>4, TypedParts
    <3>4. Len(Prompt) \in Nat /\ n = Len(Prompt) + Len(out')
      BY <1>4, TypedParts DEF Upto
    <3>. HIDE DEF f, h, n
    <3>5. ASSUME NEW k \in 1 .. n, ~(k <= Len(Prompt)) PROVE f[k] = h[k]
      <4>1. k - Len(Prompt) \in 1 .. Len(out') /\ k - Len(Prompt) \in 1 .. Len(out)
            /\ Len(Prompt) + (k - Len(Prompt)) = k
        BY <1>2, <1>3, <3>4, <3>5
      <4>. QED
        BY <1>3, <3>2, <3>3, <4>1
    <3>6. ASSUME NEW k \in 1 .. n, k <= Len(Prompt) PROVE f[k] = h[k]
      BY <2>1, <3>1, <3>4, <3>6
    <3>. QED
      BY <3>5, <3>6
  <2>. HIDE DEF n, f, h
  <2>3. Reads(Erase(screen, 1), f, n)
    BY <2>1, EraseReads
  <2>4. Reads(Erase(screen, 1), h, n)
    BY <2>1, <2>2, <2>3, ReadsAgree
  <2>. QED
    BY <1>1, <2>1, <2>4, SizesPositive DEF n, h
<1>7. wrapped' \in BOOLEAN
  BY <1>1 DEF Shown
<1>. QED
  BY <1>4, <1>5, <1>6, <1>7 DEF Shown

LEMMA EnterShown ==
  ASSUME Shown, Enter
  PROVE  out' \in Line /\ Shown'
<1>1. /\ out' = <<>> /\ wrapped' = FALSE
      /\ screen' = Puts(NewLine(screen), Prompt) \/ screen' = Puts(Cleared, Prompt)
  BY DEF Enter
<1>2. \E s : Clean(s) /\ Reads(s, Prompt, 0) /\ screen' = Puts(s, Prompt)
  BY <1>1, NewLineClean, ClearedClean DEF Shown
<1>3. Clean(screen') /\ Upto(<<>>) <= Width /\ Reads(screen', Typed(<<>>), Upto(<<>>))
  BY <1>2, Prompted
<1>. QED
  BY <1>1, <1>3, NoLine DEF Shown

-----------------------------------------------------------------------------
(* The inductive invariant of the editor.                                  *)
LineIInv == LineTypeOK /\ Ring /\ Shown

LEMMA LineInitSound == LineInit => LineIInv
<1>. SUFFICES ASSUME LineInit PROVE LineIInv
  OBVIOUS
<1>1. /\ out = <<>> /\ nav = 0 /\ escape = "none" /\ count = 0 /\ next = 0
      /\ hist = [i \in HistSlot |-> <<>>] /\ log = <<>>
      /\ screen = Puts(Cleared, Prompt) /\ wrapped = FALSE
  BY DEF LineInit
<1>2. Clean(screen) /\ Upto(<<>>) <= Width /\ Reads(screen, Typed(<<>>), Upto(<<>>))
  BY <1>1, ClearedClean, Prompted
<1>3. Shown
  BY <1>1, <1>2 DEF Shown
<1>4. Ring
  <2>1. log \in Seq(Line) /\ Len(log) = 0
    BY <1>1, EmptySeq
  <2>. QED
    BY <1>1, <2>1 DEF Ring
<1>5. screen.row \in 0 .. Height - 1 /\ screen.col \in 0 .. Width
  BY <1>2, ScreenParts DEF Clean, Rows
<1>6. hist \in [HistSlot -> Line] /\ next \in HistSlot /\ count \in 0 .. HistMax /\ nav \in 0 .. count
  BY <1>1, NoLine, SizesOfHistory DEF HistSlot
<1>7. LineTypeOK
  BY <1>1, <1>5, <1>6, NoLine DEF LineTypeOK
<1>. QED
  BY <1>3, <1>4, <1>7 DEF LineIInv

(* A step of the invariant from its parts.                                 *)
LEMMA Whole ==
  ASSUME out' \in Line, hist' \in [HistSlot -> Line], count' \in 0 .. HistMax, nav' \in 0 .. count',
         next' \in HistSlot, escape' \in {"none", "ESC", "ESC [", "ESC ?"}, Ring', Shown'
  PROVE  LineIInv'
<1>1. screen'.row \in 0 .. Height - 1 /\ screen'.col \in 0 .. Width
  BY ScreenParts DEF Shown, Clean, Rows
<1>2. wrapped' \in BOOLEAN
  BY DEF Shown
<1>3. LineTypeOK'
  BY <1>1, <1>2, Zenon DEF LineTypeOK
<1>. QED
  BY <1>3 DEF LineIInv

(* The line that a walk through the history shows.                         *)
Walks ==
  /\ nav' \in {nav - 1, nav + 1} /\ nav' \in 0 .. count
  /\ Show(IF nav' = Len(log) THEN <<>> ELSE log[nav' + 1])
Stays == UNCHANGED <<nav, out, screen, wrapped>>

LEMMA LogLine ==
  ASSUME LineIInv, NEW n \in 0 .. count - 1
  PROVE  hist[SlotOf(n)] = log[n + 1] /\ log[n + 1] \in Line /\ n # Len(log)
<1>1. hist[SlotOf(n)] = log[n + 1]
  BY RingIsLog DEF LineIInv, HistoryIsLog
<1>2. count \in Nat /\ count = Len(log) /\ log \in Seq(Line)
  BY Parts, SizesOfHistory DEF LineIInv, Ring
<1>3. n + 1 \in 1 .. Len(log) /\ n # Len(log)
  BY <1>2
<1>. QED
  BY <1>1, <1>2, <1>3, ElementOfSeq

LEMMA UpWalks == ASSUME LineIInv, Up PROVE Walks \/ Stays
<1>1. CASE count > 0 /\ nav > 0
  <2>1. nav' = nav - 1 /\ Show(hist[SlotOf(nav - 1)])
    BY <1>1 DEF Up
  <2>2. nav - 1 \in 0 .. count - 1 /\ nav - 1 \in 0 .. count /\ nav - 1 + 1 = nav
    BY <1>1, Parts, SizesOfHistory DEF LineIInv
  <2>3. hist[SlotOf(nav - 1)] = log[nav - 1 + 1] /\ nav - 1 # Len(log)
    BY <2>2, LogLine
  <2>. QED
    BY <2>1, <2>2, <2>3 DEF Walks
<1>2. CASE ~(count > 0 /\ nav > 0)
  BY <1>2 DEF Up, Stays
<1>. QED
  BY <1>1, <1>2

LEMMA DownWalks == ASSUME LineIInv, Down PROVE Walks \/ Stays
<1>1. CASE nav < count
  <2>1. nav' = nav + 1 /\ Show(IF nav + 1 = count THEN <<>> ELSE hist[SlotOf(nav + 1)])
    BY <1>1 DEF Down
  <2>2. nav + 1 \in 0 .. count /\ (nav + 1 # count => nav + 1 \in 0 .. count - 1) /\ count = Len(log)
    BY <1>1, Parts, SizesOfHistory DEF LineIInv, Ring
  <2>3. nav + 1 # count => hist[SlotOf(nav + 1)] = log[(nav + 1) + 1]
    BY <2>2, LogLine
  <2>. QED
    BY <2>1, <2>2, <2>3 DEF Walks
<1>2. CASE ~(nav < count)
  BY <1>2 DEF Down, Stays
<1>. QED
  BY <1>1, <1>2

LEMMA WalkShown ==
  ASSUME LineIInv, Walks \/ Stays
  PROVE  out' \in Line /\ nav' \in 0 .. count /\ Shown'
<1>0. out \in Line /\ nav \in 0 .. count /\ count \in Nat /\ Shown
  BY Parts, SizesOfHistory DEF LineIInv
<1>1. CASE Stays
  BY <1>0, <1>1 DEF Stays, Shown
<1>2. CASE Walks
  <2>. DEFINE line == IF nav' = Len(log) THEN <<>> ELSE log[nav' + 1]
  <2>1. nav' \in 0 .. count /\ Show(line)
    BY <1>2 DEF Walks
  <2>2. line \in Line
    <3>1. CASE nav' = Len(log)
      BY <3>1, NoLine
    <3>2. CASE nav' # Len(log)
      <4>1. nav' \in 0 .. count - 1
        BY <1>0, <2>1, <3>2 DEF LineIInv, Ring
      <4>. QED
        BY <3>2, <4>1, LogLine
    <3>. QED
      BY <3>1, <3>2
  <2>. HIDE DEF line
  <2>. QED
    BY <1>0, <2>1, <2>2, ShowShown
<1>. QED
  BY <1>1, <1>2

(* After an escape sequence the line changes only by a walk.               *)
LEMMA EndEscapeWalks ==
  ASSUME LineIInv, NEW c, EndEscape(c)
  PROVE  (Walks \/ Stays) /\ escape' = "none" /\ UNCHANGED histVars
BY UpWalks, DownWalks DEF EndEscape, Stays

LEMMA LineStep == ASSUME LineIInv, LineNext PROVE LineIInv'
<1>0. /\ out \in Line /\ hist \in [HistSlot -> Line] /\ count \in 0 .. HistMax
      /\ nav \in 0 .. count /\ next \in HistSlot /\ escape \in {"none", "ESC", "ESC [", "ESC ?"}
      /\ LineTypeOK /\ Ring /\ Shown
  BY Zenon DEF LineIInv, LineTypeOK
<1>h. ASSUME UNCHANGED histVars, out' \in Line, nav' \in 0 .. count,
             escape' \in {"none", "ESC", "ESC [", "ESC ?"}, Shown'
      PROVE  LineIInv'
  <2>1. hist' = hist /\ count' = count /\ next' = next /\ log' = log
    BY <1>h DEF histVars
  <2>2. Ring'
    BY <1>0, <2>1 DEF Ring
  <2>. QED
    BY <1>0, <1>h, <2>1, <2>2, Whole
<1>1. ASSUME NEW c \in Letters, Letter(c) PROVE LineIInv'
  <2>1. nav' = nav /\ escape' = escape /\ UNCHANGED histVars
    BY <1>1 DEF Letter
  <2>. QED
    BY <1>0, <1>1, <1>h, <2>1, LetterShown
<1>2. ASSUME NEW c \in Keys, AfterEscape(c) PROVE LineIInv'
  <2>1. /\ UNCHANGED <<out, nav, screen, wrapped>> /\ UNCHANGED histVars
        /\ escape' \in {"none", "ESC", "ESC [", "ESC ?"}
    BY <1>2 DEF AfterEscape
  <2>2. Shown'
    BY <1>0, <2>1 DEF Shown
  <2>. QED
    BY <1>0, <1>h, <2>1, <2>2
<1>3. ASSUME NEW c \in Keys, EndEscape(c) PROVE LineIInv'
  <2>1. (Walks \/ Stays) /\ escape' = "none" /\ UNCHANGED histVars
    BY <1>3, EndEscapeWalks
  <2>2. out' \in Line /\ nav' \in 0 .. count /\ Shown'
    BY <2>1, WalkShown
  <2>. QED
    BY <1>h, <2>1, <2>2
<1>4. CASE Backspace
  <2>1. nav' = nav /\ escape' = escape /\ UNCHANGED histVars
    BY <1>4 DEF Backspace
  <2>. QED
    BY <1>0, <1>4, <1>h, <2>1, BackspaceShown
<1>5. CASE Escape
  <2>1. /\ UNCHANGED <<out, nav, screen, wrapped>> /\ UNCHANGED histVars
        /\ escape' \in {"none", "ESC", "ESC [", "ESC ?"}
    BY <1>5 DEF Escape
  <2>2. Shown'
    BY <1>0, <2>1 DEF Shown
  <2>. QED
    BY <1>0, <1>h, <2>1, <2>2
<1>6. CASE Enter
  <2>1. HistAdd(out) /\ log' = Logged(out) /\ nav' = count' /\ escape' = escape
    BY <1>6 DEF Enter
  <2>2. /\ hist' \in [HistSlot -> Line] /\ next' \in HistSlot /\ count' \in 0 .. HistMax
        /\ Ring'
    BY <1>0, <2>1, RingNext
  <2>3. out' \in Line /\ Shown'
    BY <1>0, <1>6, EnterShown
  <2>4. nav' \in 0 .. count'
    BY <2>1, <2>2, SizesOfHistory
  <2>. QED
    BY <1>0, <2>1, <2>2, <2>3, <2>4, Whole
<1>. QED
  BY <1>1, <1>2, <1>3, <1>4, <1>5, <1>6 DEF LineNext

LEMMA LineStutter == ASSUME LineIInv, UNCHANGED lineVars PROVE LineIInv'
<1>1. /\ out' = out /\ nav' = nav /\ escape' = escape /\ hist' = hist /\ count' = count
      /\ next' = next /\ screen' = screen /\ log' = log /\ wrapped' = wrapped
  BY DEF lineVars
<1>. QED
  BY <1>1 DEF LineIInv, LineTypeOK, Ring, Shown

-----------------------------------------------------------------------------
(* Line, ring and screen keep the inductive invariant through every key of *)
(* sh_read_line.                                                           *)
THEOREM EditorSound == LineSpec => []LineIInv
<1>1. LineIInv /\ [LineNext]_lineVars => LineIInv'
  BY LineStep, LineStutter
<1>. QED
  BY <1>1, LineInitSound, PTL DEF LineSpec

(* sh_hist_add and the walks stay in the buffers, and the ring is the last *)
(* HistMax lines that were run, in their order, however often it turned.   *)
THEOREM HistoryRight == LineSpec => []HistorySound
<1>1. LineIInv => HistorySound
  BY RingIsLog DEF LineIInv, HistorySound
<1>. QED
  BY <1>1, EditorSound, PTL

(* What stands on the row is the prompt and the line that will run, and    *)
(* nothing else, whatever was typed, erased and recalled, as long as the   *)
(* line did not leave its row.                                             *)
THEOREM LineAsShown == LineSpec => []WhatYouSee
<1>1. ASSUME LineIInv PROVE WhatYouSee
  <2>1. SUFFICES ASSUME ~wrapped
                 PROVE  /\ screen.col = Len(Prompt) + Len(out)
                        /\ \A x \in 0 .. Width - 1 :
                             ShownRow[x] = IF x < screen.col THEN (Prompt \o out)[x + 1] ELSE Space
    BY DEF WhatYouSee
  <2>2. Reads(screen, Typed(out), Upto(out))
    BY <1>1, <2>1 DEF LineIInv, Shown
  <2>. QED
    BY <2>2 DEF Reads, Typed, Upto, ShownRow, Cols
<1>. QED
  BY <1>1, EditorSound, PTL

(* An arrow key goes one line up or down the log and puts that line in the *)
(* place of the one being typed, past the last an empty one.               *)
THEOREM HistoryWalked == LineSpec => WalksTheLog
<1>. DEFINE Walked == escape # "none" /\ nav' # nav =>
              /\ nav' \in {nav - 1, nav + 1}
              /\ out' = IF nav' = Len(log) THEN <<>> ELSE log[nav' + 1]
<1>1. ASSUME LineIInv, LineNext PROVE Walked
  <2>1. SUFFICES ASSUME escape # "none", nav' # nav
                 PROVE  /\ nav' \in {nav - 1, nav + 1}
                        /\ out' = IF nav' = Len(log) THEN <<>> ELSE log[nav' + 1]
    OBVIOUS
  <2>2. PICK c \in Keys : EndEscape(c)
    BY <1>1, <2>1 DEF LineNext, Letter, AfterEscape, Backspace, Escape, Enter
  <2>3. Walks
    BY <1>1, <2>1, <2>2, EndEscapeWalks DEF Stays
  <2>. QED
    BY <2>3 DEF Walks, Show
<1>2. LineIInv /\ [LineNext]_lineVars => [Walked]_lineVars
  BY <1>1
<1>3. LineSpec => [][Walked]_lineVars
  BY <1>2, EditorSound, PTL DEF LineSpec
<1>. QED
  BY <1>3 DEF WalksTheLog

(***************************************************************************)
(* The sessions.                                                           *)
(***************************************************************************)
USE UsersAssumption, SizesAssumption, TreeAssumption, PiecesAssumption, ErrorsAssumption

Piece == Names \X Nat

(* The prompt's path is a sequence of pieces.                              *)
PathTyped == shown \in Seq(Piece)

(* No list that is written holds a user twice or does not fit.             *)
Single(list) == \A i, j \in DOMAIN list : list[i][1] = list[j][1] => i = j
Sound(list) == list \in Seq(Account) /\ Len(list) <= DbMax /\ Single(list)
ListsSound == Sound(accounts) /\ Sound(plan) /\ (open => Len(accounts) <= 1)

(* Where the shell starts and where it waits, the prompt's path is in sync *)
(* and a guest in the root; a machine starts in the root.                  *)
AtPrompt == pc \in {"prompt", "register"}
PathSound ==
  /\ pc \in {"boot", "start"} => cwd = <<>>
  /\ AtPrompt /\ ~strange => InSync
  /\ AtPrompt /\ user = Guest => cwd = <<>> /\ shown = <<>>
  /\ AtPrompt /\ cwd # <<>> /\ ~over => entrant = user

IInv == TypeOK /\ PathTyped /\ ListsSound /\ PathSound

LEMMA LessTimes ==
  ASSUME NEW a \in Nat, NEW b \in Nat, NEW c \in Nat, b <= c PROVE a * b <= a * c
<1>1. c - b \in Nat /\ c = b + (c - b)
  OBVIOUS
<1>2. a * c = a * b + a * (c - b)
  BY <1>1
<1>3. a * (c - b) \in Nat
  BY <1>1
<1>4. a * b \in Nat
  OBVIOUS
<1>. QED
  BY <1>2, <1>3, <1>4

LEMMA EmptyFits ==
  ASSUME NEW s, s = <<>> PROVE s \in Seq(Piece) /\ PieceLen * Len(s) < PathMax
<1>1. s \in Seq(Piece) /\ Len(s) = 0 /\ PieceLen * 0 = 0
  OBVIOUS
<1>. QED
  BY <1>1

(* sh_cwd_pop shortens the path by one piece.                              *)
LEMMA PoppedFits ==
  ASSUME PathTyped, PieceLen * Len(shown) < PathMax
  PROVE  Popped \in Seq(Piece) /\ PieceLen * Len(Popped) < PathMax
<1>1. CASE shown = <<>>
  BY <1>1, EmptyFits DEF Popped
<1>2. CASE shown # <<>>
  <2>1. Popped \in Seq(Piece) /\ Len(shown) \in Nat \ {0} /\ Len(Popped) = Len(shown) - 1
    BY <1>2, FrontOf DEF Popped, PathTyped
  <2>2. PieceLen * Len(Popped) <= PieceLen * Len(shown)
    BY <2>1, LessTimes
  <2>3. PieceLen * Len(Popped) \in Nat /\ PieceLen * Len(shown) \in Nat
    BY <2>1
  <2>. QED
    BY <2>1, <2>2, <2>3
<1>. QED
  BY <1>1, <1>2

(* sh_cwd_push adds the pieces of the name if they fit.                    *)
LEMMA PushedFits ==
  ASSUME PathTyped, PieceLen * Len(shown) < PathMax, NEW d \in Names
  PROVE  Pushed(d) \in Seq(Piece) /\ PieceLen * Len(Pushed(d)) < PathMax
<1>1. CASE ~FitsPath(d)
  BY <1>1 DEF Pushed, PathTyped
<1>2. CASE FitsPath(d)
  <2>1. Display(d) \in Seq(Piece) /\ Len(Display(d)) = Pieces[d]
    BY DEF Display, Piece
  <2>2. Pushed(d) = shown \o Display(d)
    BY <1>2 DEF Pushed
  <2>3. Len(shown) \in Nat /\ Pieces[d] \in Nat
    BY LenProperties DEF PathTyped
  <2>4. ASSUME NEW e \in Seq(Piece)
        PROVE  shown \o e \in Seq(Piece) /\ Len(shown \o e) = Len(shown) + Len(e)
    BY ConcatProperties DEF PathTyped
  <2>5. Pushed(d) \in Seq(Piece) /\ Len(Pushed(d)) = Len(shown) + Pieces[d]
    BY <2>1, <2>2, <2>4
  <2>. QED
    BY <1>2, <2>5 DEF FitsPath
<1>. QED
  BY <1>1, <1>2

LEMMA AppendSingle ==
  ASSUME NEW list \in Seq(Account), Single(list), NEW u \in Users, NEW p \in Passwords,
         ~Exists(list, u, p)
  PROVE  Single(Append(list, <<u, p>>))
<1>. DEFINE all == Append(list, <<u, p>>)
<1>1. Len(list) \in Nat /\ DOMAIN list = 1 .. Len(list) /\ DOMAIN all = 1 .. Len(list) + 1
  BY AppendProperties, LenProperties DEF Account
<1>2. all[Len(list) + 1] = <<u, p>> /\ \A i \in 1 .. Len(list) : all[i] = list[i]
  BY AppendProperties DEF Account
<1>3. \A i \in 1 .. Len(list) : list[i][1] # u
  BY <1>1 DEF Exists
<1>. HIDE DEF all
<1>4. SUFFICES ASSUME NEW i \in DOMAIN all, NEW j \in DOMAIN all, all[i][1] = all[j][1]
               PROVE  i = j
  BY DEF Single, all
<1>5. CASE i \in 1 .. Len(list) /\ j \in 1 .. Len(list)
  BY <1>1, <1>2, <1>4, <1>5 DEF Single
<1>6. CASE i = Len(list) + 1 /\ j = Len(list) + 1
  BY <1>6
<1>7. CASE i = Len(list) + 1 /\ j \in 1 .. Len(list)
  <2>1. all[i][1] = u /\ all[j] = list[j]
    BY <1>2, <1>7
  <2>. QED
    BY <1>3, <1>4, <1>7, <2>1
<1>8. CASE j = Len(list) + 1 /\ i \in 1 .. Len(list)
  <2>1. all[j][1] = u /\ all[i] = list[i]
    BY <1>2, <1>8
  <2>. QED
    BY <1>3, <1>4, <1>8, <2>1
<1>. QED
  BY <1>1, <1>5, <1>6, <1>7, <1>8

(* What is put behind an open last line leaves one line, of an account.    *)
LEMMA LastOfOne ==
  ASSUME NEW list \in Seq(Account), list # <<>>
  PROVE  Last(list) \in Account
<1>1. Len(list) \in Nat \ {0} /\ Len(list) \in 1 .. Len(list)
  BY EmptySeq, LenProperties
<1>. QED
  BY <1>1 DEF Last

LEMMA GluedAccounts ==
  ASSUME NEW line \in Account, NEW u PROVE Glued(line, u) \subseteq Account
BY DEF Glued, Account

(* What sh_read_users returns, and whatever replaces the file, is sound.   *)
LEMMA NoneSound == Sound(<<>>)
BY EmptySeq DEF Sound, Single

LEMMA OneSound == ASSUME NEW a \in Account PROVE Sound(<<a>>)
<1>1. <<a>> \in Seq(Account) /\ Len(<<a>>) = 1 /\ DOMAIN <<a>> = {1}
  OBVIOUS
<1>. QED
  BY <1>1 DEF Sound, Single

LEMMA ReadingSound ==
  ASSUME Sound(accounts), NEW list \in Readings PROVE Sound(list)
BY NoneSound DEF Readings

LEMMA RegisteredSound ==
  ASSUME NEW list, Sound(list), NEW u \in Users, NEW p \in Passwords,
         ~Exists(list, u, p), Fits(list), NEW new \in Extended(list, u, p),
         open => Len(list) <= 1
  PROVE  Sound(new)
<1>1. CASE new = Append(list, <<u, p>>)
  <2>1. Single(Append(list, <<u, p>>))
    BY AppendSingle DEF Sound
  <2>2. Append(list, <<u, p>>) \in Seq(Account) /\ Len(Append(list, <<u, p>>)) = Len(list) + 1
    BY AppendProperties DEF Sound, Account
  <2>3. Len(list) \in Nat
    BY LenProperties DEF Sound
  <2>. QED
    BY <1>1, <2>1, <2>2, <2>3 DEF Fits, Sound
<1>2. ASSUME list # <<>>, open, NEW line \in Glued(Last(list), u), new = Append(Front(list), line)
      PROVE  Sound(new)
  <2>1. line \in Account
    BY <1>2, LastOfOne, GluedAccounts DEF Sound
  <2>2. Front(list) \in Seq(Account) /\ Len(Front(list)) = 0
    BY <1>2, FrontOf DEF Sound
  <2>3. Front(list) = <<>>
    BY <2>2, EmptySeq
  <2>4. Append(<<>>, line) = <<line>>
    OBVIOUS
  <2>. QED
    BY <1>2, <2>1, <2>3, <2>4, OneSound
<1>. QED
  BY <1>1, <1>2 DEF Extended

(* Only register, and the commands that replace USERS.DAT, change a list.  *)
LEMMA ListsNext == ASSUME ListsSound, [Next]_vars PROVE ListsSound'
<1>1. ASSUME NEW u \in Users, NEW p \in Passwords, Register(u, p) PROVE ListsSound'
  <2>1. PICK list \in Readings :
          ~Exists(list, u, p) /\ Fits(list) /\ plan' \in Extended(list, u, p)
    BY <1>1 DEF Register
  <2>2. Sound(list)
    BY ReadingSound DEF ListsSound
  <2>3. open => Len(list) <= 1
    BY EmptySeq DEF Readings, ListsSound
  <2>4. Sound(plan')
    BY <2>1, <2>2, <2>3, RegisteredSound
  <2>. QED
    BY <1>1, <2>4 DEF Register, ListsSound, diskVars, Sound, Single
<1>2. CASE ReplaceUsers
  <2>1. CASE accounts' = <<>> /\ open' = FALSE
    BY <1>2, <2>1, NoneSound DEF ReplaceUsers, ListsSound, Sound, Single
  <2>2. ASSUME NEW line \in Account, accounts' = <<line>> PROVE ListsSound'
    <3>1. Sound(<<line>>) /\ Len(<<line>>) <= 1
      BY OneSound
    <3>. QED
      BY <1>2, <2>2, <3>1 DEF ReplaceUsers, ListsSound, Sound, Single
  <2>. QED
    BY <1>2, <2>1, <2>2 DEF ReplaceUsers
<1>3. CASE RegisterWrites
  <2>1. Sound(accounts') /\ plan' = <<>> /\ (open' => Len(accounts') <= 1)
    BY <1>3, NoneSound DEF RegisterWrites, ListsSound
  <2>. QED
    BY <2>1, NoneSound DEF ListsSound, Sound, Single
<1>4. ASSUME UNCHANGED <<accounts, open, plan>> PROVE ListsSound'
  BY <1>4 DEF ListsSound, Sound, Single
<1>5. CASE Booting
  BY <1>4, <1>5 DEF Booting, FsBringup, Start, diskVars
<1>6. CASE UNCHANGED vars
  BY <1>4, <1>6 DEF vars
<1>7. CASE ClimbUp \/ ClimbFails \/ ClimbDone
  BY <1>4, <1>7 DEF ClimbUp, ClimbFails, ClimbDone, diskVars, vars
<1>8. ASSUME NEW u \in Users, NEW p \in Passwords, Login(u, p) PROVE ListsSound'
  BY <1>4, <1>8 DEF Login, diskVars
<1>9. CASE Logout \/ CdUp \/ CdRoot \/ Reboot \/ Leave
  BY <1>4, <1>9 DEF Logout, CdUp, CdRoot, Reboot, Leave, diskVars
<1>10. ASSUME NEW d \in Names, Cd(d) PROVE ListsSound'
  BY <1>4, <1>10 DEF Cd, diskVars
<1>. QED
  BY <1>1, <1>2, <1>3, <1>5, <1>6, <1>7, <1>8, <1>9, <1>10 DEF Next, Commands, Running

-----------------------------------------------------------------------------
(* The path without a slash that is pushed, or popped, stays in sync.      *)
Shows(path) == [i \in DOMAIN path |-> <<path[i], 1>>]

LEMMA ShowsType ==
  ASSUME NEW path \in Seq(Names)
  PROVE  /\ Shows(path) \in Seq(Piece) /\ Len(Shows(path)) = Len(path)
         /\ \A i \in 1 .. Len(path) : Shows(path)[i] = <<path[i], 1>>
<1>1. Len(path) \in Nat /\ DOMAIN path = 1 .. Len(path) /\ \A i \in 1 .. Len(path) : path[i] \in Names
  BY LenProperties
<1>2. Shows(path) \in [1 .. Len(path) -> Piece]
  BY <1>1 DEF Shows, Piece
<1>. QED
  BY <1>1, <1>2 DEF Shows

LEMMA ShowsAppend ==
  ASSUME NEW path \in Seq(Names), NEW d \in Names, Pieces[d] = 1
  PROVE  Shows(path) \o Display(d) = Shows(Append(path, d))
<1>. DEFINE s == Shows(path) e == Display(d) t == Shows(Append(path, d)) n == Len(path)
<1>1. n \in Nat /\ Append(path, d) \in Seq(Names) /\ Len(Append(path, d)) = n + 1
      /\ Append(path, d)[n + 1] = d /\ \A i \in 1 .. n : Append(path, d)[i] = path[i]
  BY AppendProperties, LenProperties
<1>2. s \in Seq(Piece) /\ Len(s) = n /\ \A i \in 1 .. n : s[i] = <<path[i], 1>>
  BY ShowsType
<1>3. e \in Seq(Piece) /\ Len(e) = 1 /\ e[1] = <<d, 1>>
  BY DEF Display, Piece
<1>4. /\ t \in Seq(Piece) /\ Len(t) = n + 1
      /\ \A i \in 1 .. n + 1 : t[i] = <<Append(path, d)[i], 1>>
  <2>. DEFINE a == Append(path, d)
  <2>1. a \in Seq(Names) /\ Len(a) = n + 1
    BY <1>1
  <2>. HIDE DEF a, n
  <2>2. /\ Shows(a) \in Seq(Piece) /\ Len(Shows(a)) = n + 1
        /\ \A i \in 1 .. n + 1 : Shows(a)[i] = <<a[i], 1>>
    BY <2>1, ShowsType
  <2>. QED
    BY <2>2 DEF a
<1>. HIDE DEF s, e, t, n
<1>x. /\ s \o e \in Seq(Piece) /\ Len(s \o e) = Len(s) + Len(e)
       /\ \A i \in 1 .. Len(s) + Len(e) : (s \o e)[i] = IF i <= Len(s) THEN s[i] ELSE e[i - Len(s)]
  <2>1. s \in Seq(Piece) /\ e \in Seq(Piece)
    BY <1>2, <1>3
  <2>. QED
    BY <2>1, ConcatProperties, SMTT(30)
<1>5. /\ s \o e \in Seq(Piece) /\ Len(s \o e) = n + 1
      /\ \A i \in 1 .. n + 1 : (s \o e)[i] = IF i <= n THEN s[i] ELSE e[i - n]
  BY <1>2, <1>3, <1>x
<1>6. ASSUME NEW i \in 1 .. n + 1 PROVE (s \o e)[i] = t[i]
  <2>. DEFINE x == (s \o e)[i]
  <2>1. CASE i \in 1 .. n
    <3>1. i <= n /\ i \in 1 .. n + 1
      BY <1>1, <2>1
    <3>2. x = s[i]
      BY <1>5, <3>1
    <3>3. s[i] = <<path[i], 1>>
      BY <1>2, <2>1
    <3>4. t[i] = <<path[i], 1>>
      <4>1. t[i] = <<Append(path, d)[i], 1>>
        BY <1>4, <3>1
      <4>2. Append(path, d)[i] = path[i]
        BY <1>1, <2>1
      <4>. QED
        BY <4>1, <4>2
    <3>. HIDE DEF x
    <3>5. x = t[i]
      BY <3>2, <3>3, <3>4
    <3>. QED
      BY <3>5 DEF x
  <2>2. CASE i = n + 1
    <3>1. ~(i <= n) /\ i - n = 1
      BY <1>1, <2>2
    <3>2. x = e[1]
      BY <1>5, <3>1
    <3>3. t[i] = <<d, 1>>
      BY <1>1, <1>4, <2>2
    <3>. HIDE DEF x
    <3>4. x = t[i]
      BY <1>3, <3>2, <3>3
    <3>. QED
      BY <3>4 DEF x
  <2>3. i \in 1 .. n \/ i = n + 1
    BY <1>1
  <2>. HIDE DEF x
  <2>. QED
    BY <2>1, <2>2, <2>3, Zenon
<1>7. s \o e = t
  BY <1>4, <1>5, <1>6, SeqEqual
<1>. QED
  BY <1>7 DEF s, e, t

LEMMA ShowsFront ==
  ASSUME NEW path \in Seq(Names), path # <<>>
  PROVE  Shows(path) # <<>> /\ Front(Shows(path)) = Shows(Front(path))
<1>. DEFINE s == Front(Shows(path)) t == Shows(Front(path)) m == Len(path) - 1
<1>1. Front(path) \in Seq(Names) /\ Len(path) \in Nat \ {0} /\ Len(Front(path)) = m
      /\ \A i \in 1 .. m : Front(path)[i] = path[i]
  BY FrontOf
<1>2. Shows(path) \in Seq(Piece) /\ Len(Shows(path)) = Len(path)
      /\ \A i \in 1 .. Len(path) : Shows(path)[i] = <<path[i], 1>>
  BY ShowsType
<1>3. Shows(path) # <<>>
  BY <1>1, <1>2, EmptySeq
<1>4. s \in Seq(Piece) /\ Len(s) = m /\ \A i \in 1 .. m : s[i] = Shows(path)[i]
  BY <1>2, <1>3, FrontOf
<1>5. t \in Seq(Piece) /\ Len(t) = m /\ \A i \in 1 .. m : t[i] = <<Front(path)[i], 1>>
  BY <1>1, ShowsType
<1>6. ASSUME NEW i \in 1 .. m PROVE s[i] = t[i]
  <2>1. i \in 1 .. Len(path)
    BY <1>1
  <2>2. s[i] = <<path[i], 1>>
    BY <1>2, <1>4, <2>1
  <2>3. t[i] = <<path[i], 1>>
    BY <1>1, <1>5
  <2>. QED
    BY <2>2, <2>3
<1>. HIDE DEF s, t, m
<1>7. s = t
  BY <1>4, <1>5, <1>6, SeqEqual
<1>. QED
  BY <1>3, <1>7 DEF s, t

LEMMA ShowsEmpty == Shows(<<>>) = <<>>
BY DEF Shows

LEMMA InSyncShows == InSync <=> shown = Shows(cwd)
BY DEF InSync, Shows

-----------------------------------------------------------------------------
LEMMA InitSound == Init => IInv
<1>. SUFFICES ASSUME Init PROVE IInv
  OBVIOUS
<1>1. PathTyped /\ ListsSound
  BY NoneSound DEF Init, PathTyped, ListsSound
<1>. QED
  BY <1>1, EmptyFits, NoneSound DEF Init, IInv, TypeOK, Sound, PathSound, AtPrompt, InSync

(* The variables that a step leaves out of its own business.               *)
LEMMA TypeNext == ASSUME IInv, [Next]_vars PROVE (TypeOK /\ PathTyped)'
<1>. USE DEF IInv, TypeOK, PathTyped, diskVars, past
<1>1. accounts' \in Seq(Account) /\ Len(accounts') <= DbMax /\ plan' \in Seq(Account)
  BY ListsNext DEF ListsSound, Sound
<1>2. CASE UNCHANGED vars
  BY <1>2 DEF vars
<1>3. ASSUME NEW ok \in BOOLEAN, FsBringup(ok) PROVE (TypeOK /\ PathTyped)'
  BY <1>1, <1>3 DEF FsBringup
<1>4. CASE Start
  <2>1. shown' \in Seq(Piece) /\ PieceLen * Len(shown') < PathMax
    BY <1>4, EmptyFits DEF Start
  <2>. QED
    BY <1>1, <1>4, <2>1 DEF Start
<1>5. CASE Reboot \/ Leave
  BY <1>1, <1>5 DEF Reboot, Leave
<1>6. ASSUME NEW u \in Users, NEW p \in Passwords, Register(u, p) \/ Login(u, p)
      PROVE  (TypeOK /\ PathTyped)'
  BY <1>1, <1>6 DEF Register, Login
<1>7. CASE RegisterWrites \/ ReplaceUsers
  BY <1>1, <1>7 DEF RegisterWrites, ReplaceUsers
<1>8. ASSUME NEW d \in Names, Cd(d) PROVE (TypeOK /\ PathTyped)'
  BY <1>1, <1>8, PushedFits DEF Cd
<1>9. CASE CdUp
  BY <1>1, <1>9, PoppedFits DEF CdUp
<1>10. CASE CdRoot \/ Logout
  BY <1>1, <1>10 DEF CdRoot, Logout
<1>11. CASE ClimbUp \/ ClimbFails
  BY <1>1, <1>11 DEF ClimbUp, ClimbFails, vars
<1>12. CASE ClimbDone
  <2>1. shown' \in Seq(Piece) /\ PieceLen * Len(shown') < PathMax
    BY <1>12, EmptyFits DEF ClimbDone, Reset
  <2>. QED
    BY <1>1, <1>12, <2>1 DEF ClimbDone
<1>. QED
  BY <1>2, <1>3, <1>4, <1>5, <1>6, <1>7, <1>8, <1>9, <1>10, <1>11, <1>12
     DEF Next, Commands, Booting, Running

(* Only cd moves both; climbing leaves the prompt's path to its end.       *)
LEMMA PathNext == ASSUME IInv, [Next]_vars PROVE PathSound'
<1>. USE DEF PathSound, AtPrompt, diskVars, past
<1>0. PathSound /\ cwd \in Seq(Names) /\ user \in Users \cup {Guest}
  BY DEF IInv, TypeOK
<1>1. ASSUME UNCHANGED <<pc, cwd, shown, user, strange, past>> PROVE PathSound'
  BY <1>0, <1>1 DEF InSync
<1>2. CASE UNCHANGED vars
  BY <1>1, <1>2 DEF vars
<1>3. ASSUME NEW ok \in BOOLEAN, FsBringup(ok) PROVE PathSound'
  BY <1>0, <1>3 DEF FsBringup
<1>4. CASE Start
  BY <1>0, <1>4 DEF Start, InSync
<1>5. CASE Reboot \/ Leave \/ CdRoot \/ Logout
  BY <1>5 DEF Reboot, Leave, CdRoot, Logout
<1>6. ASSUME NEW u \in Users, NEW p \in Passwords, Register(u, p) PROVE PathSound'
  BY <1>0, <1>6 DEF Register, InSync
<1>7. ASSUME NEW u \in Users, NEW p \in Passwords, Login(u, p) PROVE PathSound'
  BY <1>0, <1>7 DEF Login, InSync
<1>8. CASE RegisterWrites
  BY <1>0, <1>8 DEF RegisterWrites, InSync
<1>9. CASE ReplaceUsers
  BY <1>1, <1>9 DEF ReplaceUsers
<1>10. ASSUME NEW d \in Names, Cd(d) PROVE PathSound'
  <2>1. user' # Guest /\ pc' = "prompt" /\ pc = "prompt" /\ entrant' = user'
    BY <1>10 DEF Cd, CanCd
  <2>2. ASSUME ~strange' PROVE InSync'
    <3>1. ~strange /\ FitsPath(d) /\ ~(Pieces[d] > 1) /\ cwd' = Append(cwd, d) /\ shown' = Pushed(d)
      BY <1>10, <2>2 DEF Cd
    <3>2. Pieces[d] = 1
      BY <3>1
    <3>3. shown = Shows(cwd)
      BY <1>0, <2>1, <3>1, InSyncShows
    <3>4. shown' = Shows(cwd')
      BY <1>0, <3>1, <3>2, <3>3, ShowsAppend DEF Pushed
    <3>. QED
      BY <3>4 DEF InSync, Shows
  <2>. QED
    BY <2>1, <2>2 DEF AtPrompt
<1>11. CASE CdUp
  <2>1. user' # Guest /\ pc' = "prompt" /\ pc = "prompt" /\ strange' = strange
        /\ UNCHANGED <<user, entrant, over>> /\ cwd # <<>> /\ cwd' = Front(cwd) /\ shown' = Popped
    BY <1>11 DEF CdUp, CanCd
  <2>2. ASSUME ~strange' PROVE InSync'
    <3>1. shown = Shows(cwd)
      BY <1>0, <2>1, <2>2, InSyncShows
    <3>2. shown' = Shows(cwd')
      BY <1>0, <2>1, <3>1, ShowsFront DEF Popped
    <3>. QED
      BY <3>2 DEF InSync, Shows
  <2>3. ~over' => entrant' = user'
    BY <1>0, <2>1
  <2>. QED
    BY <2>1, <2>2, <2>3
<1>12. CASE ClimbUp \/ ClimbFails
  BY <1>1, <1>12 DEF ClimbUp, ClimbFails, vars
<1>13. CASE ClimbDone
  BY <1>13 DEF ClimbDone, AtHome, Reset, InSync
<1>. QED
  BY <1>2, <1>3, <1>4, <1>5, <1>6, <1>7, <1>8, <1>9, <1>10, <1>11, <1>12, <1>13
     DEF Next, Commands, Booting, Running

(* The inductive invariant: the lists of accounts are sound, where a guest *)
(* is, and where the machine starts, is the root, and who is below it went *)
(* there or took over a session.                                           *)
THEOREM Invariance == Spec => []IInv
<1>1. IInv /\ [Next]_vars => IInv'
  BY TypeNext, ListsNext, PathNext DEF IInv
<1>. QED
  BY <1>1, InitSound, PTL DEF Spec

-----------------------------------------------------------------------------
(* Every account is its user's only one, and accounts and paths fit into   *)
(* their buffers: register reads before it writes, and nobody else does.   *)
THEOREM AccountsCorrect == Spec => []AccountsSound
<1>1. IInv => AccountsSound
  BY DEF IInv, ListsSound, Sound, Single, AccountsSound, OneAccountEach
<1>. QED
  BY <1>1, Invariance, PTL

(* The prompt shows where the file system is, unless a name did not fit    *)
(* into sh_cwd or has a slash.                                             *)
THEOREM PromptHonest == Spec => []PathUsuallyInSync
<1>1. IInv => PathUsuallyInSync
  BY DEF IInv, PathSound, AtPrompt, PathUsuallyInSync
<1>. QED
  BY <1>1, Invariance, PTL

(* Behind logout the shell is in the root, and a session that begins there *)
(* is nowhere but where its user goes; only a login over a live session    *)
(* begins where the other user was.                                        *)
THEOREM SessionsEndAtHome == Spec => []SessionsApart
<1>1. IInv => SessionsApart
  BY DEF IInv, PathSound, AtPrompt, SessionsApart
<1>. QED
  BY <1>1, Invariance, PTL
=============================================================================
