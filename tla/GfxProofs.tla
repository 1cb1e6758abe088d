------------------------------ MODULE GfxProofs ------------------------------
(***************************************************************************)
(* What the drawing routines paint, that no text is read behind its end,   *)
(* that UTF-8 is decoded as it was encoded and text has room in its        *)
(* measure, and what the cursor leaves on the buffers, for every screen,   *)
(* window, cursor, font and text.                                          *)
(***************************************************************************)
EXTENDS Gfx, FiniteSetTheorems, SequenceTheorems, WellFoundedInduction, TLAPS

-----------------------------------------------------------------------------
(* Clipping on one axis.                                                   *)

LEMMA PixelsExact ==
  ASSUME NEW v \in Int, NEW n \in Int, NEW size \in Nat
  PROVE  Pixels(v, n, size) = {p \in Int : v <= p /\ p < v + n /\ 0 <= p /\ p < size}
BY DEF Pixels

LEMMA InsideExact ==
  ASSUME GfxAssumption, NEW v \in Int, NEW n \in 0 .. MaxSize, NEW off \in Nat, NEW len \in Nat,
         off + len <= MaxInt, v >= off - MaxInt - 1, v + n <= MaxInt
  PROVE  LET i == Inside(v, n, off, len)
         IN  /\ i.from \in Int /\ i.count \in Int /\ i.from >= off
             /\ \A p \in Int : i.from <= p /\ p < i.from + i.count <=>
                                 v <= p /\ p < v + n /\ off <= p /\ p < off + len
<1>. DEFINE from == IF v < off THEN off ELSE v
            cut == IF v < off THEN n - (off - v) ELSE n
<1>1. MaxInt \in Nat /\ MaxSize \in 1 .. MaxInt
  BY DEF GfxAssumption
<1>2. CutLength(v, n, off) = cut
  BY <1>1 DEF CutLength, Int32
<1>3. from \in Int /\ cut \in Int /\ from >= off /\ from + cut <= MaxInt /\ from + cut >= -MaxInt - 1
  BY <1>1
<1>4. Int32(from + cut) = from + cut
  BY <1>1, <1>3 DEF Int32
<1>5. from <= MaxInt
  BY <1>1
<1>6. Int32(off + len - from) = off + len - from
  BY <1>1, <1>3, <1>5 DEF Int32
<1>7. Inside(v, n, off, len) =
        [from |-> from, count |-> IF from + cut > off + len THEN off + len - from ELSE cut]
  BY <1>2, <1>4, <1>6 DEF Inside
<1>. DEFINE count == IF from + cut > off + len THEN off + len - from ELSE cut
<1>8. /\ count \in Int
      /\ \A p \in Int : from <= p /\ p < from + count <=>
                          v <= p /\ p < v + n /\ off <= p /\ p < off + len
  BY <1>1, <1>3
<1>9. Inside(v, n, off, len).from = from /\ Inside(v, n, off, len).count = count
  BY <1>7
<1>. HIDE DEF from, cut, count
<1>. QED
  BY <1>3, <1>8, <1>9

(* A window of length 0 is none.                                           *)
OnAxis(off, len, size) == {p \in 0 .. size - 1 : len = 0 \/ (off <= p /\ p < off + len)}

LEMMA SpanExact ==
  ASSUME GfxAssumption, NEW v \in Ints, NEW n \in 0 .. MaxSize, NEW off \in Nat, NEW len \in Nat,
         NEW size \in 1 .. MaxInt, off + len <= size, len = 0 => off = 0, v + n + off <= MaxInt
  PROVE  Span(v, n, off, len, size) = (v + off .. v + off + n - 1) \cap OnAxis(off, len, size)
<1>1. MaxInt \in Nat /\ MaxSize \in 1 .. MaxInt /\ v \in Int /\ v >= -MaxInt - 1 /\ v <= MaxInt
  BY DEF GfxAssumption, Ints
<1>2. CASE len = 0
  <2>1. off = 0 /\ n \in Int /\ size \in Nat
    BY <1>1, <1>2
  <2>2. Span(v, n, off, len, size) = {p \in Int : v <= p /\ p < v + n /\ 0 <= p /\ p < size}
    BY <1>1, <1>2, <2>1, PixelsExact DEF Span
  <2>. QED
    BY <1>1, <1>2, <2>1, <2>2 DEF OnAxis
<1>3. CASE len # 0
  <2>1. Int32(v + off) = v + off
    BY <1>1 DEF Int32
  <2> DEFINE i == Inside(v + off, n, off, len)
  <2>2. /\ i.from \in Int /\ i.count \in Int /\ i.from >= off
        /\ \A p \in Int : i.from <= p /\ p < i.from + i.count <=>
                            v + off <= p /\ p < v + off + n /\ off <= p /\ p < off + len
    <3>. DEFINE u == v + off
    <3>1. u \in Int /\ off + len <= MaxInt /\ u >= off - MaxInt - 1 /\ u + n <= MaxInt
      BY <1>1
    <3>. HIDE DEF u
    <3>2. /\ Inside(u, n, off, len).from \in Int /\ Inside(u, n, off, len).count \in Int
          /\ Inside(u, n, off, len).from >= off
          /\ \A p \in Int : LET j == Inside(u, n, off, len)
                            IN  j.from <= p /\ p < j.from + j.count <=>
                                  u <= p /\ p < u + n /\ off <= p /\ p < off + len
      BY <3>1, InsideExact
    <3>. QED
      BY <3>2 DEF u
  <2>3. Span(v, n, off, len, size) = IF i.count <= 0 THEN {} ELSE Pixels(i.from, i.count, size)
    BY <1>3, <2>1 DEF Span
  <2> HIDE DEF i
  <2>4. Pixels(i.from, i.count, size) =
          {p \in Int : i.from <= p /\ p < i.from + i.count /\ 0 <= p /\ p < size}
    BY <1>1, <2>2, PixelsExact, SMTT(30)
  <2>. QED
    BY <1>1, <1>3, <2>2, <2>3, <2>4 DEF OnAxis
<1>. QED
  BY <1>2, <1>3

-----------------------------------------------------------------------------
(* Clipping in two dimensions.                                             *)

LEMMA Crossed ==
  ASSUME NEW A, NEW B, NEW C, NEW D
  PROVE  (A \cap B) \X (C \cap D) = (A \X C) \cap (B \X D)
OBVIOUS

(* The window, or none: its place and its size as an axis needs them.      *)
LEMMA Windows ==
  ASSUME GfxAssumption, NEW win \in {NoWindow, Client}
  PROVE  /\ win.x \in Nat /\ win.w \in Nat /\ win.x + win.w <= Width /\ (win.w = 0 => win.x = 0)
         /\ win.y \in Nat /\ win.h \in Nat /\ win.y + win.h <= Height /\ (win.h = 0 => win.y = 0)
         /\ win.w = 0 <=> win.h = 0
         /\ MaxInt \in Nat /\ Width \in 1 .. MaxInt /\ Height \in 1 .. MaxInt /\ MaxSize \in 1 .. MaxInt
<1>1. CASE win = NoWindow
  BY <1>1 DEF GfxAssumption, NoWindow
<1>2. CASE win = Client
  BY <1>2 DEF GfxAssumption
<1>. QED
  BY <1>1, <1>2

LEMMA VisibleAxes ==
  ASSUME GfxAssumption, NEW win \in {NoWindow, Client}
  PROVE  Visible(win) = OnAxis(win.x, win.w, Width) \X OnAxis(win.y, win.h, Height)
<1>1. CASE win.w = 0
  <2>1. win.h = 0
    BY <1>1, Windows
  <2>2. OnAxis(win.x, win.w, Width) = 0 .. Width - 1 /\ OnAxis(win.y, win.h, Height) = 0 .. Height - 1
    BY <1>1, <2>1 DEF OnAxis
  <2>. QED
    BY <1>1, <2>2 DEF Visible, Screen
<1>2. CASE win.w # 0
  <2>1. /\ OnAxis(win.x, win.w, Width) = (0 .. Width - 1) \cap (win.x .. win.x + win.w - 1)
        /\ OnAxis(win.y, win.h, Height) = (0 .. Height - 1) \cap (win.y .. win.y + win.h - 1)
    BY <1>2, Windows DEF OnAxis
  <2>. QED
    BY <1>2, <2>1, Crossed DEF Visible, Screen, Area
<1>. QED
  BY <1>1, <1>2

LEMMA FillExact ==
  ASSUME GfxAssumption, NEW win \in {NoWindow, Client}, NEW x \in Ints, NEW y \in Ints,
         NEW w \in 0 .. MaxSize, NEW h \in 0 .. MaxSize, Fits(Rect(x, y, w, h), win)
  PROVE  FillRect(Rect(x, y, w, h), win) = Area(Moved(Rect(x, y, w, h), win)) \cap Visible(win)
<1>. DEFINE r == Rect(x, y, w, h)
            xs == x + win.x .. x + win.x + w - 1
            ys == y + win.y .. y + win.y + h - 1
<1>1. x + w + win.x <= MaxInt /\ y + h + win.y <= MaxInt
  BY DEF Fits, Rect
<1>w. /\ win.x \in Nat /\ win.w \in Nat /\ win.x + win.w <= Width /\ (win.w = 0 => win.x = 0)
      /\ win.y \in Nat /\ win.h \in Nat /\ win.y + win.h <= Height /\ (win.h = 0 => win.y = 0)
      /\ Width \in 1 .. MaxInt /\ Height \in 1 .. MaxInt
  BY Windows
<1>2. Span(x, w, win.x, win.w, Width) = xs \cap OnAxis(win.x, win.w, Width)
  <2>. DEFINE off == win.x
              len == win.w
  <2>1. off \in Nat /\ len \in Nat /\ off + len <= Width /\ (len = 0 => off = 0) /\ x + w + off <= MaxInt
    BY <1>1, <1>w
  <2>2. Width \in 1 .. MaxInt
    BY <1>w
  <2>. HIDE DEF off, len
  <2>3. Span(x, w, off, len, Width) = (x + off .. x + off + w - 1) \cap OnAxis(off, len, Width)
    BY <2>1, <2>2, SpanExact, SMTT(30)
  <2>. QED
    BY <2>3 DEF off, len
<1>3. Span(y, h, win.y, win.h, Height) = ys \cap OnAxis(win.y, win.h, Height)
  <2>. DEFINE off == win.y
              len == win.h
  <2>1. off \in Nat /\ len \in Nat /\ off + len <= Height /\ (len = 0 => off = 0) /\ y + h + off <= MaxInt
    BY <1>1, <1>w
  <2>2. Height \in 1 .. MaxInt
    BY <1>w
  <2>. HIDE DEF off, len
  <2>3. Span(y, h, off, len, Height) = (y + off .. y + off + h - 1) \cap OnAxis(off, len, Height)
    BY <2>1, <2>2, SpanExact, SMTT(30)
  <2>. QED
    BY <2>3 DEF off, len
<1>4. Area(Moved(r, win)) = xs \X ys
  BY DEF Area, Moved, Rect
<1>5. FillRect(r, win) = Span(x, w, win.x, win.w, Width) \X Span(y, h, win.y, win.h, Height)
  BY DEF FillRect, Rect
<1>. QED
  BY <1>2, <1>3, <1>4, <1>5, VisibleAxes, Crossed

LEMMA WrapsBelow ==
  ASSUME GfxAssumption, NEW v \in Int, NEW off \in Int,
         0 <= off, off <= MaxInt, -MaxInt - 1 <= v, v <= MaxInt
  PROVE  Int32(v + off) = v + off \/ (Int32(v + off) < 0 /\ v + off > MaxInt)
BY DEF Int32, GfxAssumption

LEMMA PixelExact ==
  ASSUME GfxAssumption, NEW win \in {NoWindow, Client}, NEW x \in Ints, NEW y \in Ints
  PROVE  PutPixel(x, y, win) = {<<x + win.x, y + win.y>>} \cap Visible(win)
<1>. DEFINE dx == win.x
            dy == win.y
<1>1. /\ MaxInt \in Nat /\ x \in Int /\ y \in Int /\ dx \in Int /\ dy \in Int
      /\ x >= -MaxInt - 1 /\ y >= -MaxInt - 1 /\ 0 <= dx /\ 0 <= dy /\ dx <= MaxInt /\ dy <= MaxInt
      /\ x <= MaxInt /\ y <= MaxInt /\ Width \in 1 .. MaxInt /\ Height \in 1 .. MaxInt
  BY Windows DEF Ints
<1>2. PutPixel(x, y, win) = {<<Int32(x + dx), Int32(y + dy)>>} \cap Visible(win)
  BY DEF PutPixel, Visible
<1>. HIDE DEF dx, dy
<1>3. Int32(x + dx) = x + dx \/ (Int32(x + dx) < 0 /\ x + dx > MaxInt)
  BY <1>1, WrapsBelow
<1>4. Int32(y + dy) = y + dy \/ (Int32(y + dy) < 0 /\ y + dy > MaxInt)
  BY <1>1, WrapsBelow
<1>5. Visible(win) \subseteq Screen
  BY DEF Visible
<1>6. CASE Int32(x + dx) = x + dx /\ Int32(y + dy) = y + dy
  BY <1>2, <1>6 DEF dx, dy
<1>7. CASE ~(Int32(x + dx) = x + dx /\ Int32(y + dy) = y + dy)
  <2>1. <<Int32(x + dx), Int32(y + dy)>> \notin Screen /\ <<x + dx, y + dy>> \notin Screen
    BY <1>1, <1>3, <1>4, <1>7 DEF Screen
  <2>. QED
    BY <1>2, <1>5, <2>1 DEF dx, dy
<1>. QED
  BY <1>6, <1>7

(* The four sides are the rectangle without its inside.                    *)
LEMMA DrawExact ==
  ASSUME GfxAssumption, NEW win \in {NoWindow, Client}, NEW x \in Ints, NEW y \in Ints,
         NEW w \in 1 .. MaxSize, NEW h \in 1 .. MaxSize, Fits(Rect(x, y, w, h), win)
  PROVE  DrawRect(Rect(x, y, w, h), win) =
           (Area(Moved(Rect(x, y, w, h), win)) \ Area(Hollow(Moved(Rect(x, y, w, h), win))))
             \cap Visible(win)
<1>. DEFINE r == Rect(x, y, w, h)
            a == x + win.x
            b == y + win.y
<1>1. /\ MaxInt \in Nat /\ MaxSize \in 1 .. MaxInt /\ x \in Int /\ y \in Int /\ win.x \in Nat /\ win.y \in Nat
      /\ x >= -MaxInt - 1 /\ y >= -MaxInt - 1 /\ x <= MaxInt /\ y <= MaxInt
      /\ x + w + win.x <= MaxInt /\ y + h + win.y <= MaxInt
  BY Windows DEF Ints, Fits, Rect
<1>2. /\ Int32(Int32(x + w) - 1) = x + w - 1 /\ Int32(Int32(y + h) - 1) = y + h - 1
      /\ x + w - 1 \in Ints /\ y + h - 1 \in Ints
  BY <1>1 DEF Int32, Ints
<1>3. /\ Fits(Rect(x, y, w, 1), win) /\ Fits(Rect(x, y + h - 1, w, 1), win)
      /\ Fits(Rect(x, y, 1, h), win) /\ Fits(Rect(x + w - 1, y, 1, h), win)
  BY <1>1 DEF Fits, Rect
<1>4. w \in 0 .. MaxSize /\ h \in 0 .. MaxSize /\ 1 \in 0 .. MaxSize
  BY <1>1
<1>. DEFINE top == Rect(x, y, w, 1)
            bottom == Rect(x, y + h - 1, w, 1)
            left == Rect(x, y, 1, h)
            right == Rect(x + w - 1, y, 1, h)
<1>5. DrawRect(r, win) =
        UNION {FillRect(top, win), FillRect(bottom, win), FillRect(left, win), FillRect(right, win)}
  BY <1>2 DEF DrawRect, Rect
<1>6. FillRect(top, win) = Area(Moved(top, win)) \cap Visible(win)
  BY <1>3, <1>4, FillExact
<1>7. FillRect(bottom, win) = Area(Moved(bottom, win)) \cap Visible(win)
  BY <1>2, <1>3, <1>4, FillExact
<1>8. FillRect(left, win) = Area(Moved(left, win)) \cap Visible(win)
  BY <1>3, <1>4, FillExact
<1>9. FillRect(right, win) = Area(Moved(right, win)) \cap Visible(win)
  BY <1>2, <1>3, <1>4, FillExact
<1>10. /\ Area(Moved(top, win)) = (a .. a + w - 1) \X (b .. b)
       /\ Area(Moved(bottom, win)) = (a .. a + w - 1) \X (b + h - 1 .. b + h - 1)
       /\ Area(Moved(left, win)) = (a .. a) \X (b .. b + h - 1)
       /\ Area(Moved(right, win)) = (a + w - 1 .. a + w - 1) \X (b .. b + h - 1)
  BY <1>1 DEF Area, Moved, Rect
<1>11. /\ Area(Moved(r, win)) = (a .. a + w - 1) \X (b .. b + h - 1)
       /\ Area(Hollow(Moved(r, win))) = (a + 1 .. a + w - 2) \X (b + 1 .. b + h - 2)
  BY <1>1 DEF Area, Moved, Rect, Hollow
<1>12. Area(Moved(r, win)) \ Area(Hollow(Moved(r, win))) =
         UNION {Area(Moved(top, win)), Area(Moved(bottom, win)), Area(Moved(left, win)), Area(Moved(right, win))}
  <2>1. a \in Int /\ b \in Int /\ w \in Nat \ {0} /\ h \in Nat \ {0}
    BY <1>1
  <2>. HIDE DEF a, b, r, top, bottom, left, right
  <2>2. \A i, j : <<i, j>> \in Area(Moved(r, win)) \ Area(Hollow(Moved(r, win))) <=>
                  \/ <<i, j>> \in Area(Moved(top, win)) \/ <<i, j>> \in Area(Moved(bottom, win))
                  \/ <<i, j>> \in Area(Moved(left, win)) \/ <<i, j>> \in Area(Moved(right, win))
    BY <1>10, <1>11, <2>1
  <2>3. UNION {Area(Moved(top, win)), Area(Moved(bottom, win)), Area(Moved(left, win)), Area(Moved(right, win))}
          \subseteq Int \X Int
    BY <1>10, <2>1
  <2>4. Area(Moved(r, win)) \subseteq Int \X Int
    BY <1>11, <2>1
  <2>. QED
    BY <2>2, <2>3, <2>4
<1>. HIDE DEF r, top, bottom, left, right
<1>. QED
  BY <1>5, <1>6, <1>7, <1>8, <1>9, <1>12 DEF r

LEMMA AllClipped == GfxAssumption => ClippedExactly
<1>. SUFFICES ASSUME GfxAssumption, NEW win \in {NoWindow, Client}, NEW x \in Ints, NEW y \in Ints
     PROVE  /\ PutPixel(x, y, win) = {<<x + win.x, y + win.y>>} \cap Visible(win)
            /\ \A w, h \in 0 .. MaxSize :
                 LET r == Rect(x, y, w, h)
                 IN  Fits(r, win) =>
                       /\ FillRect(r, win) = Area(Moved(r, win)) \cap Visible(win)
                       /\ w > 0 /\ h > 0 =>
                            DrawRect(r, win) =
                              (Area(Moved(r, win)) \ Area(Hollow(Moved(r, win)))) \cap Visible(win)
  BY DEF ClippedExactly
<1>1. PutPixel(x, y, win) = {<<x + win.x, y + win.y>>} \cap Visible(win)
  BY PixelExact
<1>2. ASSUME NEW w \in 0 .. MaxSize, NEW h \in 0 .. MaxSize, Fits(Rect(x, y, w, h), win)
      PROVE  /\ FillRect(Rect(x, y, w, h), win) = Area(Moved(Rect(x, y, w, h), win)) \cap Visible(win)
             /\ w > 0 /\ h > 0 =>
                  DrawRect(Rect(x, y, w, h), win) =
                    (Area(Moved(Rect(x, y, w, h), win)) \ Area(Hollow(Moved(Rect(x, y, w, h), win))))
                      \cap Visible(win)
  <2>1. FillRect(Rect(x, y, w, h), win) = Area(Moved(Rect(x, y, w, h), win)) \cap Visible(win)
    BY <1>2, FillExact
  <2>2. ASSUME w > 0, h > 0
        PROVE  DrawRect(Rect(x, y, w, h), win) =
                 (Area(Moved(Rect(x, y, w, h), win)) \ Area(Hollow(Moved(Rect(x, y, w, h), win))))
                   \cap Visible(win)
    <3>1. w \in 1 .. MaxSize /\ h \in 1 .. MaxSize
      BY <2>2 DEF GfxAssumption
    <3>. QED
      BY <1>2, <3>1, DrawExact
  <2>. QED
    BY <2>1, <2>2
<1>. QED
  BY <1>1, <1>2

(* gfx_fill_rect, gfx_draw_rect and gfx_putpixel paint what they are asked *)
(* to, moved into the window and cut off at its edges and the screen's.    *)
THEOREM Clips == Spec => ClipExact
<1>1. ClippedExactly
  BY AllClipped, GfxAssumption
<1>. QED
  BY <1>1, PTL DEF ClipExact

(* utf8_decode takes no byte behind the NUL that ends the text.            *)
LEMMA StopsAtNul ==
  ASSUME NEW s \in Seq(0 .. 255), NEW i \in DOMAIN s
  PROVE  NextChar(s, i) <= Len(s) + 1
<1>1. i \in 1 .. Len(s) /\ Len(s) \in Nat
  OBVIOUS
<1>2. ASSUME NEW j \in Nat, Continues(s, j)
      PROVE  j <= Len(s)
  BY <1>1, <1>2 DEF Continues, ByteAt
<1>3. TakesTwo(s, i) => i + 1 <= Len(s)
  BY <1>1, <1>2 DEF TakesTwo
<1>4. TakesThree(s, i) => i + 2 <= Len(s)
  BY <1>1, <1>2 DEF TakesThree
<1>5. TakesFour(s, i) => i + 3 <= Len(s)
  BY <1>1, <1>2 DEF TakesFour
<1>. QED
  BY <1>1, <1>3, <1>4, <1>5 DEF NextChar

-----------------------------------------------------------------------------
(* The cursor.  Good says of a buffer, a saved block and its place what    *)
(* the picture, the pixels drawn on since and the wrong pixels make of it. *)
Good(b, sv, pos, pic, st, gh) ==
  /\ \A p \in Screen \ gh : b[p] = IF p \in Over(Arrow, pos) \ st THEN White ELSE pic[p]
  /\ \A p \in Over(Block, pos) \ (gh \cup st) : sv[Offset(p, pos)] = pic[p]

(* Behind a program no block is saved.                                     *)
IInv == /\ TypeOK /\ Good(back, saved, last, picture, stale, ghosts)
        /\ mode \in {"launched", "redraw"} => last = Nowhere

Buffers == [Screen -> Colours]

LEMMA Kinds ==
  ASSUME GfxAssumption
  PROVE  /\ Arrow \subseteq Block /\ Black \in Colours /\ White \in Colours
         /\ Scenes \subseteq Buffers /\ Blank \in Buffers
         /\ Nowhere \notin Screen
         /\ \A p \in Screen : p[1] \in Int /\ p[2] \in Int /\ p = <<p[1], p[2]>>
         /\ \A o \in Block : o[1] \in Int /\ o[2] \in Int /\ o = <<o[1], o[2]>>
<1>1. Arrow \subseteq Block /\ Black \in Colours /\ White \in Colours /\ Scenes \subseteq Buffers
  BY DEF GfxAssumption, Buffers
<1>2. Blank \in Buffers
  BY <1>1 DEF Blank, Buffers
<1>3. Width \in Int /\ Height \in Int /\ Size \in Int
  BY DEF GfxAssumption
<1>4. Nowhere \notin Screen /\ \A p \in Screen : p[1] \in Int /\ p[2] \in Int /\ p = <<p[1], p[2]>>
  BY <1>3 DEF Screen, Nowhere
<1>5. \A o \in Block : o[1] \in Int /\ o[2] \in Int /\ o = <<o[1], o[2]>>
  BY <1>3 DEF Block
<1>. QED
  BY <1>1, <1>2, <1>4, <1>5

(* A pixel of the block at a place is that place moved by its offset.      *)
LEMMA OffsetBack ==
  ASSUME GfxAssumption, NEW pos \in Screen, NEW p \in Over(Block, pos)
  PROVE  /\ Offset(p, pos) \in Block /\ p \in Screen
         /\ <<pos[1] + Offset(p, pos)[1], pos[2] + Offset(p, pos)[2]>> = p
<1>1. p \in Screen /\ Offset(p, pos) \in Block
  BY DEF Over
<1>2. p[1] \in Int /\ p[2] \in Int /\ p = <<p[1], p[2]>> /\ pos[1] \in Int /\ pos[2] \in Int
  BY <1>1, Kinds
<1>3. Offset(p, pos) = <<p[1] - pos[1], p[2] - pos[2]>>
  BY DEF Offset
<1>. QED
  BY <1>1, <1>2, <1>3

LEMMA OverNowhere == ASSUME NEW shape PROVE Over(shape, Nowhere) = {}
BY DEF Over

LEMMA ArrowOver ==
  ASSUME GfxAssumption, NEW pos
  PROVE  Over(Arrow, pos) \subseteq Over(Block, pos) /\ Over(Block, pos) \subseteq Screen
BY Kinds DEF Over

LEMMA PaintType ==
  ASSUME NEW f \in Buffers, NEW area, NEW c \in Colours
  PROVE  /\ Paint(f, area, c) \in Buffers
         /\ \A p \in Screen : Paint(f, area, c)[p] = IF p \in area THEN c ELSE f[p]
BY DEF Paint, Buffers

LEMMA RestoredType ==
  ASSUME NEW f \in Buffers, saved \in [Block -> Colours]
  PROVE  /\ Restored(f) \in Buffers
         /\ \A p \in Screen : Restored(f)[p] = IF p \in Over(Block, last) THEN saved[Offset(p, last)] ELSE f[p]
<1>1. \A p \in Screen : p \in Over(Block, last) => Offset(p, last) \in Block
  BY DEF Over
<1>. QED
  BY <1>1 DEF Restored, Buffers

LEMMA CursorType ==
  ASSUME GfxAssumption, NEW f \in Buffers, saved \in [Block -> Colours], NEW pos \in Screen,
         DrawCursor(f, pos)
  PROVE  WithCursor(f, pos) \in Buffers /\ saved' \in [Block -> Colours] /\ last' = pos
<1>1. Restored(f) \in Buffers
  BY RestoredType
<1>2. WithCursor(f, pos) \in Buffers
  BY <1>1, PaintType, Kinds DEF WithCursor
<1>3. saved' = [o \in Block |-> LET p == <<pos[1] + o[1], pos[2] + o[2]>>
                               IN  IF p \in Screen THEN Restored(f)[p] ELSE saved[o]]
  BY DEF DrawCursor, SaveFrom, ToSave
<1>4. saved' \in [Block -> Colours]
  BY <1>1, <1>3 DEF Buffers
<1>. QED
  BY <1>2, <1>4 DEF DrawCursor

(* Painting keeps it: on the saved block the pixel goes stale.             *)
LEMMA PaintGood ==
  ASSUME NEW b \in Buffers, NEW sv, NEW pos, NEW pic \in Buffers, NEW st, NEW gh,
         Good(b, sv, pos, pic, st, gh), NEW area, NEW c \in Colours,
         GfxAssumption
  PROVE  Good(Paint(b, area, c), sv, pos, Paint(pic, area, c),
              st \cup (area \cap Over(Block, pos)), gh \ area)
<1>1. \A p \in Screen : Paint(b, area, c)[p] = IF p \in area THEN c ELSE b[p]
  BY PaintType
<1>2. \A p \in Screen : Paint(pic, area, c)[p] = IF p \in area THEN c ELSE pic[p]
  BY PaintType
<1>3. Over(Arrow, pos) \subseteq Over(Block, pos) /\ Over(Block, pos) \subseteq Screen
  BY ArrowOver
<1>. HIDE DEF Buffers
<1>4. \A p \in Screen \ (gh \ area) :
        Paint(b, area, c)[p] =
          IF p \in Over(Arrow, pos) \ (st \cup (area \cap Over(Block, pos))) THEN White
          ELSE Paint(pic, area, c)[p]
  BY ONLY <1>1, <1>2, <1>3, Good(b, sv, pos, pic, st, gh) DEF Good
<1>5. \A p \in Over(Block, pos) \ ((gh \ area) \cup (st \cup (area \cap Over(Block, pos)))) :
        sv[Offset(p, pos)] = Paint(pic, area, c)[p]
  BY ONLY <1>2, <1>3, Good(b, sv, pos, pic, st, gh) DEF Good
<1>. QED
  BY ONLY <1>4, <1>5 DEF Good

(* Drawing the cursor over a buffer that is the picture where it has been  *)
(* restored, but for some pixels, leaves just these wrong.                 *)
LEMMA CursorGood ==
  ASSUME GfxAssumption, NEW f \in Buffers, saved \in [Block -> Colours], NEW pos \in Screen,
         DrawCursor(f, pos), NEW pic, NEW gh,
         \A p \in Screen \ gh : Restored(f)[p] = pic[p]
  PROVE  Good(WithCursor(f, pos), saved', pos, pic, {}, gh)
<1>1. Restored(f) \in Buffers
  BY RestoredType
<1>2. \A p \in Screen : WithCursor(f, pos)[p] = IF p \in Over(Arrow, pos) THEN White ELSE Restored(f)[p]
  BY <1>1, PaintType, Kinds DEF WithCursor
<1>3. \A p \in Screen \ gh :
        WithCursor(f, pos)[p] = IF p \in Over(Arrow, pos) \ {} THEN White ELSE pic[p]
  BY <1>2
<1>4. saved' = [o \in Block |-> LET p == <<pos[1] + o[1], pos[2] + o[2]>>
                               IN  IF p \in Screen THEN Restored(f)[p] ELSE saved[o]]
  BY DEF DrawCursor, SaveFrom, ToSave
<1>5. ASSUME NEW p \in Over(Block, pos) \ (gh \cup {})
      PROVE  saved'[Offset(p, pos)] = pic[p]
  <2>1. /\ Offset(p, pos) \in Block /\ p \in Screen
        /\ <<pos[1] + Offset(p, pos)[1], pos[2] + Offset(p, pos)[2]>> = p
    BY OffsetBack
  <2>2. saved'[Offset(p, pos)] = Restored(f)[p]
    BY <1>4, <2>1
  <2>. QED
    BY <2>1, <2>2
<1>. QED
  BY <1>3, <1>5 DEF Good

LEMMA Typed ==
  ASSUME TypeOK
  PROVE  /\ back \in Buffers /\ lfb \in Buffers /\ picture \in Buffers
         /\ fb \in {"back", "lfb"} /\ mode \in Modes /\ window \in BOOLEAN /\ (window <=> mode \in {"app", "notepad"})
         /\ last \in Screen \cup {Nowhere} /\ saved \in [Block -> Colours]
         /\ stale \subseteq Over(Block, last) /\ ghosts \subseteq Screen
BY DEF TypeOK, Buffers

LEMMA TypedNext ==
  ASSUME back' \in Buffers, lfb' \in Buffers, picture' \in Buffers,
         fb' \in {"back", "lfb"}, mode' \in Modes,
         window' \in BOOLEAN, window' <=> mode' \in {"app", "notepad"},
         last' \in Screen \cup {Nowhere}, saved' \in [Block -> Colours],
         stale' \subseteq Over(Block, last'), ghosts' \subseteq Screen
  PROVE  TypeOK'
BY DEF TypeOK, Buffers

LEMMA InitInv == Init => IInv
<1>. SUFFICES ASSUME Init
     PROVE  IInv
  OBVIOUS
<1>1. Blank \in Buffers /\ Black \in Colours
  BY Kinds, GfxAssumption
<1>2. TypeOK
  <2>1. /\ {back, lfb, picture} \subseteq [Screen -> Colours] /\ fb \in {"back", "lfb"}
        /\ mode \in Modes /\ last \in Screen \cup {Nowhere} /\ saved \in [Block -> Colours]
        /\ stale \subseteq Over(Block, last) /\ ghosts \subseteq Screen
    BY <1>1 DEF Init, Modes, Buffers
  <2>2. window \in BOOLEAN /\ (window <=> mode \in {"app", "notepad"})
    BY DEF Init
  <2>. QED
    BY <2>1, <2>2 DEF TypeOK
<1>3. Over(Arrow, last) = {} /\ Over(Block, last) = {}
  BY OverNowhere DEF Init
<1>4. Good(back, saved, last, picture, stale, ghosts)
  BY <1>3 DEF Good, Init
<1>. QED
  BY <1>2, <1>4 DEF IInv, Init

LEMMA DrawInv ==
  ASSUME IInv, NEW area, NEW c \in Colours, Draw(area, c)
  PROVE  IInv'
<1>1. TypeOK /\ Good(back, saved, last, picture, stale, ghosts) /\ mode \in Modes
  BY DEF IInv, TypeOK
<1>2. /\ back' = Paint(back, area, c) /\ lfb' = lfb /\ fb' = "back" /\ picture' = Paint(picture, area, c)
      /\ stale' = stale \cup (area \cap Over(Block, last)) /\ ghosts' = ghosts \ area
      /\ mode' = mode /\ window' = window /\ last' = last /\ saved' = saved
  BY DEF Draw, Begun, cursorVars
<1>3. TypeOK'
  BY <1>1, <1>2, Typed, TypedNext, PaintType
<1>4. Good(Paint(back, area, c), saved, last, Paint(picture, area, c),
           stale \cup (area \cap Over(Block, last)), ghosts \ area)
  BY <1>1, Typed, PaintGood, GfxAssumption
<1>5. Good(back, saved, last, picture, stale, ghosts)'
  BY <1>2, <1>4 DEF Good
<1>6. mode \notin {"launched", "redraw"}
  BY DEF Draw, Program
<1>. QED
  BY <1>2, <1>3, <1>5, <1>6 DEF IInv

(* The cursor is drawn: by a frame over the scene, by a program over what  *)
(* is there.                                                               *)
LEMMA DrawnOver ==
  ASSUME IInv, NEW scene \in Buffers
  PROVE  \A p \in Screen \ Over(Block, last) : Restored(scene)[p] = scene[p]
BY Typed, RestoredType DEF IInv

LEMMA FrameInv ==
  ASSUME IInv, Frame
  PROVE  IInv'
<1>1. PICK pos \in Screen, scene \in Scenes :
        /\ mode' = "desktop" /\ back' = WithCursor(scene, pos) /\ lfb' = back' /\ fb' = "lfb"
        /\ DrawCursor(scene, pos) /\ picture' = scene /\ stale' = {} /\ ghosts' = Over(Block, last)
        /\ mode \in {"desktop", "redraw"} /\ window' = window
  BY DEF Frame, Flush
<1>2. TypeOK /\ scene \in Buffers /\ saved \in [Block -> Colours]
  BY Typed, Kinds, GfxAssumption DEF IInv
<1>3. back' \in Buffers /\ saved' \in [Block -> Colours] /\ last' = pos
  BY <1>1, <1>2, CursorType, GfxAssumption
<1>4. TypeOK'
  <2>1. window' \in BOOLEAN /\ (window' <=> mode' \in {"app", "notepad"}) /\ mode' \in Modes
    BY <1>1, <1>2, Typed DEF Modes
  <2>2. Over(Block, last) \subseteq Screen
    BY DEF Over
  <2>. QED
    BY <1>1, <1>2, <1>3, <2>1, <2>2, TypedNext
<1>5. Good(WithCursor(scene, pos), saved', pos, scene, {}, Over(Block, last))
  BY <1>1, <1>2, CursorGood, DrawnOver, GfxAssumption
<1>6. Good(back, saved, last, picture, stale, ghosts)'
  BY <1>1, <1>3, <1>5 DEF Good
<1>. QED
  BY <1>1, <1>4, <1>6 DEF IInv

LEMMA ScCursorInv ==
  ASSUME IInv, ScCursor
  PROVE  IInv'
<1>1. PICK pos \in Screen :
        /\ back' = WithCursor(back, pos) /\ lfb' = back' /\ fb' = "lfb" /\ DrawCursor(back, pos)
        /\ stale' = {} /\ ghosts' = ghosts \cup stale /\ mode' = mode /\ window' = window
        /\ picture' = picture /\ mode \in {"app", "notepad", "run"}
  BY DEF ScCursor, Flush, Program
<1>2. /\ TypeOK /\ back \in Buffers /\ picture \in Buffers /\ saved \in [Block -> Colours]
      /\ Good(back, saved, last, picture, stale, ghosts)
  BY Typed DEF IInv
<1>3. back' \in Buffers /\ saved' \in [Block -> Colours] /\ last' = pos
  BY <1>1, <1>2, CursorType, GfxAssumption
<1>4. TypeOK'
  <2>1. ghosts' \subseteq Screen
    BY <1>1, <1>2, Typed DEF Over
  <2>. QED
    BY <1>1, <1>2, <1>3, <2>1, Typed, TypedNext
<1>5. \A p \in Screen \ (ghosts \cup stale) : Restored(back)[p] = picture[p]
  BY <1>2, RestoredType, ArrowOver, GfxAssumption DEF Good
<1>6. Good(WithCursor(back, pos), saved', pos, picture, {}, ghosts \cup stale)
  BY <1>1, <1>2, <1>5, CursorGood, GfxAssumption
<1>7. Good(back, saved, last, picture, stale, ghosts)'
  BY <1>1, <1>3, <1>6 DEF Good
<1>. QED
  BY <1>1, <1>4, <1>7 DEF IInv

LEMMA PrepareWinInv ==
  ASSUME IInv, PrepareWin
  PROVE  IInv'
<1>. DEFINE inside == Area(Client)
<1>1. PICK pos \in Screen, scene \in Scenes :
        /\ back' = Paint(WithCursor(scene, pos), inside, Black) /\ lfb' = back' /\ fb' = "lfb"
        /\ DrawCursor(scene, pos) /\ picture' = Paint(scene, inside, Black)
        /\ stale' = inside \cap Over(Block, pos) /\ ghosts' = Over(Block, last) \ inside
        /\ window' = TRUE /\ mode' \in {"app", "notepad"}
  BY DEF PrepareWin, Flush, Opens
<1>2. TypeOK /\ scene \in Buffers /\ saved \in [Block -> Colours] /\ Black \in Colours
  BY Typed, Kinds, GfxAssumption DEF IInv
<1>3. WithCursor(scene, pos) \in Buffers /\ saved' \in [Block -> Colours] /\ last' = pos
  BY <1>1, <1>2, CursorType, GfxAssumption
<1>4. TypeOK'
  <2>1. back' \in Buffers /\ lfb' \in Buffers /\ picture' \in Buffers
    BY <1>1, <1>2, <1>3, PaintType
  <2>2. stale' \subseteq Over(Block, last') /\ ghosts' \subseteq Screen
    BY <1>1, <1>3 DEF Over
  <2>. QED
    BY <1>1, <1>3, <2>1, <2>2, TypedNext DEF Modes
<1>5. Good(WithCursor(scene, pos), saved', pos, scene, {}, Over(Block, last))
  BY <1>1, <1>2, CursorGood, DrawnOver, GfxAssumption
<1>. HIDE DEF inside
<1>6. Good(back', saved', pos, picture', {} \cup (inside \cap Over(Block, pos)), Over(Block, last) \ inside)
  BY <1>1, <1>2, <1>3, <1>5, PaintGood, GfxAssumption
<1>7. {} \cup (inside \cap Over(Block, pos)) = stale'
  BY <1>1
<1>8. Good(back, saved, last, picture, stale, ghosts)'
  BY <1>1, <1>3, <1>6, <1>7 DEF Good
<1>. QED
  BY <1>1, <1>4, <1>8 DEF IInv

(* The cursor is forgotten: its arrow stays where it was.                  *)
LEMMA ResetInv ==
  ASSUME IInv, CursorReset, back' = back, lfb' = lfb, fb' = fb,
         mode' \in {"launched", "redraw"}, window' = FALSE
  PROVE  IInv'
<1>1. /\ last' = Nowhere /\ saved' = saved /\ picture' = picture /\ stale' = {}
      /\ ghosts' = ghosts \cup (Over(Arrow, last) \ stale)
  BY DEF CursorReset, Forgotten
<1>2. TypeOK /\ Good(back, saved, last, picture, stale, ghosts)
  BY DEF IInv
<1>3. TypeOK'
  <2>1. ghosts' \subseteq Screen /\ stale' \subseteq Over(Block, last')
    BY <1>1, <1>2, Typed DEF Over
  <2>2. window' \in BOOLEAN /\ (window' <=> mode' \in {"app", "notepad"})
    OBVIOUS
  <2>3. mode' \in Modes
    BY DEF Modes
  <2>. QED
    BY <1>1, <1>2, <2>1, <2>2, <2>3, Typed, TypedNext
<1>4. Over(Arrow, last') = {} /\ Over(Block, last') = {}
  BY <1>1, OverNowhere
<1>5. Good(back, saved, last, picture, stale, ghosts)'
  BY <1>1, <1>2, <1>4 DEF Good
<1>. QED
  BY <1>1, <1>3, <1>5 DEF IInv

(* Only the screen and the mode change, or nothing of this.                *)
LEMMA ScreenInv ==
  ASSUME IInv, back' = back, lfb' \in Buffers, fb' \in {"back", "lfb"}, window' = window,
         UNCHANGED <<last, saved, picture, stale, ghosts>>, mode' \in Modes,
         mode' \in {"app", "notepad"} <=> mode \in {"app", "notepad"},
         mode' \in {"launched", "redraw"} => mode \in {"launched", "redraw"}
  PROVE  IInv'
<1>1. TypeOK /\ Good(back, saved, last, picture, stale, ghosts)
  BY DEF IInv
<1>2. window' \in BOOLEAN /\ (window' <=> mode' \in {"app", "notepad"})
  BY <1>1, Typed
<1>3. TypeOK'
  BY <1>1, <1>2, Typed, TypedNext
<1>4. Good(back, saved, last, picture, stale, ghosts)'
  BY <1>1 DEF Good
<1>. QED
  BY <1>3, <1>4 DEF IInv

LEMMA NextInv ==
  ASSUME IInv, Next
  PROVE  IInv'
<1>1. CASE BringUp
  <2>1. mode = "boot" /\ mode' = "text" /\ lfb' = lfb
    BY <1>1 DEF BringUp, bufferVars
  <2>. QED
    BY <1>1, <2>1, Typed, ScreenInv DEF BringUp, bufferVars, cursorVars, historyVars, IInv, Modes
<1>2. CASE ScPutPixel
  BY <1>2, DrawInv DEF ScPutPixel
<1>3. CASE ScFillRect
  BY <1>3, DrawInv DEF ScFillRect
<1>4. CASE ScDrawRect
  BY <1>4, DrawInv DEF ScDrawRect
<1>c. CASE ScDrawChar
  BY <1>c, DrawInv DEF ScDrawChar
<1>5. CASE ScDrawText
  BY <1>5, DrawInv DEF ScDrawText
<1>6. CASE ScGfxClear
  BY <1>6, DrawInv DEF ScGfxClear
<1>7. CASE ScGfxFlush
  BY <1>7, Typed, ScreenInv DEF ScGfxFlush, Flush, cursorVars, historyVars, IInv
<1>8. CASE ScCursor
  BY <1>8, ScCursorInv
<1>9. CASE DoRun \/ DoUi
  <2>1. /\ mode = "text" /\ mode' \in {"run", "desktop"} /\ lfb' = Blank /\ fb' \in {"back", "lfb"}
        /\ back' = back /\ window' = window /\ UNCHANGED <<last, saved, picture, stale, ghosts>>
    BY <1>9 DEF DoRun, DoUi, GfxInit, cursorVars, historyVars
  <2>. QED
    BY <2>1, Kinds, GfxAssumption, ScreenInv DEF Modes
<1>10. CASE RunEnds
  <2>1. /\ mode = "run" /\ mode' = "text" /\ lfb' = Blank /\ fb' = fb
        /\ back' = back /\ window' = window /\ UNCHANGED <<last, saved, picture, stale, ghosts>>
    BY <1>10 DEF RunEnds, cursorVars, historyVars
  <2>. QED
    BY <2>1, Typed, Kinds, GfxAssumption, ScreenInv DEF Modes, IInv
<1>11. CASE Frame
  BY <1>11, FrameInv
<1>12. CASE PrepareWin
  BY <1>12, PrepareWinInv
<1>13. CASE WindowEnds
  BY <1>13, ResetInv DEF WindowEnds, Closes, WindowCleared, bufferVars
<1>14. CASE NoNotepad
  <2>1. mode = "launched" /\ window \in BOOLEAN /\ (window <=> mode \in {"app", "notepad"})
    BY <1>14, Typed DEF NoNotepad, IInv
  <2>2. mode \notin {"app", "notepad"}
    BY <2>1
  <2>3. window = FALSE
    BY <2>1, <2>2
  <2>. QED
    BY <1>14, <2>3, ResetInv DEF NoNotepad, bufferVars
<1>. QED
  BY <1>1, <1>2, <1>3, <1>4, <1>c, <1>5, <1>6, <1>7, <1>8, <1>9, <1>10, <1>11, <1>12, <1>13, <1>14
  DEF Next, SystemCall

LEMMA StutterInv ==
  ASSUME IInv, UNCHANGED vars
  PROVE  IInv'
<1>1. /\ back' = back /\ lfb' = lfb /\ fb' = fb /\ mode' = mode /\ window' = window /\ last' = last
      /\ saved' = saved /\ picture' = picture /\ stale' = stale /\ ghosts' = ghosts
  BY DEF vars, bufferVars, cursorVars, historyVars
<1>. QED
  BY <1>1, Typed, ScreenInv DEF IInv

(* The buffers, the saved block and the picture agree as above.            *)
THEOREM Invariance == Spec => []IInv
<1>1. Init => IInv
  BY InitInv
<1>2. IInv /\ [Next]_vars => IInv'
  BY NextInv, StutterInv
<1>. QED
  BY <1>1, <1>2, PTL DEF Spec

(* What the buffers hold, and that the window clips exactly while its      *)
(* program runs.                                                           *)
THEOREM TypeCorrect == Spec => []TypeOK
<1>1. IInv => TypeOK
  BY DEF IInv
<1>. QED
  BY <1>1, Invariance, PTL

(* The cursor leaves no trace but on what was drawn behind its back.       *)
THEOREM LeavesNoTrace == Spec => []NoTrace
<1>1. IInv => NoTrace
  BY DEF IInv, Good, NoTrace
<1>. QED
  BY <1>1, Invariance, PTL

-----------------------------------------------------------------------------
(* The screen.                                                             *)

(* Every step but gfx_flush leaves the screen alone, between two modes.    *)
LEMMA StepTorn ==
  ASSUME [Next]_vars, lfb' # lfb, "text" \notin {mode, mode'}
  PROVE  lfb' = back'
<1>1. Next
  BY DEF vars, bufferVars
<1>2. ASSUME NEW area, NEW c, Draw(area, c)
      PROVE  FALSE
  BY <1>2 DEF Draw, Begun
<1>3. CASE SystemCall
  BY <1>2, <1>3 DEF SystemCall, ScPutPixel, ScFillRect, ScDrawRect, ScDrawChar, ScDrawText, ScGfxClear,
                    ScGfxFlush, ScCursor, Flush
<1>4. CASE BringUp \/ DoUi \/ DoRun \/ RunEnds
  BY <1>4 DEF BringUp, DoUi, DoRun, GfxInit, RunEnds
<1>5. CASE Frame \/ PrepareWin
  BY <1>5 DEF Frame, PrepareWin, Flush
<1>6. CASE WindowEnds \/ NoNotepad
  BY <1>6 DEF WindowEnds, NoNotepad, bufferVars
<1>. QED
  BY <1>1, <1>3, <1>4, <1>5, <1>6 DEF Next

(* Between two modes the screen changes only to all of the back buffer.    *)
THEOREM Untorn == Spec => NeverTorn
<1>1. [Next]_vars => [lfb' # lfb /\ "text" \notin {mode, mode'} => lfb' = back']_vars
  BY StepTorn
<1>. QED
  BY <1>1, PTL DEF Spec, NeverTorn

(* A frame is drawn whole: only where a cursor's block is put back over it *)
(* may it differ.                                                          *)
LEMMA FrameStep ==
  ASSUME IInv, Frame
  PROVE  \A p \in Screen : lfb'[p] # Shows(picture', last')[p] => mode = "desktop" /\ p \in Over(Block, last)
<1>1. PICK pos \in Screen, scene \in Scenes :
        /\ lfb' = WithCursor(scene, pos) /\ DrawCursor(scene, pos) /\ picture' = scene
        /\ mode \in {"desktop", "redraw"}
  BY DEF Frame, Flush
<1>2. /\ scene \in Buffers /\ saved \in [Block -> Colours] /\ White \in Colours
      /\ mode = "redraw" => last = Nowhere
  BY Typed, Kinds, GfxAssumption DEF IInv
<1>3. last' = pos
  BY <1>1 DEF DrawCursor
<1>4. Restored(scene) \in Buffers
  BY <1>2, RestoredType
<1>5. \A p \in Screen : lfb'[p] = IF p \in Over(Arrow, pos) THEN White ELSE Restored(scene)[p]
  BY <1>1, <1>2, <1>4, PaintType DEF WithCursor
<1>6. \A p \in Screen : Shows(picture', last')[p] = IF p \in Over(Arrow, pos) THEN White ELSE scene[p]
  BY <1>1, <1>2, <1>3, PaintType DEF Shows
<1>7. \A p \in Screen \ Over(Block, last) : Restored(scene)[p] = scene[p]
  BY <1>2, DrawnOver
<1>8. mode = "redraw" => Over(Block, last) = {}
  BY <1>2, OverNowhere
<1>. QED
  BY <1>1, <1>5, <1>6, <1>7, <1>8

(* A frame of the desktop shows its scene and the arrow, but on the block  *)
(* of the frame before.                                                    *)
THEOREM FramesShow == Spec => FrameShows
<1>. DEFINE P == mode' = "desktop" /\ mode \in {"desktop", "redraw"} =>
                   \A p \in Screen : lfb'[p] # Shows(picture', last')[p] => mode = "desktop" /\ p \in Over(Block, last)
<1>1. IInv /\ [Next]_vars => [P]_vars
  <2>. SUFFICES ASSUME IInv, Next, mode' = "desktop", mode \in {"desktop", "redraw"}
       PROVE  P
    OBVIOUS
  <2>1. ~SystemCall
    BY DEF SystemCall, ScPutPixel, ScFillRect, ScDrawRect, ScDrawChar, ScDrawText, ScGfxClear, ScGfxFlush, ScCursor,
           Draw, Program
  <2>2. Frame
    BY <2>1 DEF Next, BringUp, DoRun, DoUi, GfxInit, RunEnds, PrepareWin, Opens, WindowEnds, Closes, NoNotepad
  <2>. QED
    BY <2>2, FrameStep
<1>. QED
  BY <1>1, Invariance, PTL DEF Spec, FrameShows

-----------------------------------------------------------------------------
(* What a program in a window draws is inside of it.                       *)

LEMMA FillInside ==
  ASSUME GfxAssumption, NEW x \in Ints, NEW y \in Ints, NEW w \in 0 .. MaxSize, NEW h \in 0 .. MaxSize,
         Fits(Rect(x, y, w, h), Client)
  PROVE  FillRect(Rect(x, y, w, h), Client) \subseteq Area(Client)
<1>1. Client.w # 0
  BY DEF GfxAssumption
<1>. QED
  BY <1>1, FillExact DEF Visible

LEMMA PixelInside ==
  ASSUME GfxAssumption, NEW x, NEW y
  PROVE  PutPixel(x, y, Client) \subseteq Area(Client)
BY DEF PutPixel, GfxAssumption

(* The rectangles of programs keep away from the ends of int.              *)
LEMMA RectOfProgram ==
  ASSUME GfxAssumption, RectsAssumption, NEW r \in Rects
  PROVE  /\ r.x \in Ints /\ r.y \in Ints /\ r.w \in 0 .. MaxSize /\ r.h \in 0 .. MaxSize /\ 1 \in 0 .. MaxSize
         /\ Int32(Int32(r.x + r.w) - 1) = r.x + r.w - 1 /\ r.x + r.w - 1 \in Ints
         /\ Int32(Int32(r.y + r.h) - 1) = r.y + r.h - 1 /\ r.y + r.h - 1 \in Ints
         /\ r.x + r.w + Client.x < MaxInt /\ r.y + r.h + Client.y < MaxInt
<1>. DEFINE x == r.x
            y == r.y
            w == r.w
            h == r.h
            cx == Client.x
            cy == Client.y
<1>1. /\ x \in Ints /\ x # -MaxInt - 1 /\ y \in Ints /\ y # -MaxInt - 1 /\ w \in 0 .. MaxSize /\ h \in 0 .. MaxSize
      /\ x + w + cx \in Ints /\ x + w + cx # MaxInt /\ y + h + cy \in Ints /\ y + h + cy # MaxInt
  BY DEF RectsAssumption
<1>2. MaxInt \in Nat /\ MaxSize \in 1 .. MaxInt /\ cx \in Nat /\ cy \in Nat
  BY DEF GfxAssumption
<1>. HIDE DEF x, y, w, h, cx, cy
<1>3. /\ x + w + cx < MaxInt /\ y + h + cy < MaxInt /\ 1 \in 0 .. MaxSize
      /\ x \in Int /\ y \in Int /\ w \in Nat /\ h \in Nat /\ x > -MaxInt - 1 /\ y > -MaxInt - 1
  BY <1>1, <1>2 DEF Ints
<1>4. Int32(Int32(x + w) - 1) = x + w - 1 /\ x + w - 1 \in Ints
  BY <1>2, <1>3 DEF Int32, Ints
<1>5. Int32(Int32(y + h) - 1) = y + h - 1 /\ y + h - 1 \in Ints
  BY <1>2, <1>3 DEF Int32, Ints
<1>. QED
  BY <1>1, <1>3, <1>4, <1>5 DEF x, y, w, h, cx, cy

LEMMA RectInside ==
  ASSUME GfxAssumption, RectsAssumption, NEW r \in Rects
  PROVE  FillRect(r, Client) \subseteq Area(Client) /\ DrawRect(r, Client) \subseteq Area(Client)
<1>. DEFINE x == r.x
            y == r.y
            w == r.w
            h == r.h
<1>1. /\ x \in Ints /\ y \in Ints /\ w \in 0 .. MaxSize /\ h \in 0 .. MaxSize /\ 1 \in 0 .. MaxSize
      /\ x + w - 1 \in Ints /\ y + h - 1 \in Ints
      /\ x + w + Client.x < MaxInt /\ y + h + Client.y < MaxInt
  BY RectOfProgram
<1>2. FillRect(r, Client) = FillRect(Rect(x, y, w, h), Client)
  BY DEF FillRect, Rect
<1>3. DrawRect(r, Client) =
        UNION {FillRect(Rect(x, y, w, 1), Client), FillRect(Rect(x, y + h - 1, w, 1), Client),
               FillRect(Rect(x, y, 1, h), Client), FillRect(Rect(x + w - 1, y, 1, h), Client)}
  BY RectOfProgram DEF DrawRect
<1>4. Client.x \in Nat /\ Client.y \in Nat /\ MaxInt \in Nat /\ MaxSize \in Nat
  BY DEF GfxAssumption
<1>. HIDE DEF x, y, w, h
<1>5. /\ Fits(Rect(x, y, w, h), Client) /\ Fits(Rect(x, y, w, 1), Client) /\ Fits(Rect(x, y + h - 1, w, 1), Client)
      /\ Fits(Rect(x, y, 1, h), Client) /\ Fits(Rect(x + w - 1, y, 1, h), Client)
  <2>. DEFINE cx == Client.x
              cy == Client.y
  <2>1. cx \in Nat /\ cy \in Nat /\ x + w + cx < MaxInt /\ y + h + cy < MaxInt
    BY <1>1, <1>4
  <2>. HIDE DEF cx, cy
  <2>2. /\ x \in Int /\ y \in Int /\ w \in Nat /\ h \in Nat
    BY <1>1, <1>4 DEF Ints
  <2>3. /\ x + w + cx <= MaxInt /\ y + h + cy <= MaxInt /\ y + 1 + cy <= MaxInt /\ x + 1 + cx <= MaxInt
        /\ y + h - 1 + 1 + cy <= MaxInt /\ x + w - 1 + 1 + cx <= MaxInt
    BY <1>4, <2>1, <2>2
  <2>. QED
    BY <2>3 DEF Fits, Rect, cx, cy
<1>6. FillRect(Rect(x, y, w, h), Client) \subseteq Area(Client)
  BY <1>1, <1>5, FillInside
<1>7. FillRect(Rect(x, y, w, 1), Client) \subseteq Area(Client)
  BY <1>1, <1>5, FillInside
<1>8. FillRect(Rect(x, y + h - 1, w, 1), Client) \subseteq Area(Client)
  BY <1>1, <1>5, FillInside
<1>9. FillRect(Rect(x, y, 1, h), Client) \subseteq Area(Client)
  BY <1>1, <1>5, FillInside
<1>10. FillRect(Rect(x + w - 1, y, 1, h), Client) \subseteq Area(Client)
  BY <1>1, <1>5, FillInside
<1>. QED
  BY <1>2, <1>3, <1>6, <1>7, <1>8, <1>9, <1>10

LEMMA TextInside ==
  ASSUME GfxAssumption, NEW x, NEW y, NEW s
  PROVE  DrawText(x, y, s, Client) \subseteq Area(Client)
BY PixelInside DEF DrawText, DrawGlyph

LEMMA CharInside ==
  ASSUME GfxAssumption, NEW x, NEW y, NEW c
  PROVE  DrawChar(x, y, c, Client) \subseteq Area(Client)
BY PixelInside DEF DrawChar, DrawGlyph

LEMMA DrawnInside ==
  ASSUME IInv, NEW area, NEW c \in Colours, Draw(area, c), area \subseteq Area(Client)
  PROVE  \A p \in Screen \ Area(Client) : picture'[p] = picture[p]
BY Typed, PaintType DEF Draw, IInv

LEMMA StepInside ==
  ASSUME IInv, [Next]_vars, mode' = mode, mode \in {"app", "notepad"}
  PROVE  \A p \in Screen \ Area(Client) : picture'[p] = picture[p]
<1>1. Win = Client
  BY Typed DEF Win, IInv
<1>2. CASE ScPutPixel
  BY <1>1, <1>2, PixelInside, DrawnInside, GfxAssumption DEF ScPutPixel
<1>3. CASE ScFillRect
  BY <1>1, <1>3, RectInside, DrawnInside, GfxAssumption, RectsAssumption DEF ScFillRect
<1>4. CASE ScDrawRect
  BY <1>1, <1>4, RectInside, DrawnInside, GfxAssumption, RectsAssumption DEF ScDrawRect
<1>c. CASE ScDrawChar
  BY <1>1, <1>c, CharInside, DrawnInside, GfxAssumption DEF ScDrawChar
<1>5. CASE ScDrawText
  BY <1>1, <1>5, TextInside, DrawnInside, GfxAssumption DEF ScDrawText
<1>6. CASE ScGfxClear
  <2>1. window
    BY Typed DEF IInv
  <2>2. /\ 0 \in Ints /\ Client.w \in 0 .. MaxSize /\ Client.h \in 0 .. MaxSize
        /\ Fits(Rect(0, 0, Client.w, Client.h), Client)
    <3>. DEFINE x == Client.x
                y == Client.y
                w == Client.w
                h == Client.h
    <3>1. /\ x \in Nat /\ y \in Nat /\ w \in Nat /\ h \in Nat /\ x + w <= Width /\ y + h <= Height
          /\ MaxInt \in Nat /\ MaxSize \in 1 .. MaxInt /\ Width \in 1 .. MaxSize /\ Height \in 1 .. MaxSize
      BY GfxAssumption DEF GfxAssumption
    <3>. HIDE DEF x, y, w, h
    <3>2. 0 \in Ints /\ w \in 0 .. MaxSize /\ h \in 0 .. MaxSize /\ 0 + w + x <= MaxInt /\ 0 + h + y <= MaxInt
      BY <3>1 DEF Ints
    <3>. QED
      BY <3>2 DEF Fits, Rect, x, y, w, h
  <2>3. FillRect(Rect(0, 0, Client.w, Client.h), Client) \subseteq Area(Client)
    BY <2>2, FillInside, GfxAssumption
  <2>. QED
    BY <1>1, <1>6, <2>1, <2>3, DrawnInside DEF ScGfxClear
<1>7. CASE ScGfxFlush \/ ScCursor \/ UNCHANGED vars
  BY <1>7 DEF ScGfxFlush, ScCursor, vars, historyVars
<1>8. ~(BringUp \/ DoRun \/ DoUi \/ RunEnds \/ Frame \/ PrepareWin \/ WindowEnds \/ NoNotepad)
  BY DEF BringUp, DoRun, DoUi, GfxInit, RunEnds, Frame, PrepareWin, Opens, WindowEnds, Closes, NoNotepad
<1>. QED
  BY <1>2, <1>3, <1>4, <1>c, <1>5, <1>6, <1>7, <1>8 DEF Next, SystemCall

(* A program in a window changes no pixel outside of it.                   *)
THEOREM KeptInWindow == Spec => StaysInWindow
<1>1. IInv /\ [Next]_vars =>
        [mode' = mode /\ mode \in {"app", "notepad"} =>
           \A p \in Screen \ Area(Client) : picture'[p] = picture[p]]_vars
  BY StepInside
<1>. QED
  BY <1>1, Invariance, PTL DEF Spec, StaysInWindow

(* The window is its program's, and the picture is under the cursor.        *)
THEOREM Sound == Spec => []ScreenSound
BY TypeCorrect, LeavesNoTrace, PTL DEF ScreenSound

-----------------------------------------------------------------------------
(* What is made step by step: functions that are defined by recursion on   *)
(* the numbers exist, and what each step keeps holds of them.              *)
(* What holds of 0 and passes from each number to the next holds up to n:  *)
(* among the intervals up to a number of which it does not, one is least.  *)
LEMMA UpTo ==
  ASSUME NEW n \in Nat, NEW G, 0 \in G, \A k \in 0 .. n - 1 : k \in G => k + 1 \in G
  PROVE  \A k \in 0 .. n : k \in G
<1>. DEFINE Bad == {0 .. k : k \in (0 .. n) \ G}
<1>. SUFFICES ASSUME NEW k \in 0 .. n, k \notin G PROVE FALSE
  OBVIOUS
<1>1. Bad \subseteq FiniteSubsetsOf(0 .. n) /\ Bad # {}
  <2>1. IsFiniteSet(0 .. n)
    BY FS_Interval
  <2>2. \A j \in 0 .. n : 0 .. j \in SUBSET (0 .. n)
    OBVIOUS
  <2>. QED
    BY <2>1, <2>2, FS_FiniteSubsetsOfFinite
<1>2. PICK B \in Bad : \A C \in Bad : <<C, B>> \notin StrictSubsetOrdering(0 .. n)
  <2>. HIDE DEF Bad
  <2>1. IsFiniteSet(0 .. n)
    BY FS_Interval
  <2>. QED
    BY <1>1, <2>1, FS_StrictSubsetOrderingWellFounded, WFMin
<1>3. PICK p \in (0 .. n) \ G : B = 0 .. p
  BY <1>2
<1>4. p - 1 \in 0 .. n - 1 /\ p - 1 \in 0 .. n /\ (p - 1) + 1 = p /\ p - 1 \notin G
  BY <1>3
<1>5. <<0 .. p - 1, 0 .. p>> \in StrictSubsetOrdering(0 .. n)
  <2>1. 0 .. p - 1 \in SUBSET (0 .. n) /\ 0 .. p \in SUBSET (0 .. n)
    BY <1>3
  <2>2. 0 .. p - 1 \subseteq 0 .. p /\ p \in 0 .. p /\ p \notin 0 .. p - 1
    BY <1>3
  <2>. QED
    BY <2>1, <2>2 DEF StrictSubsetOrdering
<1>. QED
  BY <1>2, <1>3, <1>4, <1>5

(* A function that each value of which is made from the one before exists. *)
MadeOf(f, n, V, start, step) ==
  f \in [0 .. n -> V] /\ f[0] = start /\ \A k \in 1 .. n : f[k] = step[k][f[k - 1]]
LEMMA Recurs ==
  ASSUME NEW n \in Nat, NEW V, NEW start \in V, NEW step, step \in [1 .. n -> [V -> V]]
  PROVE  \E f : MadeOf(f, n, V, start, step)
<1>. DEFINE Upto(f, m) == f[0] = start /\ \A k \in 1 .. m : f[k] = step[k][f[k - 1]]
            Made(m) == \E f \in [0 .. m -> V] : Upto(f, m)
            G == {m \in 0 .. n : Made(m)}
<1>1. 0 \in G
  <2>. DEFINE f == [k \in 0 .. 0 |-> start]
  <2>1. f \in [0 .. 0 -> V] /\ f[0] = start /\ 1 .. 0 = {}
    OBVIOUS
  <2>. HIDE DEF f
  <2>2. Upto(f, 0)
    BY <2>1
  <2>. QED
    BY <2>1, <2>2
<1>2. ASSUME NEW m \in 0 .. n - 1, m \in G PROVE m + 1 \in G
  <2>1. PICK f \in [0 .. m -> V] : Upto(f, m)
    BY <1>2
  <2>. DEFINE v == step[m + 1][f[m]]
              g == [k \in 0 .. m + 1 |-> IF k = m + 1 THEN v ELSE f[k]]
  <2>2. m \in 0 .. m /\ m + 1 \in 1 .. n /\ v \in V
    BY <2>1
  <2>. HIDE DEF v
  <2>3. g \in [0 .. m + 1 -> V]
    BY <2>1, <2>2
  <2>4. ASSUME NEW k \in 1 .. m + 1 PROVE g[k] = step[k][g[k - 1]]
    <3>1. CASE k = m + 1
      BY <2>2, <3>1 DEF v
    <3>2. CASE k # m + 1
      BY <2>1, <3>2
    <3>. QED
      BY <3>1, <3>2
  <2>5. g[0] = start
    BY <2>1
  <2>6. Upto(g, m + 1)
    BY <2>4, <2>5
  <2>7. m + 1 \in 0 .. n
    OBVIOUS
  <2>. HIDE DEF g, Upto
  <2>8. Made(m + 1)
    BY <2>3, <2>6
  <2>. HIDE DEF Made
  <2>. QED
    BY <2>7, <2>8
<1>3. n \in G
  <2>. HIDE DEF G
  <2>1. \A m \in 0 .. n - 1 : m \in G => m + 1 \in G
    BY <1>2
  <2>2. \A k \in 0 .. n : k \in G
    BY ONLY n \in Nat, <1>1, <2>1, UpTo
  <2>. QED
    BY <2>2
<1>. QED
  BY <1>3 DEF MadeOf

-----------------------------------------------------------------------------
(* The measure of a text up to each character, and where it is drawn.      *)
Sums(f, cs) == f = [k \in 0 .. Len(cs) |-> IF k = 0 THEN 0 ELSE f[k - 1] + WidthOf(cs[k])]
Places(f, cs) ==
  f = [k \in 1 .. Len(cs) + 1 |->
         IF k = 1 THEN <<0, 0>>
         ELSE IF cs[k - 1] = Newline THEN <<0, f[k - 1][2] + FontH>>
         ELSE <<f[k - 1][1] + Advance(cs[k - 1]), f[k - 1][2]>>]
SumOf(cs) == CHOOSE f : Sums(f, cs)

LEMMA MeasuredBySums == \A cs : TextWidth(cs) = SumOf(cs)[Len(cs)]
BY DEF TextWidth, SumOf, Sums

LEMMA PlacedByPlaces == \A cs : PlaceOf(cs) = CHOOSE f : Places(f, cs)
BY DEF PlaceOf, Places

LEMMA Widths ==
  \A c : /\ WidthOf(c) \in Nat /\ Advance(c) \in Nat
         /\ c \in Nat /\ c # Newline => Advance(c) <= WidthOf(c)
         /\ c \in Nat /\ c # Newline /\ (c < 128 \/ Known(c)) => Advance(c) = WidthOf(c)
BY FontAssumption DEF WidthOf, Advance

LEMMA SumsExist ==
  ASSUME NEW cs \in Seq(Nat)
  PROVE  Sums(SumOf(cs), cs) /\ SumOf(cs) \in [0 .. Len(cs) -> Nat]
<1>1. Len(cs) \in Nat
  OBVIOUS
<1>. DEFINE step == [k \in 1 .. Len(cs) |-> [v \in Nat |-> v + WidthOf(cs[k])]]
<1>2. step \in [1 .. Len(cs) -> [Nat -> Nat]]
  BY Widths
<1>3. PICK f : MadeOf(f, Len(cs), Nat, 0, step)
  <2>. HIDE DEF step
  <2>1. 0 \in Nat
    OBVIOUS
  <2>. QED
    BY ONLY <1>1, <1>2, <2>1, Recurs
<1>4. \A k \in 1 .. Len(cs) : f[k] = f[k - 1] + WidthOf(cs[k])
  <2>. TAKE k \in 1 .. Len(cs)
  <2>1. f[k - 1] \in Nat /\ f[k] = step[k][f[k - 1]]
    <3>. HIDE DEF step
    <3>1. k - 1 \in 0 .. Len(cs)
      BY <1>1
    <3>2. f \in [0 .. Len(cs) -> Nat] /\ f[k] = step[k][f[k - 1]]
      BY <1>3 DEF MadeOf
    <3>. QED
      BY ONLY <3>1, <3>2
  <2>2. step[k] = [v \in Nat |-> v + WidthOf(cs[k])]
    OBVIOUS
  <2>. HIDE DEF step
  <2>. QED
    BY <2>1, <2>2
<1>5. Sums(f, cs)
  BY <1>1, <1>3, <1>4 DEF Sums, MadeOf
<1>6. Sums(SumOf(cs), cs)
  BY <1>5 DEF SumOf
<1>. DEFINE g == SumOf(cs)
            G == {k \in 0 .. Len(cs) : g[k] \in Nat}
<1>7. \A k \in 0 .. Len(cs) : g[k] = IF k = 0 THEN 0 ELSE g[k - 1] + WidthOf(cs[k])
  BY <1>6 DEF Sums
<1>8. g = [k \in 0 .. Len(cs) |-> g[k]]
  BY <1>6 DEF Sums
<1>. HIDE DEF g
<1>9. 0 \in G /\ \A k \in 0 .. Len(cs) - 1 : k \in G => k + 1 \in G
  BY <1>1, <1>7, Widths
<1>10. \A k \in 0 .. Len(cs) : k \in G
  <2>. HIDE DEF G
  <2>. DEFINE n == Len(cs)
  <2>1. n \in Nat /\ 0 \in G /\ \A k \in 0 .. n - 1 : k \in G => k + 1 \in G
    BY <1>1, <1>9
  <2>. HIDE DEF n
  <2>2. \A k \in 0 .. n : k \in G
    BY ONLY <2>1, UpTo
  <2>. QED
    BY <2>2 DEF n
<1>11. g \in [0 .. Len(cs) -> Nat]
  BY <1>8, <1>10
<1>. QED
  BY <1>6, <1>11 DEF g

LEMMA PlacesExist == ASSUME NEW cs \in Seq(Nat) PROVE Places(PlaceOf(cs), cs)
<1>1. Len(cs) \in Nat
  OBVIOUS
<1>. DEFINE P == Nat \X Nat
            next(k, p) == IF cs[k] = Newline THEN <<0, p[2] + FontH>>
                          ELSE <<p[1] + Advance(cs[k]), p[2]>>
            step == [k \in 1 .. Len(cs) |-> [p \in P |-> next(k, p)]]
<1>2. step \in [1 .. Len(cs) -> [P -> P]] /\ <<0, 0>> \in P
  BY Widths, FontAssumption
<1>3. PICK g : MadeOf(g, Len(cs), P, <<0, 0>>, step)
  <2>. HIDE DEF step, P
  <2>1. <<0, 0>> \in P
    BY <1>2
  <2>. QED
    BY ONLY <1>1, <1>2, <2>1, Recurs
<1>4. \A k \in 1 .. Len(cs) : g[k] = next(k, g[k - 1])
  <2>. TAKE k \in 1 .. Len(cs)
  <2>1. g[k - 1] \in P /\ g[k] = step[k][g[k - 1]]
    <3>. HIDE DEF P, step
    <3>. QED
      BY <1>1, <1>3 DEF MadeOf
  <2>2. step[k] = [p \in P |-> next(k, p)]
    OBVIOUS
  <2>. HIDE DEF step, P, next
  <2>. QED
    BY <2>1, <2>2
<1>. HIDE DEF step
<1>. DEFINE f == [k \in 1 .. Len(cs) + 1 |-> g[k - 1]]
<1>5. \A k \in 1 .. Len(cs) + 1 :
        f[k] = IF k = 1 THEN <<0, 0>> ELSE next(k - 1, f[k - 1])
  <2>. TAKE k \in 1 .. Len(cs) + 1
  <2>1. CASE k = 1
    <3>1. g[0] = <<0, 0>>
      BY <1>3 DEF MadeOf
    <3>. QED
      BY <2>1, <3>1, <1>1
  <2>2. CASE k # 1
    <3>1. k - 1 \in 1 .. Len(cs) /\ k - 1 \in 1 .. Len(cs) + 1 /\ k \in 1 .. Len(cs) + 1
      BY <1>1, <2>2
    <3>2. g[k - 1] = next(k - 1, g[k - 1 - 1])
      BY <1>4, <3>1
    <3>3. f[k] = g[k - 1] /\ f[k - 1] = g[k - 1 - 1]
      BY <3>1
    <3>. HIDE DEF f, next
    <3>. QED
      BY <2>2, <3>2, <3>3
  <2>. QED
    BY <2>1, <2>2
<1>6. f = [k \in 1 .. Len(cs) + 1 |-> f[k]]
  OBVIOUS
<1>. HIDE DEF f
<1>7. Places(f, cs)
  BY <1>5, <1>6 DEF Places
<1>. QED
  BY <1>7, PlacedByPlaces

LEMMA NextPlaces ==
  ASSUME NEW cs \in Seq(Nat)
  PROVE  /\ PlaceOf(cs)[1] = <<0, 0>>
         /\ \A k \in 1 .. Len(cs) :
              PlaceOf(cs)[k + 1] =
                IF cs[k] = Newline THEN <<0, PlaceOf(cs)[k][2] + FontH>>
                ELSE <<PlaceOf(cs)[k][1] + Advance(cs[k]), PlaceOf(cs)[k][2]>>
<1>. DEFINE at == PlaceOf(cs)
<1>1. Len(cs) \in Nat /\ Places(at, cs)
  BY PlacesExist
<1>2. \A k \in 1 .. Len(cs) + 1 :
        at[k] = IF k = 1 THEN <<0, 0>>
                ELSE IF cs[k - 1] = Newline THEN <<0, at[k - 1][2] + FontH>>
                ELSE <<at[k - 1][1] + Advance(cs[k - 1]), at[k - 1][2]>>
  <2>. HIDE DEF at
  <2>. QED
    BY <1>1 DEF Places
<1>. HIDE DEF at
<1>3. at[1] = <<0, 0>>
  <2>1. 1 \in 1 .. Len(cs) + 1
    BY <1>1
  <2>. QED
    BY ONLY <1>2, <2>1
<1>4. ASSUME NEW k \in 1 .. Len(cs)
      PROVE at[k + 1] = IF cs[k] = Newline THEN <<0, at[k][2] + FontH>>
                        ELSE <<at[k][1] + Advance(cs[k]), at[k][2]>>
  <2>1. k + 1 \in 1 .. Len(cs) + 1 /\ (k + 1) - 1 = k /\ k + 1 # 1
    BY <1>1
  <2>. QED
    BY <1>2, <2>1
<1>. QED
  BY <1>3, <1>4 DEF at

LEMMA AllMeasured == ASSUME NEW cs \in Seq(Nat) PROVE AsMeasured(cs)
<1>. DEFINE n == Len(cs)
            at == PlaceOf(cs)
            sum == SumOf(cs)
<1>1. /\ n \in Nat /\ DOMAIN cs = 1 .. n /\ TextWidth(cs) = sum[n]
      /\ \A k \in 1 .. n : cs[k] \in Nat
  BY MeasuredBySums
<1>2. /\ sum \in [0 .. n -> Nat] /\ sum[0] = 0
      /\ \A k \in 1 .. n : sum[k] = sum[k - 1] + WidthOf(cs[k])
  BY SumsExist DEF Sums
<1>3. /\ at[1] = <<0, 0>>
      /\ \A k \in 1 .. n : at[k + 1] = IF cs[k] = Newline THEN <<0, at[k][2] + FontH>>
                                       ELSE <<at[k][1] + Advance(cs[k]), at[k][2]>>
  BY NextPlaces
<1>. HIDE DEF n, at, sum
<1>4. \A k \in 0 .. n : \E x, y \in Nat : at[k + 1] = <<x, y>> /\ x <= sum[k]
  <2>. DEFINE G == {j \in 0 .. n : \E x, y \in Nat : at[j + 1] = <<x, y>> /\ x <= sum[j]}
  <2>1. 0 \in G
    <3>1. at[0 + 1] = <<0, 0>> /\ 0 <= sum[0] /\ 0 \in 0 .. n
      BY <1>1, <1>2, <1>3
    <3>. QED
      BY <3>1
  <2>2. ASSUME NEW j \in 0 .. n - 1, j \in G PROVE j + 1 \in G
    <3>1. PICK x, y \in Nat : at[j + 1] = <<x, y>> /\ x <= sum[j]
      BY <2>2
    <3>2. j + 1 \in 1 .. n /\ j + 1 \in 0 .. n /\ j \in 0 .. n /\ (j + 1) - 1 = j
      BY <1>1
    <3>. DEFINE k == j + 1
    <3>3. /\ k \in 1 .. n /\ at[k] = <<x, y>>
          /\ at[k + 1] = IF cs[k] = Newline THEN <<0, at[k][2] + FontH>>
                         ELSE <<at[k][1] + Advance(cs[k]), at[k][2]>>
      <4>1. k \in 1 .. n /\ at[k] = <<x, y>>
        BY <3>1, <3>2
      <4>. HIDE DEF k
      <4>. QED
        BY ONLY <1>3, <4>1
    <3>4. /\ sum[j + 1] = sum[j] + WidthOf(cs[j + 1]) /\ cs[j + 1] \in Nat
          /\ sum[j + 1] \in Nat /\ sum[j] \in Nat
      BY <1>1, <1>2, <3>2
    <3>5. CASE cs[j + 1] = Newline
      <4>1. at[(j + 1) + 1] = <<0, y + FontH>> /\ y + FontH \in Nat
        <5>1. cs[k] = Newline
          BY <3>5
        <5>2. y + FontH \in Nat
          BY FontAssumption
        <5>. HIDE DEF k
        <5>3. at[k + 1] = <<0, y + FontH>>
          BY <3>3, <5>1
        <5>. QED
          BY <5>2, <5>3 DEF k
      <4>2. \E a, b \in Nat : at[(j + 1) + 1] = <<a, b>> /\ a <= sum[j + 1]
        <5>1. 0 \in Nat /\ 0 <= sum[j + 1]
          BY <3>4
        <5>. QED
          BY ONLY <4>1, <5>1
      <4>. QED
        BY <3>2, <4>2
    <3>6. CASE cs[j + 1] # Newline
      <4>1. at[(j + 1) + 1] = <<x + Advance(cs[j + 1]), y>>
        <5>1. cs[k] # Newline
          BY <3>6
        <5>. HIDE DEF k
        <5>2. at[k + 1] = <<x + Advance(cs[k]), y>>
          BY <3>3, <5>1
        <5>. QED
          BY <5>2 DEF k
      <4>2. /\ Advance(cs[j + 1]) \in Nat /\ WidthOf(cs[j + 1]) \in Nat
            /\ Advance(cs[j + 1]) <= WidthOf(cs[j + 1])
        BY <3>4, <3>6, Widths
      <4>3. x + Advance(cs[j + 1]) \in Nat /\ x + Advance(cs[j + 1]) <= sum[j + 1]
        <5>. DEFINE a == Advance(cs[j + 1])
                    w == WidthOf(cs[j + 1])
                    before == sum[j]
                    after == sum[j + 1]
        <5>1. {a, w, before, after} \subseteq Nat /\ a <= w /\ after = before + w /\ x <= before
          BY <3>1, <3>4, <4>2
        <5>. HIDE DEF a, w, before, after
        <5>2. x + a \in Nat /\ x + a <= after
          BY <5>1
        <5>. QED
          BY <5>2 DEF a, after
      <4>. QED
        BY <3>2, <4>1, <4>3
    <3>. QED
      BY <3>5, <3>6
  <2>3. \A j \in 0 .. n : j \in G
    <3>. HIDE DEF G
    <3>1. n \in Nat /\ 0 \in G /\ \A j \in 0 .. n - 1 : j \in G => j + 1 \in G
      BY <1>1, <2>1, <2>2
    <3>. QED
      BY ONLY <3>1, UpTo
  <2>. QED
    BY <2>3
<1>5. ASSUME NEW k \in 0 .. n PROVE sum[k] <= sum[n]
  <2>. DEFINE G == {j \in 0 .. n : k <= j => sum[k] <= sum[j]}
  <2>1. 0 \in G
    BY <1>1, <1>2
  <2>2. ASSUME NEW j \in 0 .. n - 1, j \in G PROVE j + 1 \in G
    <3>1. sum[j + 1] = sum[j] + WidthOf(cs[j + 1]) /\ WidthOf(cs[j + 1]) \in Nat
          /\ sum[j + 1] \in Nat /\ sum[j] \in Nat /\ sum[k] \in Nat
      BY <1>1, <1>2, Widths
    <3>. QED
      BY <1>1, <2>2, <3>1
  <2>3. \A j \in 0 .. n : j \in G
    <3>. HIDE DEF G
    <3>1. n \in Nat /\ 0 \in G /\ \A j \in 0 .. n - 1 : j \in G => j + 1 \in G
      BY <1>1, <2>1, <2>2
    <3>. QED
      BY ONLY <3>1, UpTo
  <2>. QED
    BY <1>1, <2>3
<1>6. ASSUME NEW k \in 1 .. n, cs[k] # Newline PROVE at[k][1] + Advance(cs[k]) <= sum[n]
  <2>1. k - 1 \in 0 .. n /\ k \in 0 .. n /\ (k - 1) + 1 = k
    BY <1>1
  <2>2. PICK x, y \in Nat : at[k] = <<x, y>> /\ x <= sum[k - 1]
    <3>1. \E x, y \in Nat : at[(k - 1) + 1] = <<x, y>> /\ x <= sum[k - 1]
      BY <1>4, <2>1
    <3>. QED
      BY <2>1, <3>1
  <2>3. sum[k] = sum[k - 1] + WidthOf(cs[k]) /\ sum[k] <= sum[n]
    BY <1>2, <1>5, <2>1
  <2>4. Advance(cs[k]) <= WidthOf(cs[k]) /\ Advance(cs[k]) \in Nat /\ WidthOf(cs[k]) \in Nat
    BY <1>1, <1>6, Widths
  <2>5. {sum[k], sum[k - 1], sum[n]} \subseteq Nat /\ at[k][1] = x
    BY <1>1, <1>2, <2>1, <2>2
  <2>. QED
    BY <2>2, <2>3, <2>4, <2>5
<1>7. ASSUME \A k \in 1 .. n : cs[k] # Newline /\ (cs[k] < 128 \/ Known(cs[k]))
      PROVE  at[n + 1] = <<sum[n], 0>>
  <2>. DEFINE G == {j \in 0 .. n : at[j + 1] = <<sum[j], 0>>}
  <2>1. 0 \in G
    BY <1>1, <1>2, <1>3
  <2>2. ASSUME NEW j \in 0 .. n - 1, j \in G PROVE j + 1 \in G
    <3>1. j + 1 \in 1 .. n /\ j + 1 \in 0 .. n /\ j \in 0 .. n /\ (j + 1) - 1 = j
      BY <1>1
    <3>2. /\ sum[j + 1] = sum[j] + WidthOf(cs[j + 1]) /\ cs[j + 1] \in Nat
          /\ cs[j + 1] # Newline /\ (cs[j + 1] < 128 \/ Known(cs[j + 1]))
      BY <1>1, <1>2, <1>7, <3>1
    <3>3. at[j + 1] = <<sum[j], 0>>
      BY <2>2
    <3>. DEFINE k == j + 1
    <3>4. at[k + 1] = <<sum[j] + Advance(cs[k]), 0>>
      <4>1. k \in 1 .. n /\ at[k] = <<sum[j], 0>> /\ cs[k] # Newline
        BY <3>1, <3>2, <3>3
      <4>. HIDE DEF k
      <4>2. at[k + 1] = <<at[k][1] + Advance(cs[k]), at[k][2]>>
        BY ONLY <1>3, <4>1
      <4>. QED
        BY <4>1, <4>2
    <3>5. Advance(cs[j + 1]) = WidthOf(cs[j + 1])
      BY <3>2, Widths
    <3>. QED
      BY <3>1, <3>2, <3>4, <3>5
  <2>3. \A j \in 0 .. n : j \in G
    <3>. HIDE DEF G
    <3>1. n \in Nat /\ 0 \in G /\ \A j \in 0 .. n - 1 : j \in G => j + 1 \in G
      BY <1>1, <2>1, <2>2
    <3>. QED
      BY ONLY <3>1, UpTo
  <2>. QED
    BY <1>1, <2>3
<1>. QED
  BY <1>1, <1>6, <1>7 DEF AsMeasured, n, at, sum

-----------------------------------------------------------------------------
(* What is read from each byte of a text on.                               *)
Reading(f, s) ==
  f = [i \in 1 .. Len(s) + 4 |->
         IF i > Len(s) THEN <<>> ELSE <<CodePoint(s, i)>> \o f[NextChar(s, i)]]
ReadOf(s) == CHOOSE f : Reading(f, s)

LEMMA CharsRead == \A s : CharsOf(s) = ReadOf(s)[1]
BY DEF CharsOf, ReadOf, Reading

LEMMA Byte ==
  ASSUME NEW s \in Seq(0 .. 255), NEW k \in Nat \ {0} PROVE ByteAt(s, k) \in 0 .. 255
<1>1. Len(s) \in Nat
  OBVIOUS
<1>2. CASE k <= Len(s)
  <2>1. k \in 1 .. Len(s)
    BY <1>1, <1>2
  <2>2. s[k] \in 0 .. 255
    BY <2>1, ElementOfSeq, SMT
  <2>. QED
    BY <1>2, <2>2 DEF ByteAt
<1>3. CASE ~(k <= Len(s))
  BY <1>3 DEF ByteAt
<1>. QED
  BY <1>2, <1>3

LEMMA Decodes ==
  ASSUME NEW s \in Seq(0 .. 255), NEW i \in 1 .. Len(s)
  PROVE  CodePoint(s, i) \in Nat /\ NextChar(s, i) \in i + 1 .. i + 4
<1>1. \A k \in Nat \ {0} : ByteAt(s, k) \in 0 .. 255
  BY Byte
<1>2. Len(s) \in Nat /\ i \in Nat \ {0}
  OBVIOUS
<1>3. {ByteAt(s, i), ByteAt(s, i + 1), ByteAt(s, i + 2), ByteAt(s, i + 3)} \subseteq 0 .. 255
  BY <1>1, <1>2
<1>4. PICK a, b, c, d \in Nat :
        a = ByteAt(s, i) /\ b = ByteAt(s, i + 1) /\ c = ByteAt(s, i + 2) /\ d = ByteAt(s, i + 3)
  <2>1. \A b \in 0 .. 255 : b \in Nat
    OBVIOUS
  <2>2. {ByteAt(s, i), ByteAt(s, i + 1), ByteAt(s, i + 2), ByteAt(s, i + 3)} \subseteq Nat
    BY <1>3, <2>1, Zenon
  <2>. QED
    BY <2>2, Zenon
<1>5. {a % 32, a % 16, a % 8, b % 64, c % 64, d % 64} \subseteq Nat
  BY SMT
<1>6. CodePoint(s, i) \in Nat
  <2>1. PICK x, y, z, v, w, u \in Nat :
          /\ x = a % 32 /\ y = a % 16 /\ z = a % 8
          /\ v = b % 64 /\ w = c % 64 /\ u = d % 64
    BY <1>5
  <2>2. /\ Low(s, i + 1) = v /\ Low(s, i + 2) = w /\ Low(s, i + 3) = u
        /\ LeadOfTwo(s, i) = x /\ ByteAt(s, i) % 16 = y /\ ByteAt(s, i) % 8 = z
    BY <1>4, <2>1 DEF Low, LeadOfTwo
  <2>3. /\ x * 64 + v \in Nat /\ y * 4096 + v * 64 + w \in Nat
        /\ z * 262144 + v * 4096 + w * 64 + u \in Nat
    BY SMT
  <2>4. CASE TakesTwo(s, i)
    <3>1. CodePoint(s, i) = LeadOfTwo(s, i) * 64 + Low(s, i + 1)
      BY <2>4, SMT DEF CodePoint
    <3>. QED
      BY <2>2, <2>3, <3>1, SMT
  <2>5. CASE ~TakesTwo(s, i) /\ TakesThree(s, i)
    <3>1. CodePoint(s, i) = (ByteAt(s, i) % 16) * 4096 + Low(s, i + 1) * 64 + Low(s, i + 2)
      BY <2>5, SMT DEF CodePoint
    <3>. QED
      BY <2>2, <2>3, <3>1, SMT
  <2>6. CASE ~TakesTwo(s, i) /\ ~TakesThree(s, i) /\ TakesFour(s, i)
    <3>1. CodePoint(s, i) = (ByteAt(s, i) % 8) * 262144 + Low(s, i + 1) * 4096
                              + Low(s, i + 2) * 64 + Low(s, i + 3)
      BY <2>6, SMT DEF CodePoint
    <3>2. ByteAt(s, i) % 8 = z /\ Low(s, i + 1) = v /\ Low(s, i + 2) = w /\ Low(s, i + 3) = u
      BY <2>2
    <3>3. CodePoint(s, i) = z * 262144 + v * 4096 + w * 64 + u
      BY ONLY <3>1, <3>2, SMT
    <3>. QED
      BY ONLY <2>3, <3>3, SMT
  <2>7. CASE ~TakesTwo(s, i) /\ ~TakesThree(s, i) /\ ~TakesFour(s, i)
    BY <1>4, <2>7, SMT DEF CodePoint
  <2>. QED
    BY <2>4, <2>5, <2>6, <2>7
<1>7. NextChar(s, i) \in i + 1 .. i + 4
  BY <1>2 DEF NextChar
<1>. QED
  BY <1>6, <1>7

(* A text can be read: from its end, a byte at a time.                     *)
Right(f, s, i) ==
  f[i] = IF i > Len(s) THEN <<>> ELSE <<CodePoint(s, i)>> \o f[NextChar(s, i)]
LEMMA CanBeRead ==
  ASSUME NEW s \in Seq(0 .. 255) PROVE Reading(ReadOf(s), s)
<1>. DEFINE n == Len(s)
            Seqs == Seq(Nat)
            Read(f, m) == /\ f \in [1 .. n + 4 -> Seqs]
                          /\ \A i \in 1 .. n + 4 : i > n - m => Right(f, s, i)
            G == {m \in 0 .. n : \E f : Read(f, m)}
<1>1. n \in Nat
  OBVIOUS
<1>2. 0 \in G
  <2>. DEFINE f == [i \in 1 .. n + 4 |-> <<>>]
  <2>1. f \in [1 .. n + 4 -> Seqs]
    OBVIOUS
  <2>2. \A i \in 1 .. n + 4 : i > n => Right(f, s, i)
    BY <1>1 DEF Right
  <2>3. Read(f, 0)
    <3>. HIDE DEF f, Seqs, Right
    <3>. QED
      BY <1>1, <2>1, <2>2
  <2>4. 0 \in 0 .. n
    BY <1>1
  <2>. HIDE DEF Read
  <2>. QED
    BY <2>3, <2>4
<1>3. ASSUME NEW m \in 0 .. n - 1, m \in G PROVE m + 1 \in G
  <2>1. PICK f : Read(f, m)
    BY <1>3
  <2>. DEFINE j == n - m
  <2>2. /\ j \in 1 .. n /\ j \in 1 .. n + 4 /\ m + 1 \in 0 .. n
        /\ \A i \in 1 .. n + 4 : i > n - m <=> i > j
        /\ \A i \in 1 .. n + 4 : i > n - (m + 1) <=> i >= j
    BY <1>1
  <2>. HIDE DEF j
  <2>. DEFINE v == <<CodePoint(s, j)>> \o f[NextChar(s, j)]
              g == [i \in 1 .. n + 4 |-> IF i = j THEN v ELSE f[i]]
  <2>3. NextChar(s, j) \in 1 .. n + 4 /\ NextChar(s, j) # j
    BY <1>1, <2>2, Decodes
  <2>4. v \in Seqs
    <3>1. CodePoint(s, j) \in Nat
      BY <2>2, Decodes
    <3>2. f[NextChar(s, j)] \in Seq(Nat)
      BY <2>1, <2>3
    <3>. QED
      BY <3>1, <3>2
  <2>. HIDE DEF v
  <2>5. g \in [1 .. n + 4 -> Seqs]
    <3>. HIDE DEF Seqs
    <3>1. f \in [1 .. n + 4 -> Seqs]
      BY <2>1
    <3>. QED
      BY ONLY <2>4, <3>1
  <2>6. ASSUME NEW i \in 1 .. n + 4, i >= j PROVE Right(g, s, i)
    <3>1. CASE i = j
      <4>1. g[j] = v /\ g[NextChar(s, j)] = f[NextChar(s, j)] /\ ~(j > n)
        BY <2>2, <2>3, <1>1
      <4>. HIDE DEF g
      <4>. QED
        BY <3>1, <4>1 DEF Right, v
    <3>2. CASE i # j
      <4>1. i > j /\ Right(f, s, i)
        BY <1>1, <2>1, <2>2, <2>6, <3>2
      <4>2. i <= n => NextChar(s, i) \in 1 .. n + 4 /\ NextChar(s, i) # j
        BY <1>1, <2>2, <4>1, Decodes
      <4>3. g[i] = f[i] /\ (i <= n => g[NextChar(s, i)] = f[NextChar(s, i)])
        BY <3>2, <4>2
      <4>4. i > n \/ i <= n
        BY <1>1
      <4>. HIDE DEF g
      <4>. QED
        BY <4>1, <4>3, <4>4 DEF Right
    <3>. QED
      BY <3>1, <3>2
  <2>7. Read(g, m + 1)
    <3>. HIDE DEF g, Seqs
    <3>. QED
      BY <2>2, <2>5, <2>6
  <2>. HIDE DEF g, Read
  <2>. QED
    BY <2>2, <2>7
<1>4. n \in G
  <2>. HIDE DEF G
  <2>1. n \in Nat /\ 0 \in G /\ \A m \in 0 .. n - 1 : m \in G => m + 1 \in G
    BY <1>1, <1>2, <1>3
  <2>2. \A m \in 0 .. n : m \in G
    BY ONLY <2>1, UpTo
  <2>. QED
    BY <1>1, <2>2
<1>5. PICK f : Read(f, n)
  BY <1>4
<1>6. \A i \in 1 .. n + 4 : Right(f, s, i)
  BY <1>1, <1>5
<1>7. f = [i \in 1 .. n + 4 |-> f[i]]
  BY <1>5
<1>8. Reading(f, s)
  BY <1>6, <1>7 DEF Right, Reading
<1>. QED
  BY <1>8 DEF ReadOf

LEMMA ReadRight ==
  ASSUME NEW s \in Seq(0 .. 255), NEW i \in 1 .. Len(s) + 4 PROVE Right(ReadOf(s), s, i)
<1>. DEFINE f == ReadOf(s)
<1>1. Reading(f, s)
  BY CanBeRead
<1>. HIDE DEF f
<1>2. Right(f, s, i)
  BY <1>1 DEF Reading, Right
<1>. QED
  BY <1>2 DEF f

LEMMA ReadType ==
  ASSUME NEW s \in Seq(0 .. 255) PROVE CharsOf(s) \in Seq(Nat)
<1>. DEFINE n == Len(s)
            f == ReadOf(s)
            G == {m \in 0 .. n : \A i \in 1 .. n + 4 : i > n - m => f[i] \in Seq(Nat)}
<1>1. n \in Nat
  OBVIOUS
<1>2. \A i \in 1 .. n + 4 : Right(f, s, i)
  BY ReadRight
<1>. HIDE DEF f
<1>3. 0 \in G
  <2>1. ASSUME NEW i \in 1 .. n + 4, i > n - 0 PROVE f[i] \in Seq(Nat)
    <3>1. i > Len(s)
      BY <1>1, <2>1
    <3>2. f[i] = <<>>
      BY <1>2, <3>1 DEF Right
    <3>. QED
      BY <3>2
  <2>. QED
    BY <1>1, <2>1
<1>4. ASSUME NEW m \in 0 .. n - 1, m \in G PROVE m + 1 \in G
  <2>1. ASSUME NEW i \in 1 .. n + 4, i > n - (m + 1) PROVE f[i] \in Seq(Nat)
    <3>1. CASE i > n - m
      BY <1>4, <3>1
    <3>2. CASE ~(i > n - m)
      <4>1. i \in 1 .. n /\ i = n - m /\ ~(i > n)
        BY <1>1, <2>1, <3>2
      <4>2. CodePoint(s, i) \in Nat /\ NextChar(s, i) \in 1 .. n + 4 /\ NextChar(s, i) > n - m
        BY <1>1, <4>1, Decodes
      <4>3. f[NextChar(s, i)] \in Seq(Nat)
        BY <1>4, <4>2
      <4>4. f[i] = <<CodePoint(s, i)>> \o f[NextChar(s, i)]
        BY <1>2, <4>1 DEF Right
      <4>. QED
        BY <4>2, <4>3, <4>4
    <3>. QED
      BY <3>1, <3>2
  <2>2. m + 1 \in 0 .. n
    BY <1>1
  <2>. QED
    BY <2>1, <2>2
<1>5. n \in G
  <2>. HIDE DEF G
  <2>1. n \in Nat /\ 0 \in G /\ \A m \in 0 .. n - 1 : m \in G => m + 1 \in G
    BY <1>1, <1>3, <1>4
  <2>2. \A m \in 0 .. n : m \in G
    BY ONLY <2>1, UpTo
  <2>. QED
    BY <1>1, <2>2
<1>6. f[1] \in Seq(Nat)
  BY <1>1, <1>5
<1>. QED
  BY <1>6, CharsRead DEF f

-----------------------------------------------------------------------------
(* What is encoded at a byte is decoded there.                             *)
LEMMA Halves ==
  ASSUME NEW c \in Nat
  PROVE  c \div 64 \in Nat /\ c % 64 \in 0 .. 63 /\ c = 64 * (c \div 64) + (c % 64)
BY SMT

LEMMA Quarters ==
  \A c \in Nat : (c \div 64) \div 64 = c \div 4096 /\ (c \div 4096) \div 64 = c \div 262144
BY SMT

LastPoint == 1114111
LEMMA LastLead ==
  ASSUME NEW c \in Nat, c <= LastPoint, NEW o, o = c \div 262144 PROVE o \in 0 .. 4
<1>1. o \in Int
  BY SMT
<1>2. o <= 4 /\ 0 <= o
  BY <1>1, SMT DEF LastPoint
<1>. QED
  BY <1>1, <1>2, SMT

(* The six bits that a byte carries, up to four times.                     *)
Sixes(c, q, p, o, x, y, z) ==
  /\ q = c \div 64 /\ p = c \div 4096 /\ o = c \div 262144
  /\ x = c % 64 /\ y = q % 64 /\ z = p % 64
LEMMA Digits ==
  ASSUME NEW c \in Nat, NEW q, NEW p, NEW o, NEW x, NEW y, NEW z, Sixes(c, q, p, o, x, y, z)
  PROVE  /\ c = q * 64 + x
         /\ c = p * 4096 + y * 64 + x
         /\ c = o * 262144 + z * 4096 + y * 64 + x
         /\ {q, p, o} \subseteq Nat /\ {x, y, z} \subseteq 0 .. 63
<1>1. q \in Nat /\ x \in 0 .. 63 /\ c = 64 * q + x
  BY Halves, SMT DEF Sixes
<1>2. p = q \div 64 /\ o = p \div 64 /\ y = q % 64 /\ z = p % 64
  BY Quarters, SMT DEF Sixes
<1>3. p \in Nat /\ y \in 0 .. 63 /\ q = 64 * p + y
  BY <1>1, <1>2, Halves, SMT
<1>4. o \in Nat /\ z \in 0 .. 63 /\ p = 64 * o + z
  BY <1>2, <1>3, Halves, SMT
<1>. QED
  BY ONLY <1>1, <1>3, <1>4, SMT

LEMMA Leads ==
  /\ \A b \in 0 .. 127 : b \div 32 # 6 /\ b \div 16 # 14 /\ b \div 8 # 30
  /\ \A q \in 0 .. 31 : (192 + q) \div 32 = 6 /\ (192 + q) % 32 = q
  /\ \A q \in 0 .. 15 : (224 + q) \div 32 = 7 /\ (224 + q) \div 16 = 14 /\ (224 + q) % 16 = q
  /\ \A q \in 0 .. 4 : /\ (240 + q) \div 32 = 7 /\ (240 + q) \div 16 = 15
                       /\ (240 + q) \div 8 = 30 /\ (240 + q) % 8 = q
  /\ \A x \in 0 .. 63 : (128 + x) \div 64 = 2 /\ (128 + x) % 64 = x
BY SMT

(* What Encoded gives, and how long it is.                                 *)
LEMMA EncodedAs ==
  ASSUME NEW c \in Nat, NEW q, NEW p, NEW o, NEW x, NEW y, NEW z, Sixes(c, q, p, o, x, y, z),
         c <= LastPoint
  PROVE  \/ c \in 0 .. 127 /\ Encoded(c) = <<c>>
         \/ q \in 0 .. 31 /\ Encoded(c) = <<192 + q, 128 + x>>
         \/ p \in 0 .. 15 /\ Encoded(c) = <<224 + p, 128 + y, 128 + x>>
         \/ o \in 0 .. 4 /\ Encoded(c) = <<240 + o, 128 + z, 128 + y, 128 + x>>
<1>1. Tail6(c) = 128 + x /\ Tail6(c \div 64) = 128 + y /\ Tail6(c \div 4096) = 128 + z
  BY SMT DEF Sixes, Tail6
<1>2. {q, p, o} \subseteq Nat /\ {x, y, z} \subseteq 0 .. 63 /\ c = q * 64 + x
      /\ c = p * 4096 + y * 64 + x
  BY Digits, SMT
<1>3. c < 2048 => q \in 0 .. 31
  BY <1>2, SMT
<1>4. c < 65536 => p \in 0 .. 15
  BY <1>2, SMT
<1>5. o \in 0 .. 4
  BY LastLead, SMT DEF Sixes
<1>6. CASE c < 128
  BY <1>6, SMT DEF Encoded
<1>7. CASE ~(c < 128) /\ c < 2048
  BY <1>1, <1>3, <1>7, SMT DEF Encoded, Sixes
<1>8. CASE ~(c < 128) /\ ~(c < 2048) /\ c < 65536
  BY <1>1, <1>4, <1>8, SMT DEF Encoded, Sixes
<1>9. CASE ~(c < 128) /\ ~(c < 2048) /\ ~(c < 65536)
  BY <1>1, <1>5, <1>9, SMT DEF Encoded, Sixes
<1>. QED
  BY <1>6, <1>7, <1>8, <1>9

LEMMA EncodedBytes ==
  ASSUME NEW c \in Nat, c <= LastPoint
  PROVE  Encoded(c) \in Seq(0 .. 255) /\ Len(Encoded(c)) \in 1 .. 4
<1>1. PICK q, p, o, x, y, z : Sixes(c, q, p, o, x, y, z)
  BY SMT DEF Sixes
<1>2. {x, y, z} \subseteq 0 .. 63
  BY <1>1, Digits, SMT
<1>3. {128 + x, 128 + y, 128 + z} \subseteq 0 .. 255
  BY <1>2
<1>4. CASE c \in 0 .. 127 /\ Encoded(c) = <<c>>
  BY <1>4
<1>5. CASE q \in 0 .. 31 /\ Encoded(c) = <<192 + q, 128 + x>>
  BY <1>3, <1>5
<1>6. CASE p \in 0 .. 15 /\ Encoded(c) = <<224 + p, 128 + y, 128 + x>>
  BY <1>3, <1>6
<1>7. CASE o \in 0 .. 4 /\ Encoded(c) = <<240 + o, 128 + z, 128 + y, 128 + x>>
  BY <1>3, <1>7
<1>. QED
  BY <1>1, <1>4, <1>5, <1>6, <1>7, EncodedAs, SMT

LEMMA DecodedAt ==
  ASSUME NEW c \in Nat, c <= LastPoint,
         NEW t \in Seq(0 .. 255), NEW i \in Nat \ {0},
         i + Len(Encoded(c)) - 1 <= Len(t),
         \A k \in 1 .. Len(Encoded(c)) : t[i + k - 1] = Encoded(c)[k]
  PROVE  CodePoint(t, i) = c /\ NextChar(t, i) = i + Len(Encoded(c))
<1>1. Len(t) \in Nat
  OBVIOUS
<1>2. \A k \in 1 .. Len(Encoded(c)) : ByteAt(t, i + k - 1) = Encoded(c)[k]
  BY <1>1, EncodedBytes, SMT DEF ByteAt
<1>3. PICK q, p, o, x, y, z : Sixes(c, q, p, o, x, y, z)
  BY SMT DEF Sixes
<1>4. /\ c = q * 64 + x
      /\ c = p * 4096 + y * 64 + x
      /\ c = o * 262144 + z * 4096 + y * 64 + x
      /\ {q, p, o} \subseteq Nat /\ {x, y, z} \subseteq 0 .. 63
  BY <1>3, Digits, SMT
<1>5. {x, y, z} \subseteq 0 .. 63
  BY <1>4, SMT
<1>6. /\ (128 + x) \div 64 = 2 /\ (128 + x) % 64 = x
      /\ (128 + y) \div 64 = 2 /\ (128 + y) % 64 = y
      /\ (128 + z) \div 64 = 2 /\ (128 + z) % 64 = z
  <2>1. \A r \in 0 .. 63 : (128 + r) \div 64 = 2 /\ (128 + r) % 64 = r
    BY Leads, SMT
  <2>. QED
    BY <1>5, <2>1, Zenon
<1>7. CASE c \in 0 .. 127 /\ Encoded(c) = <<c>>
  <2>1. ByteAt(t, i) = c
    BY <1>2, <1>7, SMT
  <2>2. ~TakesTwo(t, i) /\ ~TakesThree(t, i) /\ ~TakesFour(t, i)
    <3>1. c \div 32 # 6 /\ c \div 16 # 14 /\ c \div 8 # 30
      BY <1>7, Leads, SMT
    <3>. QED
      BY <2>1, <3>1, SMT DEF TakesTwo, TakesThree, TakesFour
  <2>. QED
    BY <1>7, <2>1, <2>2, SMT DEF CodePoint, NextChar
<1>8. CASE q \in 0 .. 31 /\ Encoded(c) = <<192 + q, 128 + x>>
  <2>1. ByteAt(t, i) = 192 + q /\ ByteAt(t, i + 1) = 128 + x
    BY <1>2, <1>8, SMT
  <2>2. TakesTwo(t, i) /\ LeadOfTwo(t, i) = q /\ Low(t, i + 1) = x
    <3>1. (192 + q) \div 32 = 6 /\ (192 + q) % 32 = q
      BY <1>8, Leads, SMT
    <3>. QED
      BY <2>1, <3>1, <1>6, SMT DEF TakesTwo, Continues, LeadOfTwo, Low
  <2>3. CodePoint(t, i) = LeadOfTwo(t, i) * 64 + Low(t, i + 1)
    BY <2>2, SMT DEF CodePoint
  <2>4. LeadOfTwo(t, i) * 64 + Low(t, i + 1) = q * 64 + x
    BY <2>2, SMT
  <2>5. CodePoint(t, i) = c
    BY ONLY <1>4, <2>3, <2>4, SMT
  <2>6. NextChar(t, i) = i + 2 /\ Len(Encoded(c)) = 2
    BY <1>8, <2>2, SMT DEF NextChar
  <2>. QED
    BY <2>5, <2>6
<1>9. CASE p \in 0 .. 15 /\ Encoded(c) = <<224 + p, 128 + y, 128 + x>>
  <2>1. ByteAt(t, i) = 224 + p /\ ByteAt(t, i + 1) = 128 + y /\ ByteAt(t, i + 2) = 128 + x
    BY <1>2, <1>9, SMT
  <2>2. (224 + p) \div 32 = 7 /\ (224 + p) \div 16 = 14 /\ (224 + p) % 16 = p
    BY <1>9, Leads, SMT
  <2>3. ~TakesTwo(t, i) /\ TakesThree(t, i)
    BY <1>6, <2>1, <2>2, SMT DEF TakesTwo, TakesThree, Continues
  <2>4. ByteAt(t, i) % 16 = p /\ Low(t, i + 1) = y /\ Low(t, i + 2) = x
    BY <1>6, <2>1, <2>2, SMT DEF Low
  <2>5. CodePoint(t, i) = (ByteAt(t, i) % 16) * 4096 + Low(t, i + 1) * 64 + Low(t, i + 2)
    BY <2>3, SMT DEF CodePoint
  <2>6. CodePoint(t, i) = p * 4096 + y * 64 + x
    BY ONLY <2>4, <2>5, SMT
  <2>7. CodePoint(t, i) = c
    BY ONLY <1>4, <2>6, SMT
  <2>8. NextChar(t, i) = i + 3 /\ Len(Encoded(c)) = 3
    BY <1>9, <2>3, SMT DEF NextChar
  <2>. QED
    BY <2>7, <2>8
<1>10. CASE o \in 0 .. 4 /\ Encoded(c) = <<240 + o, 128 + z, 128 + y, 128 + x>>
  <2>1. /\ ByteAt(t, i) = 240 + o /\ ByteAt(t, i + 1) = 128 + z
        /\ ByteAt(t, i + 2) = 128 + y /\ ByteAt(t, i + 3) = 128 + x
    BY <1>2, <1>10, SMT
  <2>2. /\ (240 + o) \div 32 = 7 /\ (240 + o) \div 16 = 15
        /\ (240 + o) \div 8 = 30 /\ (240 + o) % 8 = o
    BY <1>10, Leads, SMT
  <2>3. ~TakesTwo(t, i) /\ ~TakesThree(t, i) /\ TakesFour(t, i)
    BY <1>6, <2>1, <2>2, SMT DEF TakesTwo, TakesThree, TakesFour, Continues
  <2>4. ByteAt(t, i) % 8 = o /\ Low(t, i + 1) = z /\ Low(t, i + 2) = y /\ Low(t, i + 3) = x
    BY <1>6, <2>1, <2>2, SMT DEF Low
  <2>5. CodePoint(t, i) = (ByteAt(t, i) % 8) * 262144 + Low(t, i + 1) * 4096
                            + Low(t, i + 2) * 64 + Low(t, i + 3)
    BY <2>3, SMT DEF CodePoint
  <2>6. CodePoint(t, i) = o * 262144 + z * 4096 + y * 64 + x
    BY ONLY <2>4, <2>5, SMT
  <2>7. CodePoint(t, i) = c
    BY ONLY <1>4, <2>6, SMT
  <2>8. NextChar(t, i) = i + 4 /\ Len(Encoded(c)) = 4
    BY <1>10, <2>3, SMT DEF NextChar
  <2>. QED
    BY <2>7, <2>8
<1>. QED
  BY <1>3, <1>7, <1>8, <1>9, <1>10, EncodedAs, SMT

LEMMA AllDecoded ==
  ASSUME NEW c \in Nat, c <= LastPoint, NEW d \in Nat, d <= LastPoint
  PROVE  CharsOf(Encoded(c) \o Encoded(d)) = <<c, d>>
<1>. DEFINE a == Encoded(c)
            b == Encoded(d)
            t == a \o b
            f == ReadOf(t)
<1>1. /\ a \in Seq(0 .. 255) /\ b \in Seq(0 .. 255) /\ t \in Seq(0 .. 255)
      /\ Len(a) \in 1 .. 4 /\ Len(b) \in 1 .. 4 /\ Len(t) = Len(a) + Len(b)
  <2>1. a \in Seq(0 .. 255) /\ b \in Seq(0 .. 255) /\ Len(a) \in 1 .. 4 /\ Len(b) \in 1 .. 4
    BY EncodedBytes
  <2>. HIDE DEF a, b
  <2>. QED
    BY <2>1
<1>2. /\ \A k \in 1 .. Len(a) : t[k] = a[k]
      /\ \A k \in 1 .. Len(b) : t[Len(a) + k] = b[k]
  <2>. HIDE DEF a, b
  <2>. QED
    BY <1>1
<1>. HIDE DEF a, b, t, f
<1>3. CodePoint(t, 1) = c /\ NextChar(t, 1) = 1 + Len(a)
  <2>. DEFINE i == 1
  <2>1. i \in Nat \ {0} /\ i + Len(a) - 1 <= Len(t) /\ \A k \in 1 .. Len(a) : t[i + k - 1] = a[k]
    BY <1>1, <1>2
  <2>. HIDE DEF i
  <2>2. CodePoint(t, i) = c /\ NextChar(t, i) = i + Len(a)
    BY <1>1, <2>1, DecodedAt DEF a
  <2>. QED
    BY <2>2 DEF i
<1>4. CodePoint(t, 1 + Len(a)) = d /\ NextChar(t, 1 + Len(a)) = Len(t) + 1
  <2>. DEFINE i == 1 + Len(a)
  <2>1. /\ i \in Nat \ {0} /\ i + Len(b) - 1 <= Len(t) /\ i + Len(b) = Len(t) + 1
        /\ \A k \in 1 .. Len(b) : t[i + k - 1] = b[k]
    BY <1>1, <1>2
  <2>. HIDE DEF i
  <2>2. CodePoint(t, i) = d /\ NextChar(t, i) = i + Len(b)
    BY <1>1, <2>1, DecodedAt DEF b
  <2>. QED
    BY <2>1, <2>2 DEF i
<1>. DEFINE n == Len(a)
            m == Len(t)
<1>5. /\ n \in Nat /\ m \in Nat /\ n + 1 <= m /\ 1 <= m
      /\ \A i \in 1 .. m + 4 : Right(f, t, i)
  <2>1. n \in Nat /\ m \in Nat /\ n + 1 <= m /\ 1 <= m
    <3>1. PICK j, k \in 1 .. 4 : n = j /\ m = j + k
      BY <1>1, Zenon
    <3>. HIDE DEF n, m
    <3>. QED
      BY ONLY <3>1, SMT
  <2>2. \A i \in 1 .. Len(t) + 4 : Right(f, t, i)
    <3>1. \A i \in 1 .. Len(t) + 4 : Right(ReadOf(t), t, i)
      BY <1>1, ReadRight
    <3>. QED
      BY <3>1 DEF f
  <2>. QED
    BY <2>1, <2>2
<1>6. f[m + 1] = <<>>
  <2>1. m + 1 > m /\ Right(f, t, m + 1)
    BY <1>5
  <2>. QED
    BY <2>1 DEF Right
<1>7. f[1 + n] = <<d>> \o <<>>
  <2>1. ~(1 + n > m) /\ Right(f, t, 1 + n)
    BY <1>5
  <2>2. f[1 + n] = <<CodePoint(t, 1 + n)>> \o f[NextChar(t, 1 + n)]
    BY <2>1 DEF Right
  <2>. QED
    BY <1>4, <1>6, <2>2
<1>8. f[1] = <<c>> \o (<<d>> \o <<>>)
  <2>1. ~(1 > m) /\ Right(f, t, 1)
    BY <1>5
  <2>2. f[1] = <<CodePoint(t, 1)>> \o f[NextChar(t, 1)]
    BY <2>1 DEF Right
  <2>. QED
    BY <1>3, <1>7, <2>2
<1>9. <<c>> \o (<<d>> \o <<>>) = <<c, d>>
  <2>1. <<d>> \in Seq(Nat) /\ <<c>> \in Seq(Nat)
    OBVIOUS
  <2>2. <<d>> \o <<>> = <<d>>
    BY <2>1, ConcatEmptySeq
  <2>3. <<c>> \o <<d>> = <<c, d>>
    <3>. DEFINE l == <<c>> \o <<d>>
    <3>1. l \in Seq(Nat) /\ Len(l) = 2 /\ l[1] = c /\ l[2] = d
      BY <2>1
    <3>2. <<c, d>> \in Seq(Nat) /\ Len(<<c, d>>) = 2
      OBVIOUS
    <3>. HIDE DEF l
    <3>3. l = <<c, d>>
      BY <3>1, <3>2, SMT
    <3>. QED
      BY <3>3 DEF l
  <2>. QED
    BY <2>2, <2>3
<1>. QED
  BY <1>9, <1>8, CharsRead DEF a, b, t, f

(* ReadAsWritten: whatever is encoded in UTF-8 is decoded as it was, and   *)
(* no text is read behind its end, however its last character is cut off.  *)
THEOREM ReadsAsWritten == Spec => ReadAsWritten
<1>1. DecodesEncoded
  <2>. SUFFICES ASSUME NEW c \in CodePoints, NEW d \in CodePoints
                PROVE  CharsOf(Encoded(c) \o Encoded(d)) = <<c, d>>
    BY DEF DecodesEncoded
  <2>1. c \in Nat /\ c <= LastPoint /\ d \in Nat /\ d <= LastPoint
    BY CodePointsAssumption, SMT DEF LastPoint
  <2>. QED
    BY <2>1, AllDecoded, SMT
<1>2. StopsAtEnd
  BY StopsAtNul, TextsAssumption DEF StopsAtEnd
<1>3. [][mode = "boot" => DecodesEncoded /\ StopsAtEnd]_vars
  BY <1>1, <1>2, PTL
<1>. QED
  BY <1>3 DEF ReadAsWritten

(* No text is drawn wider than gfx_text_width says, and one line of known  *)
(* characters exactly so wide, with any font.                              *)
THEOREM MeasuresHold == Spec => Measured
<1>1. \A s \in AnyTexts : AsMeasured(CharsOf(s))
  <2>. TAKE s \in AnyTexts
  <2>1. CharsOf(s) \in Seq(Nat)
    BY ReadType, TextsAssumption
  <2>. QED
    BY <2>1, AllMeasured
<1>2. [][mode = "boot" => (\A s \in AnyTexts : AsMeasured(CharsOf(s)))']_vars
  BY <1>1, PTL
<1>. QED
  BY <1>2 DEF Measured
=============================================================================
