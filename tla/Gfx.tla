-------------------------------- MODULE Gfx --------------------------------
(***************************************************************************)
(* The graphics of kernel/kernel/gfx.c under their callers: the shell's    *)
(* run and ui, the desktop's frames and windows (desktop.c), and the       *)
(* drawing system calls of a program (syscall.c).  Drawing goes to the     *)
(* back buffer, gfx_flush copies it to the screen, and the cursor is drawn *)
(* over the picture by saving and restoring a block of the buffer.         *)
(***************************************************************************)
EXTENDS Text

CONSTANTS Width, Height,    \* 800 and 600
          Client,           \* [x, y, w, h] of a window's inside, on the screen
          MaxInt,           \* INT_MAX; int is -MaxInt - 1 .. MaxInt
          Black, White, Colours,
          Scenes,           \* what the desktop draws: icons hovered, a window
          Size, Arrow,      \* the cursor: 16, and its white pixels in the block
          Font(_), Glyph(_),  \* the pixels, from its corner, of a byte and of
                            \* a character of the font of wide ones
          MaxSize,          \* 65535, the largest width and height
          Rects, Texts,     \* BOUND: the rectangles, the texts and the bytes
          Chars             \* that programs draw

Screen == (0 .. Width - 1) \X (0 .. Height - 1)
Block == (0 .. Size - 1) \X (0 .. Size - 1)
Area(r) == (r.x .. r.x + r.w - 1) \X (r.y .. r.y + r.h - 1)
Ints == -MaxInt - 1 .. MaxInt
Fits(r, win) == r.x + r.w + win.x <= MaxInt /\ r.y + r.h + win.y <= MaxInt
ASSUME GfxAssumption ==
  /\ MaxInt \in Nat /\ {MaxSize, Size} \subseteq 1 .. MaxInt /\ {Width, Height} \subseteq 1 .. MaxSize
  /\ Client.x \in Nat /\ Client.y \in Nat /\ Client.w \in Nat \ {0} /\ Client.h \in Nat \ {0}
  /\ Client.x + Client.w <= Width /\ Client.y + Client.h <= Height
  /\ Arrow \subseteq Block /\ {Black, White} \subseteq Colours /\ Scenes \subseteq [Screen -> Colours]
(* BOUND: programs stay away from the ends of int.                         *)
ASSUME RectsAssumption ==
  \A r \in Rects : /\ {r.x, r.y} \subseteq Ints \ {-MaxInt - 1} /\ {r.w, r.h} \subseteq 0 .. MaxSize
                  /\ {r.x + r.w + Client.x, r.y + r.h + Client.y} \subseteq Ints \ {MaxInt}

VARIABLES back, lfb,        \* the back buffer, and the screen
          fb,               \* the one that drawing goes to
          mode,             \* who draws
          window,           \* win_active
          last,             \* cur_last_x and cur_last_y, or Nowhere
          saved,            \* cur_saved
          \* History, which no guard reads:
          picture,          \* the back buffer had the cursor never been drawn
          stale,            \* pixels of the saved block drawn on since it was saved
          ghosts            \* pixels that cursors have left wrong

bufferVars == <<back, lfb, fb>>
cursorVars == <<last, saved>>
historyVars == <<picture, stale, ghosts>>
vars == <<cjk, bufferVars, mode, window, cursorVars, historyVars>>

Nowhere == <<-1, -1>>
Blank == [p \in Screen |-> Black]
Modes == {"boot", "text", "desktop", "app", "launched", "notepad", "redraw", "run"}

Init ==
  /\ back = Blank /\ lfb = Blank /\ fb = "lfb" /\ mode = "boot" /\ window = FALSE
  /\ last = Nowhere /\ saved = [o \in Block |-> Black]
  /\ picture = Blank /\ stale = {} /\ ghosts = {} /\ cjk = <<>>

-----------------------------------------------------------------------------
(* Clipping, an axis at a time: what gfx_fill_rect draws of n pixels from  *)
(* v on a screen of size pixels, under a window of len pixels from off     *)
(* (len = 0: none).  Ints wrap.                                            *)
Int32(v) == IF v > MaxInt THEN v - 2 * (MaxInt + 1)
            ELSE IF v < -MaxInt - 1 THEN v + 2 * (MaxInt + 1) ELSE v
Pixels(v, n, size) ==
  LET from == IF v < 0 THEN 0 ELSE v
      count == IF v < 0 THEN n + v ELSE n
      room == size - from
  IN  IF from >= size THEN {} ELSE from .. from + (IF count > room THEN room ELSE count) - 1
(* (A mutant: the length is kept when the start moves to the window's.)    *)
KeptLength(v, n, off) == n
CutLength(v, n, off) == IF v < off THEN Int32(n - Int32(off - v)) ELSE n
Inside(v, n, off, len) ==
  LET from == IF v < off THEN off ELSE v
      count == CutLength(v, n, off)
      end == off + len
  IN  [from |-> from, count |-> IF Int32(from + count) > end THEN Int32(end - from) ELSE count]
Span(v, n, off, len, size) ==
  IF len = 0 THEN Pixels(v, n, size)
  ELSE LET i == Inside(Int32(v + off), n, off, len)
       IN  IF i.count <= 0 THEN {} ELSE Pixels(i.from, i.count, size)

(* The window that clips, if one does.  (A mutant: none does.)             *)
NoWindow == [x |-> 0, y |-> 0, w |-> 0, h |-> 0]
WinIgnored == NoWindow
Win == IF window THEN Client ELSE NoWindow

FillRect(r, win) == Span(r.x, r.w, win.x, win.w, Width) \X Span(r.y, r.h, win.y, win.h, Height)
Rect(x, y, w, h) == [x |-> x, y |-> y, w |-> w, h |-> h]
DrawRect(r, win) ==
  UNION {FillRect(Rect(r.x, r.y, r.w, 1), win),
         FillRect(Rect(r.x, Int32(Int32(r.y + r.h) - 1), r.w, 1), win),
         FillRect(Rect(r.x, r.y, 1, r.h), win),
         FillRect(Rect(Int32(Int32(r.x + r.w) - 1), r.y, 1, r.h), win)}
(* gfx_putpixel.                                                           *)
PutPixel(x, y, win) ==
  LET p == <<Int32(x + win.x), Int32(y + win.y)>>
  IN  {p} \cap Screen \cap IF win.w = 0 THEN Screen ELSE Area(win)
(* gfx_draw_char and gfx_draw_text, transparent.  A byte is drawn from the *)
(* font whatever it is, a wide character that is not known as '?'.         *)
DrawGlyph(x, y, glyph, win) == UNION {PutPixel(x + o[1], y + o[2], win) : o \in glyph}
DrawChar(x, y, c, win) == DrawGlyph(x, y, Font(c), win)
GlyphOf(c) == IF c >= 128 /\ Known(c) THEN Glyph(c) ELSE Font(IF c >= 128 THEN 63 ELSE c)
DrawText(x, y, s, win) ==
  LET cs == CharsOf(s)
      at == PlaceOf(cs)
      shown(k) == DrawGlyph(x + at[k][1], y + at[k][2], GlyphOf(cs[k]), win)
  IN  UNION {shown(k) : k \in {k \in DOMAIN cs : cs[k] # Newline}}

-----------------------------------------------------------------------------
(* The cursor's block and arrow at a place; nothing if it is nowhere.      *)
Offset(p, pos) == <<p[1] - pos[1], p[2] - pos[2]>>
Over(shape, pos) == {p \in Screen : pos # Nowhere /\ Offset(p, pos) \in shape}
Paint(f, area, c) == [p \in Screen |-> IF p \in area THEN c ELSE f[p]]

(* gfx_draw_cursor_abs on a buffer f: the old block back, the new one      *)
(* saved, the arrow drawn.  (A mutant: it saves first.)                    *)
Restored(f) == [p \in Screen |-> IF p \in Over(Block, last) THEN saved[Offset(p, last)] ELSE f[p]]
SavedTooEarly(f) == f
ToSave(f) == Restored(f)
SaveFrom(f, pos) ==
  saved' = [o \in Block |-> LET p == <<pos[1] + o[1], pos[2] + o[2]>>
                            IN  IF p \in Screen THEN f[p] ELSE saved[o]]
WithCursor(f, pos) == Paint(Restored(f), Over(Arrow, pos), White)
DrawCursor(f, pos) == SaveFrom(ToSave(f), pos) /\ last' = pos

(* gfx_cursor_reset: the arrow stays.  (A mutant: nothing is forgotten.)   *)
Remembered == last
Forgotten == Nowhere
CursorReset ==
  /\ last' = Forgotten /\ UNCHANGED <<saved, picture>>
  /\ stale' = {} /\ ghosts' = ghosts \cup (Over(Arrow, last) \ stale)

(* gfx_begin and gfx_flush.                                                *)
Begun == "back"
Flush == lfb' = back' /\ fb' = "lfb"

-----------------------------------------------------------------------------
(* A program draws an area: the system calls of syscall.c, lines 24 to 76. *)
Program == mode \in {"app", "notepad", "run"}
Draw(area, c) ==
  /\ Program /\ fb' = Begun
  /\ back' = IF fb' = "back" THEN Paint(back, area, c) ELSE back
  /\ lfb' = IF fb' = "lfb" THEN Paint(lfb, area, c) ELSE lfb
  /\ picture' = Paint(picture, area, c)
  /\ stale' = stale \cup (area \cap Over(Block, last)) /\ ghosts' = ghosts \ area
  /\ UNCHANGED <<cjk, mode, window, cursorVars>>

ScPutPixel == \E r \in Rects, c \in Colours : Draw(PutPixel(r.x, r.y, Win), c)
ScFillRect == \E r \in Rects, c \in Colours : Draw(FillRect(r, Win), c)
ScDrawRect == \E r \in Rects, c \in Colours : Draw(DrawRect(r, Win), c)
ScDrawChar == \E r \in Rects, d \in Chars, c \in Colours : Draw(DrawChar(r.x, r.y, d, Win), c)
ScDrawText ==
  \E r \in Rects, s \in Texts, c \in Colours : Draw(DrawText(r.x, r.y, s, Win), c)
ScGfxClear == \E c \in Colours :
                Draw(IF window THEN FillRect(Rect(0, 0, Win.w, Win.h), Win) ELSE Screen, c)
ScGfxFlush ==
  /\ Program /\ back' = back /\ Flush
  /\ UNCHANGED <<cjk, mode, window, cursorVars, historyVars>>

(* sc_cursor.                                                              *)
ScCursor ==
  \E pos \in Screen :
    /\ Program /\ back' = WithCursor(back, pos) /\ Flush /\ DrawCursor(back, pos)
    /\ stale' = {} /\ ghosts' = ghosts \cup stale /\ UNCHANGED <<cjk, mode, window, picture>>

-----------------------------------------------------------------------------
(* fs_bringup; do_run and do_ui; a program that do_run started ends.       *)
BringUp ==
  /\ mode = "boot" /\ mode' = "text"
  /\ UNCHANGED cjk \/ \E f \in FontFiles : CjkLoad(f)
  /\ UNCHANGED <<bufferVars, window, cursorVars, historyVars>>
GfxInit(to, buffer) ==
  /\ mode = "text" /\ mode' = to /\ lfb' = Blank /\ fb' = buffer
  /\ UNCHANGED <<cjk, back, window, cursorVars, historyVars>>
DoRun == GfxInit("run", "back")
DoUi == GfxInit("desktop", "lfb")
RunEnds ==
  /\ mode = "run" /\ mode' = "text" /\ lfb' = Blank
  /\ UNCHANGED <<cjk, back, fb, window, cursorVars, historyVars>>

(* desktop_run draws everything, and the cursor over it.                   *)
Frame ==
  \E pos \in Screen, scene \in Scenes :
    /\ mode \in {"desktop", "redraw"} /\ mode' = "desktop"
    /\ back' = WithCursor(scene, pos) /\ Flush /\ DrawCursor(scene, pos)
    /\ picture' = scene /\ stale' = {} /\ ghosts' = Over(Block, last)
    /\ UNCHANGED <<cjk, window>>

(* dt_prepare_win draws everything, the cursor, and the window's inside    *)
(* over that.  NOTEPAD's turn comes behind an application.                 *)
Opens == \/ mode = "desktop" /\ mode' = "app"
         \/ mode = "launched" /\ mode' = "notepad"
PrepareWin ==
  \E pos \in Screen, scene \in Scenes :
    /\ Opens /\ window' = TRUE
    /\ back' = Paint(WithCursor(scene, pos), Area(Client), Black) /\ Flush /\ DrawCursor(scene, pos)
    /\ picture' = Paint(scene, Area(Client), Black)
    /\ stale' = Area(Client) \cap Over(Block, pos) /\ ghosts' = Over(Block, last) \ Area(Client)
    /\ UNCHANGED cjk

(* The program has ended, or there is no NOTEPAD to be started.            *)
WindowCleared == FALSE
Closes == \/ mode = "app" /\ mode' = "launched"
          \/ mode = "notepad" /\ mode' = "redraw"
WindowEnds == Closes /\ window' = WindowCleared /\ CursorReset /\ UNCHANGED <<cjk, bufferVars>>
NoNotepad ==
  /\ mode = "launched" /\ mode' = "redraw" /\ CursorReset
  /\ UNCHANGED <<cjk, bufferVars, window>>

SystemCall == \/ ScPutPixel \/ ScFillRect \/ ScDrawRect \/ ScDrawChar \/ ScDrawText
              \/ ScGfxClear \/ ScGfxFlush \/ ScCursor
Next == \/ BringUp \/ SystemCall \/ DoRun \/ DoUi \/ RunEnds
        \/ Frame \/ PrepareWin \/ WindowEnds \/ NoNotepad
Spec == Init /\ [][Next]_vars

-----------------------------------------------------------------------------
(* Buffers hold colours, the window clips exactly while its program runs,  *)
(* and the cursor is on the screen.                                        *)
TypeOK ==
  /\ {back, lfb, picture} \subseteq [Screen -> Colours] /\ fb \in {"back", "lfb"}
  /\ mode \in Modes /\ window \in BOOLEAN /\ (window <=> mode \in {"app", "notepad"})
  /\ last \in Screen \cup {Nowhere} /\ saved \in [Block -> Colours]
  /\ stale \subseteq Over(Block, last) /\ ghosts \subseteq Screen

(* What gfx_fill_rect, gfx_draw_rect (of a rectangle that is not empty)    *)
(* and gfx_putpixel draw is what is asked for, moved into the window and   *)
(* cut off at its edges and the screen's: unless moving leaves an int.     *)
Visible(win) == Screen \cap IF win.w = 0 THEN Screen ELSE Area(win)
Moved(r, win) == [r EXCEPT !.x = @ + win.x, !.y = @ + win.y]
Hollow(r) == [x |-> r.x + 1, y |-> r.y + 1, w |-> r.w - 2, h |-> r.h - 2]
ClippedExactly ==
  \A win \in {NoWindow, Client}, x, y \in Ints :
    /\ PutPixel(x, y, win) = {<<x + win.x, y + win.y>>} \cap Visible(win)
    /\ \A w, h \in 0 .. MaxSize :
         LET r == Rect(x, y, w, h)
         IN  Fits(r, win) =>
               /\ FillRect(r, win) = Area(Moved(r, win)) \cap Visible(win)
               /\ w > 0 /\ h > 0 =>
                    DrawRect(r, win) = (Area(Moved(r, win)) \ Area(Hollow(Moved(r, win)))) \cap Visible(win)
(* (Said where the kernel comes up, for both windows, and so once.)        *)
ClipExact == [][mode = "boot" => ClippedExactly]_vars

(* Text is read as it was written: what is encoded in UTF-8 is what        *)
(* utf8_decode gives back, and no character takes the NUL that ends the    *)
(* text, however it is cut short: gfx_draw_text and gfx_text_width stop    *)
(* there.                                                                  *)
StopsAtEnd == \A s \in AnyTexts : \A i \in DOMAIN s : NextChar(s, i) <= Len(s) + 1
ReadAsWritten == [][mode = "boot" => DecodesEncoded /\ StopsAtEnd]_vars

(* Whatever font the kernel comes up with, text has room in its measure.   *)
Measured == [][mode = "boot" => (\A s \in AnyTexts : AsMeasured(CharsOf(s)))']_vars

(* The cursor leaves no trace: a pixel is the arrow's or the picture's,    *)
(* but where something was drawn on the saved block between two cursors.   *)
NoTrace ==
  \A p \in Screen \ ghosts :
    back[p] = IF p \in Over(Arrow, last) \ stale THEN White ELSE picture[p]

(* The window clips exactly while its program runs, and under the cursor   *)
(* is the picture.                                                         *)
ScreenSound == TypeOK /\ NoTrace

(* A frame of the desktop shows the scene and the arrow; but for the block *)
(* of the frame before, and after a program there is no such block.        *)
Shows(f, pos) == Paint(f, Over(Arrow, pos), White)
FrameShows ==
  [][mode' = "desktop" /\ mode \in {"desktop", "redraw"} =>
       \A p \in Screen : lfb'[p] # Shows(picture', last')[p] => mode = "desktop" /\ p \in Over(Block, last)]_vars

(* Between two modes the screen changes only to all of the back buffer.    *)
NeverTorn == [][lfb' # lfb /\ "text" \notin {mode, mode'} => lfb' = back']_vars

(* A program in a window changes the picture only inside of it.            *)
StaysInWindow ==
  [][mode' = mode /\ mode \in {"app", "notepad"} =>
       \A p \in Screen \ Area(Client) : picture'[p] = picture[p]]_vars
=============================================================================
