-------------------------------- MODULE Text --------------------------------
(***************************************************************************)
(* The text of kernel/kernel/gfx.c: decoding UTF-8, laying characters out, *)
(* measuring them, and loading the font of the wide ones.  A text is the   *)
(* sequence of its bytes without the NUL behind them; the byte behind the  *)
(* last one is that NUL, and nothing may be read behind it.                *)
(***************************************************************************)
EXTENDS Integers, Sequences

CONSTANTS FontW, FontH,     \* of a narrow character, 8 and 16; a wide one is twice as wide
          MaxGlyphs,        \* CJK_MAX_GLYPHS, 256
          FontFiles,        \* what FONT16.BIN may be: [size, count, glyphs]
          AnyTexts,         \* BOUND: the texts that are decoded
          CodePoints        \* BOUND: the characters that are encoded

VARIABLE cjk                \* cjk_cp below cjk_count: the code points of the glyphs

Newline == 10
ASSUME FontAssumption == {FontW, FontH} \subseteq Nat \ {0}
ASSUME TextsAssumption == AnyTexts \subseteq Seq(0 .. 255)
ASSUME CodePointsAssumption == \A c \in CodePoints : c \in Nat \ {0} /\ c <= 1114111

-----------------------------------------------------------------------------
(* utf8_decode at the i-th byte: the code point, and where the next begins.*)
ByteAt(s, i) == IF i <= Len(s) THEN s[i] ELSE 0
Continues(s, i) == ByteAt(s, i) \div 64 = 2
Low(s, i) == ByteAt(s, i) % 64

TakesTwo(s, i) == ByteAt(s, i) \div 32 = 6 /\ Continues(s, i + 1)
TakesThree(s, i) == ByteAt(s, i) \div 16 = 14 /\ Continues(s, i + 1) /\ Continues(s, i + 2)
TakesFour(s, i) == /\ ByteAt(s, i) \div 8 = 30
                   /\ Continues(s, i + 1) /\ Continues(s, i + 2) /\ Continues(s, i + 3)
NextChar(s, i) == i + IF TakesTwo(s, i) THEN 2 ELSE IF TakesThree(s, i) THEN 3
                      ELSE IF TakesFour(s, i) THEN 4 ELSE 1

(* (A mutant: four bits of the first of two bytes.)                        *)
LeadOfFourBits(s, i) == ByteAt(s, i) % 16
LeadOfTwo(s, i) == ByteAt(s, i) % 32
CodePoint(s, i) ==
  IF TakesTwo(s, i) THEN LeadOfTwo(s, i) * 64 + Low(s, i + 1)
  ELSE IF TakesThree(s, i)
    THEN (ByteAt(s, i) % 16) * 4096 + Low(s, i + 1) * 64 + Low(s, i + 2)
  ELSE IF TakesFour(s, i)
    THEN (ByteAt(s, i) % 8) * 262144 + Low(s, i + 1) * 4096 + Low(s, i + 2) * 64 + Low(s, i + 3)
  ELSE ByteAt(s, i)

(* The characters from the i-th byte on, one round of the loop for each.   *)
CharsOf(s) ==
  LET from[i \in 1 .. Len(s) + 4] ==
        IF i > Len(s) THEN <<>> ELSE <<CodePoint(s, i)>> \o from[NextChar(s, i)]
  IN  from[1]

-----------------------------------------------------------------------------
(* gfx_cjk_load: the glyphs that are whole in the file; cjk_find.          *)
Whole(f) == {i \in 1 .. f.count : i <= MaxGlyphs /\ 6 + 36 * i <= f.size}
CjkLoad(f) == cjk' = [i \in Whole(f) |-> f.glyphs[i]]
Known(c) == \E i \in DOMAIN cjk : cjk[i] = c

(* gfx_draw_text: how far a character moves the next one.                  *)
Advance(c) == IF c >= 128 /\ Known(c) THEN 2 * FontW ELSE FontW
(* Where the k-th character of cs is drawn, from the origin of the text.   *)
PlaceOf(cs) ==
  LET at[k \in 1 .. Len(cs) + 1] ==
        IF k = 1 THEN <<0, 0>>
        ELSE IF cs[k - 1] = Newline THEN <<0, at[k - 1][2] + FontH>>
        ELSE <<at[k - 1][1] + Advance(cs[k - 1]), at[k - 1][2]>>
  IN  at

(* gfx_text_width.  (A mutant: every character is narrow.)                 *)
NarrowWidth(c) == IF c = Newline THEN 0 ELSE FontW
WidthOf(c) == IF c = Newline THEN 0 ELSE IF c < 128 THEN FontW ELSE 2 * FontW
TextWidth(cs) ==
  LET upTo[k \in 0 .. Len(cs)] == IF k = 0 THEN 0 ELSE upTo[k - 1] + WidthOf(cs[k])
  IN  upTo[Len(cs)]

-----------------------------------------------------------------------------
(* UTF-8, which utf8_decode is to read.                                    *)
Tail6(c) == 128 + (c % 64)
Encoded(c) ==
  IF c < 128 THEN <<c>>
  ELSE IF c < 2048 THEN <<192 + c \div 64, Tail6(c)>>
  ELSE IF c < 65536 THEN <<224 + c \div 4096, Tail6(c \div 64), Tail6(c)>>
  ELSE <<240 + c \div 262144, Tail6(c \div 4096), Tail6(c \div 64), Tail6(c)>>
DecodesEncoded == \A c, d \in CodePoints : CharsOf(Encoded(c) \o Encoded(d)) = <<c, d>>

(* No text is drawn wider than gfx_text_width says, and one line of known  *)
(* characters exactly so wide.                                             *)
AsMeasured(cs) ==
  LET at == PlaceOf(cs)
  IN  /\ \A k \in DOMAIN cs : cs[k] # Newline => at[k][1] + Advance(cs[k]) <= TextWidth(cs)
      /\ (\A k \in DOMAIN cs : cs[k] # Newline /\ (cs[k] < 128 \/ Known(cs[k]))) =>
           at[Len(cs) + 1] = <<TextWidth(cs), 0>>
=============================================================================
