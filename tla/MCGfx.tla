------------------------------- MODULE MCGfx -------------------------------
(***************************************************************************)
(* Two by two pixels of which a window has the right half, a cursor that   *)
(* is larger than what is left of the screen on three of them, and the     *)
(* texts that UTF-8 makes hard.                                            *)
(***************************************************************************)
EXTENDS Gfx

MCClient == [x |-> 1, y |-> 0, w |-> 1, h |-> 2]
MCArrow == {<<0, 0>>}
MCScenes == {Blank, [Blank EXCEPT ![<<0, 0>>] = White]}
MCFonts == {[size |-> 77, count |-> 2, glyphs |-> <<24576, 24577>>]}
MCFont(c) == IF c = 65 THEN {<<0, 0>>} ELSE IF c = 230 THEN {<<0, 1>>} ELSE {}
MCGlyph(c) == IF c = 24576 THEN {<<1, 0>>} ELSE {}
MCRects == {Rect(-1, 0, 2, 1), Rect(0, 0, 1, 2), Rect(1, 1, 0, 3)}
Wide == <<230, 128, 128>>
MCTexts == {<<65, 10>> \o Wide}
MCChars == {230}

-----------------------------------------------------------------------------
(* Texts of every kind of byte, and the characters at the edges of UTF-8.  *)
Bytes == {10, 65, 127, 128, 195, 230, 240, 255}
BoundText == 4
MCAnyTexts == UNION {[1 .. n -> Bytes] : n \in 0 .. BoundText}

MCCodePoints == {1, 65, 127, 128, 2047, 2048, 24576, 65535, 65536, 1114111}
=============================================================================
