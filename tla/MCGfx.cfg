CONSTANTS
  Width = 2
  Height = 2
  MaxInt = 9
  MaxSize = 3
  Size = 2
  Black = "black"
  White = "white"
  Colours = {"black", "white"}
  FontW = 1
  FontH = 1
  MaxGlyphs = 4
  Client <- MCClient
  Arrow <- MCArrow
  Scenes <- MCScenes
  FontFiles <- MCFonts
  Font <- MCFont
  Glyph <- MCGlyph
  Rects <- MCRects
  Texts <- MCTexts
  Chars <- MCChars
  AnyTexts <- MCAnyTexts
  CodePoints <- MCCodePoints
SPECIFICATION Spec
INVARIANT ScreenSound
PROPERTIES ClipExact ReadAsWritten Measured FrameShows StaysInWindow
