SPECIFICATION Spec
CONSTANTS
  VGA_WIDTH = 3
  VGA_HEIGHT = 2
  TAB_WIDTH = 2
  Glyphs <- MCGlyphs
  LF = "LF"
  CR = "CR"
  HT = "HT"
  SPACE = " "
  NUL = "NUL"
  Colors <- MCColors
  LIGHT_GREY = "light grey"
  BLACK = "black"
  Banner <- MCBanner
  Messages <- MCMessages
  MaxScrolled = 2
INVARIANTS
  TypeOK
  CursorOnScreen
PROPERTY ImplementsTeletype
