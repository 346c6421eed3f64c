SPECIFICATION VideoSpec
CONSTANTS
  Block = 4
  MemorySize = 13
  Values = {0, 190}
  Amounts = {11}
  SI_VRAM_OFFSET = 4
  SI_SCREEN_WIDTH = 2
  SI_SCREEN_HEIGHT = 16
  SI_SCREEN_BITS = 4
  UfoRow = 2
  AliensRow = 4
  BarrierRow = 11
  LivesRow = 14
  ShipsColumn = 1
  CreditsColumn = 2
  color_flag = TRUE
  Pitches = {2, 3}
INVARIANTS
  RomKept
  ShifterShifts
  PictureIsMemory
PROPERTIES
  WritesLand
