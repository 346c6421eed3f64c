SPECIFICATION Spec
CONSTANTS
  Sizes = {0, 1, 8191, 8192, 8193, 65278, 65279, 65280, 65535, 65536}
  UINT16_MAX = 65535
  RomSize = 8192
  Offset = 256
INVARIANTS
  ReleasedOnce
  OwnersLast
  NothingLeaks
  LoadFits
CHECK_DEADLOCK FALSE
