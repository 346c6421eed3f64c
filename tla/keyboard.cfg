SPECIFICATION KeyboardSpec
CONSTANT Keys = {"3", "2", "1", "space", "a", "left", "d", "q", "escape", "e", "other"}
INVARIANTS
  NoStuckControl
  HeldKeyShows
