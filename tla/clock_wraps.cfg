SPECIFICATION Spec
CONSTANTS
  Keys = {}
  SI_CYCLES_PER_INT = 20
  SI_CLOCK_SPEED = 25
  Second = 2
  TickMod = 4
  ProductMod = 60
  CycleMod = 64
  MaxAdvance = 3
  Program = {0, 243, 251}
INVARIANT OverflowHandled
CHECK_DEADLOCK FALSE
