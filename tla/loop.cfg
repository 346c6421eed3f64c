SPECIFICATION Spec
CONSTANTS
  Keys = {"q", "escape"}
  SI_CYCLES_PER_INT = 20
  SI_CLOCK_SPEED = 50
  Second = 2
  TickMod = 3
  ProductMod = 80
  CycleMod = 64
  MaxAdvance = 2
  Program = {0, 118, 243, 251}
INVARIANTS
  TypeOK
  CounterStaysLow
  CyclesAccounted
  KeepsToClock
  Alternate
  NoTimeMadeUp
PROPERTIES
  LostOnlyMasked
  HangsOnlyAsleep
  ExitEndsLoop
CHECK_DEADLOCK FALSE
