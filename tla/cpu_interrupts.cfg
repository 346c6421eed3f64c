SPECIFICATION InterruptedSpec
CONSTANTS
  NoCell = NoCell
  Cell <- MCCell
  Load <- MCLoad
  Store <- MCStore
  OpenBus = 0
  Device <- MCDevice
  IoIn <- MCIoIn
  IoOut <- MCIoOut
  BootMem <- MCBootMem
  BootDev = 0
  BootPC = {24}
  IntOpcodes = {207, 215}
  HostOpcodes = {}
  CycleMod = 1
  Vectors = {1, 2}
  Size = 5
  StackLow = 40
  StackHigh = 61
  MaxLevel = 2
  Alphabet = {39, 55, 143, 197, 193, 227}
  Spoilers = {175, 63}
INVARIANTS
  InterruptsAreTransparent
  StackIsKept
