SPECIFICATION BoundedSpec
CONSTANTS
  NoCell = NoCell
  Cell <- MCCell
  Load <- MCLoad
  Store <- MCStore
  OpenBus = 0
  Device <- MCDevice
  IoIn <- MCIoIn
  IoOut <- MCIoOut
  BootMem <- Straight
  BootDev = 0
  BootPC = {0}
  IntOpcodes = {207}
  HostOpcodes = {0, 118}
  CycleMod = 1
  Alphabet = {118, 207, 241, 243, 245, 251}
INVARIANTS
  UnusedFlagBits
  ReturnsComeBack
  PushPopRestores
PROPERTIES
  ImplementsControl
