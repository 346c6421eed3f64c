SPECIFICATION Spec
CONSTANTS
  NoCell <- NoWhere
  Cell <- MCCell
  Load <- MCLoad
  Store <- MCStore
  OpenBus = 0
  Device <- MCDevice
  IoIn <- MCIoIn
  IoOut <- MCIoOut
  BootMem <- MCBootMem
  BootDev = 0
  BootPC = {0}
  IntOpcodes = {207}
  HostOpcodes = {}
  CycleMod = 64
  Statuses = {255, 1029}
  Operands = {40, 0, 72}
INVARIANTS
  TypeOK
PROPERTIES
  TimePasses
  FallsThrough
  FlagsSurvive
  CallsReachTarget
  GeneratedCases
