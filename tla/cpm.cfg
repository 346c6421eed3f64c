SPECIFICATION CpmSpec
CONSTANTS
  NoCell = NoCell
  Cell <- MCModelled
  Modelled <- MCModelled
  Load <- memory_cell
  Store <- memory_cell
  OpenBus = 0
  Device = {0}
  IoIn <- io_inb
  IoOut <- io_outb
  BootMem <- memories
  BootDev = 0
  BootPC = {256}
  IntOpcodes = {}
  HostOpcodes = {}
  CycleMod = 1048576
  Files <- MCFiles
  Functions = {0, 2, 9}
  Addresses = {280, 282, 65533}
  Kept = 320
INVARIANTS
  PrintsMessage
PROPERTIES
  CallsReturn
  RunEnds
CHECK_DEADLOCK FALSE
