SPECIFICATION Spec
CONSTANTS
  CycleMod = 19
  IntOpcodes = {0, 207, 251}
  HostOpcodes = {0, 118}
PROPERTIES
  WakesOnlyByAcknowledge
  RequestTakenOnce
