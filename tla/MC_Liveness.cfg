CONSTANTS
  AddrBits = 2
  PipelineDelay = 2
  RefreshCounterWidth = 2
  WithRefresh = TRUE
  ScratchpadDepth = 4
  NPhases = 2
  RdPhase = 1
  ReadLatency = 2
  LoopCounterWidth = 12
  Programs <- MCProgramSet
SPECIFICATION FairSpec
PROPERTIES
  RunCompletes
  BusReturned
  HandBackAtEnd
