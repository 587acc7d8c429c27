CONSTANTS
  AddrBits = 2
  PipelineDelay = 2
  RefreshCounterWidth = 2
  WithRefresh = TRUE
  ScratchpadDepth = 4
  NPhases = 2
  RdPhase = 1
  ReadLatency = 4
  LoopCounterWidth = 12
  Programs <- LateReadPrograms
SPECIFICATION Spec
INVARIANT
  ReadsCounted
