CONSTANTS
  NProcs = 3
  CommIdUpdates = TRUE
  CycleOffset = 8
  ExitCycles <- MCExitCycles
  Unknown <- MCUnknown
SPECIFICATION Spec
INVARIANT TypeOK
PROPERTY ShutdownCompletes
