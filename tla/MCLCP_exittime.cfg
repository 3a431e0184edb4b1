\* A THREAD_EXIT payload laid out as {SInt32; UInt64} with natural
\* alignment; the master decodes it as processPacket does.
CONSTANTS
  NProcs = 3
  CommIdUpdates = TRUE
  CycleOffset = 8
  ExitCycles <- MCExitCycles
  Unknown <- MCUnknown
SPECIFICATION Spec
INVARIANT ExitTimeDelivered
