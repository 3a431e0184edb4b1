CONSTANTS
  Prog <- MCProg
  ModeledTypes <- MCModeledTypes
  Latency <- MCLatency
  QueueCap = 5000
  PerformanceModelingOn = TRUE
  BundleFacts = TRUE
  DrainedBeforeSwitch = TRUE
  MaxSwitches = 3
SPECIFICATION Spec
INVARIANT QueuesEmptyWhileDisabled
CHECK_DEADLOCK FALSE
