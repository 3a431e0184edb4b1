\* The functional side pushes the facts of an instruction together and
\* drains iterate() before each enable/disable: the model's contract.
CONSTANTS
  Prog <- MCProg
  ModeledTypes <- MCModeledTypes
  Latency <- MCLatency
  QueueCap = 5000
  PerformanceModelingOn = TRUE
  BundleFacts = TRUE
  DrainedBeforeSwitch = TRUE
  MaxSwitches = 3
SPECIFICATION Spec
INVARIANT TypeOK
INVARIANT NoAssertionFailure
PROPERTY StallResumes
PROPERTY CostQueueRefined
CHECK_DEADLOCK FALSE
