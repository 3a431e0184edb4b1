\* The time accounting of recomputeAverageFrequency over every interleaving
\* of cycles, thread starts, frequency changes and thread exits.
CONSTANTS
  Frequencies <- MCFrequencies
  MaxCycle = 4
  MaxStep = 2
  MaxEpochs = 3
  NaN = NaN
SPECIFICATION Spec
INVARIANT TypeOK
INVARIANT TimeAccounting
CHECK_DEADLOCK FALSE
