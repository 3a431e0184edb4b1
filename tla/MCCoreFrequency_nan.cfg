\* Spec 8 says the average frequency is total cycles / total time once
\* cycles have been accounted; the code computes 0.0/0.0 on an empty epoch.
CONSTANTS
  Frequencies <- MCFrequencies
  MaxCycle = 4
  MaxStep = 2
  MaxEpochs = 3
  NaN = NaN
SPECIFICATION Spec
INVARIANT AverageFrequencyCorrect
CHECK_DEADLOCK FALSE
