SPECIFICATION FairSpec
CONSTANTS
  NumCores = 3
  Threshold = 1
  CheckFreq = 3
  Programs <- All
  Orderly <- Balanced
  None = None
INVARIANTS
  TypeOK
  FlowConserved
  FinishedIsComplete
  NeverStuck
PROPERTIES
  RunEnds
CHECK_DEADLOCK FALSE
