SPECIFICATION Spec
CONSTANTS
  NumCores = 3
  Threshold = 1
  CheckFreq = 2
  Programs <- OnlyLong
  Orderly <- OnlyLong
  None = None
INVARIANTS
  ReportIsTrue
CHECK_DEADLOCK FALSE
