CONSTANTS
  Instances <- MCInstances
SPECIFICATION Spec
INVARIANTS
  TypeOK
  GrantsMatch
  ArbitersDecide
  Productive
  HighestFirst
  MaxSizeIsMaximum
  NotStarved
