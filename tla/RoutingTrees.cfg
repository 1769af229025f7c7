CONSTANTS
  Instances <- CrossingTrees
  Plans <- CrossingPlans
SPECIFICATION Spec
INVARIANT NoDeadlock
