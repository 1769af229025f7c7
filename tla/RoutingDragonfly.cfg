CONSTANTS
  Instances <- DragonflyLoop
  Plans <- DragonflyPlans
SPECIFICATION Spec
INVARIANT NoDeadlock
