CONSTANTS
  Instances <- MCInstances
  Plans <- MCPlans
SPECIFICATION Spec
INVARIANTS
  TypeOK
  NoDeadlock
  OnCourse
  WithinClass
  DeliveredOnce
