SPECIFICATION Spec
CONSTANTS
  NumVcs = 2
  VcBufSize = 2
  BufSize <- Unset
  PrivateBufs <- Unset
  PrivateSize <- Unset
  HeldLimit <- Unset
  None = None
  NumInputs = 2
  NumOutputs = 2
  Configs <- All
  Pids = {1, 2, 3}
  Workloads <- Meeting
INVARIANTS
  TypeOK
  QueuesMatchStates
  OwnershipExact
  OutputInOrder
  SlotsConserved
