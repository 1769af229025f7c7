SPECIFICATION FairSpec
CONSTANTS
  NumVcs = 1
  VcBufSize = 2
  BufSize <- Unset
  PrivateBufs <- Unset
  PrivateSize <- Unset
  HeldLimit <- Unset
  None = None
  NumInputs = 2
  NumOutputs = 2
  Policy = "private"
  Wait = FALSE
  Pids = {1, 2, 3}
  Workloads <- Mixed
PROPERTIES
  PacketsDelivered
