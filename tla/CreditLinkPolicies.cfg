SPECIFICATION Spec
CONSTANTS
  NumVcs = 3
  VcBufSize = 1
  BufSize = 4
  PrivateBufs = 2
  PrivateSize = 1
  HeldLimit = 3
  None = None
  Configs <- AllConfigs
  MaxPkts = 3
  MaxLen = 3
INVARIANTS
  NoBufferOverflow
  NoBufferStateError
  SlotsAccounted
  ReserveIsHeld
CHECK_DEADLOCK FALSE
