SPECIFICATION FairSpec
CONSTANTS
  NumVcs = 2
  VcBufSize = 2
  BufSize <- Unset
  PrivateBufs <- Unset
  PrivateSize <- Unset
  HeldLimit <- Unset
  None = None
  Configs <- PrivateConfigs
  MaxPkts = 3
  MaxLen = 3
INVARIANTS
  TypeOK
  CreditsConserved
  VcWithinLimit
  NoUnexpectedPid
PROPERTIES
  ImplementsFifo
  PacketReceived
CHECK_DEADLOCK FALSE
