CONSTANTS
  NOFBUFS = 4
  Readers = {r1}
  Prefetch = 2
  MaxBlock = 2
  MaxFills = 6
  KeepUp = TRUE
SPECIFICATION LiveSpec
INVARIANTS
  TypeOK
  HeldDataIntact
  MagicMeansComplete
  NeverPostponed
  NoLostInterrupt
  NoScanAfterFree
  BlocksChained
PROPERTIES
  LosslessInOrder
  BlockIsDelivered
  StopReturns
  ReadersLeave
