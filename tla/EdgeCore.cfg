SPECIFICATION FairSpec
CONSTANTS
  QSize = 2
  MaxBufs = 2
  IdMod = 3
  MaxSize = 2
  Blocks = {b1, b2}
  NULL = NULL
  Configs <- MCConfigs
  MaxMints = 2
  MaxDropped = 1
  MaxOom = 1
  MaxApply = 3
INVARIANTS
  TypeOK
  UniqueIds
  NeedsMatchSlots
  LostNeedsBounded
  HeapOwned
  ConfigAnnounced
PROPERTIES
  RingIsQueue
  PendingServed
CHECK_DEADLOCK FALSE
