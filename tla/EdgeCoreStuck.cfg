SPECIFICATION Spec
CONSTANTS
  QSize = 2
  MaxBufs = 2
  IdMod = 4
  MaxSize = 1
  Blocks = {b1, b2}
  NULL = NULL
  Configs <- MCConfigs
  MaxMints = 3
  MaxDropped = 1
  MaxOom = 0
  MaxApply = 2
INVARIANT NoStuckPending
CHECK_DEADLOCK FALSE
