SPECIFICATION FairSpec
CONSTANTS
  MaxConns = 1
  MaxAccepts = 1
  Listeners = {TRUE}
  PendingMax = 2
  MaxNotify = 1
  MaxOom = 0
PROPERTY FanoutSent
CHECK_DEADLOCK FALSE
