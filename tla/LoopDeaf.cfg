SPECIFICATION Spec
CONSTANTS
  MaxConns = 2
  MaxAccepts = 2
  Listeners = {FALSE}
  PendingMax = 2
  MaxNotify = 2
  MaxOom = 0
INVARIANT WsRecvListens
CHECK_DEADLOCK FALSE
