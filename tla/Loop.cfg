SPECIFICATION FairSpec
CONSTANTS
  MaxConns = 2
  MaxAccepts = 5
  Listeners = {FALSE, TRUE}
  PendingMax = 2
  MaxNotify = 3
  MaxOom = 1
INVARIANTS
  TypeOK
  OneOfEach
  HttpNeverForgotten
  SubscribedIffWs
  ActiveConnsExact
  OnlyRecvOutlives
  QueuedMeansSending
  TlsWsRecvListens
PROPERTY PlainFanoutSent
CHECK_DEADLOCK FALSE
