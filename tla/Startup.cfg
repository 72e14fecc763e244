SPECIFICATION StartFairSpec
CONSTANTS
  PollsHup = TRUE
  Unparsable = {2}
  Invalid = {3}
  MaxFile = 4
  MaxHup = 2
  Num <- MCNum
  Truth <- MCTruth
  TooLong = {"long"}
  U16Max = 3
  U32Max = 7
  SizeMod = 16
  Contents <- MCContents
  Docs <- MCDocs
INVARIANTS
  ActiveIsGood
  NoLostSignal
  CleanExit
  AuthReady
  LoaderMeaning
PROPERTY StopObeyed
CHECK_DEADLOCK FALSE
