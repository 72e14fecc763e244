SPECIFICATION FairSpec
CONSTANTS
  ReqLen = 2
  RawCap = 4
  BodyCap = 2
  Responses <- MCResponses
INVARIANTS
  NothingLeaks
  BodyDelivered
PROPERTY ExchangeEnds
