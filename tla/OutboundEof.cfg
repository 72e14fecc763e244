SPECIFICATION Spec
CONSTANTS
  ReqLen = 2
  RawCap = 4
  BodyCap = 2
  Responses <- MCResponses
INVARIANT ReadUntilEof
