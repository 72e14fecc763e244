SPECIFICATION FairSpec
CONSTANTS
  PollsHup = FALSE
  Unparsable = {2}
  Invalid = {3}
  MaxFile = 4
  MaxHup = 3
PROPERTY HupReloads
CHECK_DEADLOCK FALSE
