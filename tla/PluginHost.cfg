SPECIFICATION FairSpec
CONSTANTS
  Cap = 2
  Inbounds = {i1, i2, i3}
  MaxConcurrent = 2
  Rpm = 3
  MaxOut = 4
  MaxNomem = 2
INVARIANTS
  TableSound
  ParkedHasEntry
  InFlightAccounted
  SyncLeavesNoEntry
PROPERTIES
  FateFinal
  ParkedAnswered
CHECK_DEADLOCK FALSE
