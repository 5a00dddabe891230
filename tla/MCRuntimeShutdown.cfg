SPECIFICATION FairSpec
CONSTANTS
  Names = {l1}
  Pools = {p1}
  Versions = {1, 2}
  MaxEdits = 1
CHECK_DEADLOCK FALSE
PROPERTY ShutdownEnds
