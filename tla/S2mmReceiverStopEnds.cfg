CONSTANTS
  Descs = 3
  ErrIrq = FALSE
  MaxSegments = 4
  MaxStarts = 1
  MaxBehind = 1
SPECIFICATION FairRecvSpec
PROPERTIES
  StopEnds
CHECK_DEADLOCK FALSE
