CONSTANTS
  Descs = 3
  ErrIrq = FALSE
  MaxSegments = 5
  MaxStarts = 2
  MaxBehind = 3
SPECIFICATION FairRecvSpec
INVARIANTS
  SavedWholeOnce
  SavedInOrder
  FreedAfterThread
PROPERTIES
  EverySegmentSaved
CHECK_DEADLOCK FALSE
