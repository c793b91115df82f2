CONSTANTS
  Descs = 5
  ErrIrq = TRUE
  FilePackets = 5
  Leftover = FALSE
  EngineErrors = TRUE
SPECIFICATION FairSenderSpec
INVARIANTS
  StopsAfterAll
PROPERTIES
  PacedSenderEnds
CHECK_DEADLOCK FALSE
