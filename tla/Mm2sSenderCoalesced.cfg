CONSTANTS
  Descs = 4
  ErrIrq = TRUE
  FilePackets = 4
  Leftover = FALSE
  EngineErrors = FALSE
SPECIFICATION FairSenderSpec
PROPERTIES
  SenderEnds
CHECK_DEADLOCK FALSE
