CONSTANTS
  Descs = 2
  ErrIrq = FALSE
  Chunks = 4
  Modes = {TRUE, FALSE}
  SlowModes = {FALSE}
  MaxSent = 7
  MaxUnpaced = 3
SPECIFICATION FairPlayerSpec
INVARIANTS
  SentInOrder
  CompleteMeansRead
PROPERTIES
  KeepsPlaying
CHECK_DEADLOCK FALSE
