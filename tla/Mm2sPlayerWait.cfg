CONSTANTS
  Descs = 2
  ErrIrq = FALSE
  Chunks = 2
  Modes = {FALSE}
  SlowModes = {}
  MaxSent = 8
  MaxUnpaced = 0
SPECIFICATION PlayerSpec
INVARIANTS
  WaitMeansSent
CHECK_DEADLOCK FALSE
