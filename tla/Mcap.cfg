CONSTANTS
  WordBytes = 2
  U8 = 8
  Commands <- MCCommands
  LoopCount = 2
  EosRetries = 2
  Faults = {"req", "err", "refuse"}
SPECIFICATION FairMcapSpec
INVARIANTS
  DataInWriteMode
  PortGivenBack
  DoneIsConfigured
PROPERTIES
  CommandsEnd
CHECK_DEADLOCK FALSE
