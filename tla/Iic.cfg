CONSTANTS
  Depth = 3
  Turns = 2
  Jobs <- MCJobs
  Programs <- MCPrograms
  PromptPolls = TRUE
SPECIFICATION FairIicSpec
INVARIANTS
  ReportedIsWhole
  ReportedOnce
PROPERTIES
  TransfersEnd
CHECK_DEADLOCK FALSE
