CONSTANTS
  N = 3
  HasMm2S = TRUE
  Hazards = {}
SPECIFICATION FairSpec
INVARIANTS
  GroupLayout
  InOrder
  EngineKeepsToWork
  PostWorkIsWhole
PROPERTIES
  RefinesPipeline
  PendingCompletes
