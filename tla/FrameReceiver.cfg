CONSTANTS
  ev = ev
  wk = wk
  Producers <- MCProducers
  Consumers <- MCConsumers
  EventThread = ev
  WorkerThread = wk
  Capacity = 1
  Items <- MCItems
  NoItem = NoItem
  NoThread = NoThread
  Descs = 3
  ErrIrq = TRUE
  Worlds <- MCWorlds
SPECIFICATION FairFrameSpec
INVARIANTS
  EachSegmentOnce
  FramesAreWhole
PROPERTIES
  EventThreadStops
  EachFrameSaved
CHECK_DEADLOCK FALSE
