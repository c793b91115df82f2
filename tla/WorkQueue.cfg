CONSTANTS
  Producers = {p1, p2}
  Consumers = {c1, c2}
  Capacity = 2
  Items = {a, b}
  NoItem = NoItem
  NoThread = NoThread
SPECIFICATION QueueSpec
INVARIANTS
  NoLostWakeup
PROPERTIES
  RefinesFifo
