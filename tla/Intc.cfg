SPECIFICATION Spec
CONSTANTS
  W = 2
  Systems <- TheSystems
  MaxCalls = 4
  MaxEvents = 2
  Careful = TRUE
INVARIANT NestsUpwards
PROPERTIES CallsAreDue EveryConditionServed
CHECK_DEADLOCK FALSE
