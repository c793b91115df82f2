SPECIFICATION Spec
CONSTANTS
  W = 2
  Systems <- TheSystems
  MaxCalls = 4
  MaxEvents = 2
  Careful = FALSE
INVARIANT EnabledIsKept

CHECK_DEADLOCK FALSE
