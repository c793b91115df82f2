CONSTANTS
  N = 3
  HasMm2S = FALSE
  Hazards = {}
SPECIFICATION Spec
INVARIANT
  InOrder
