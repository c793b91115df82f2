SPECIFICATION BoardSpec
CONSTANTS
  ByteBits = 2
  CountBits = 6
  Base = 32
  Size = 20
  Blocks = {1, 3, 16, 18}
  Patterns = {0, 1}
  Default <- TheDefaults
  FaultyWords = {0, 3, 7, 9}
  Boards <- TheBoards
  MaxLen = 3
  PktLen = 2
  Tries = 3
  ResetTimeout = 2
  MaxCalls = 5
INVARIANTS BitsAreFound VerdictIsRight PassMeansDelivered
PROPERTIES NoneOverwritten ExampleEnds
CHECK_DEADLOCK FALSE
