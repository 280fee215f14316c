SPECIFICATION Spec
CONSTANTS
  Datasets <- Files
  Draws <- SomeDraws
  DefaultKeys = 10
  Settings <- LimitOfFour
  NDEBUG = TRUE
CHECK_DEADLOCK FALSE
INVARIANT EntriesIncrease
