SPECIFICATION Spec
CONSTANTS
  Datasets <- Files
  Draws <- SomeDraws
  DefaultKeys = 10
  Settings <- ReadWrite
  NDEBUG = TRUE
CHECK_DEADLOCK FALSE
INVARIANT GoodMeansRight
