SPECIFICATION Spec
CONSTANTS
  Datasets <- Files
  Draws <- SomeDraws
  DefaultKeys = 10
  Settings <- AllSettings
  NDEBUG = FALSE
CHECK_DEADLOCK FALSE
INVARIANTS GoodMeansRight NoFalseAlarm
