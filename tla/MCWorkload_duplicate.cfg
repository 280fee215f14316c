SPECIFICATION Spec
CONSTANTS
  CommandLines <- ShiftedStatistic
  Files <- AllFiles
  Unit = 4
  Slack = 1
  Defaults <- FewOperations
  NoValue = NoValue
  Printed = 2
CHECK_DEADLOCK FALSE
INVARIANT MetricReported
