SPECIFICATION Spec
CONSTANTS
  CommandLines <- Lines
  Files <- AllFiles
  Unit = 4
  Slack = 1
  Defaults <- FewOperations
  NoValue = NoValue
  Printed = 2
CHECK_DEADLOCK FALSE
INVARIANTS RunsAsAsked OperationsExist FreshKeys ExtremeLines MetricMinimal
