SPECIFICATION Spec
CONSTANTS
  CommandLines <- Short9s
  Files <- OneFile
  Unit = 20000
  Slack = 2
  Defaults <- FewOperations
  NoValue = NoValue
  Printed = 2
CHECK_DEADLOCK FALSE
INVARIANT NoUnaskedDelete
