SPECIFICATION BusySpec
CONSTANTS
  w1 = w1
  w2 = w2
  Workers = {w1, w2}
  Keys = {1, 2}
  MaxKey = 9
  Scenarios <- PutsOnly
  OpKeys = {2}
  MaxAdjust = 1
  MaxOps = 2
  ScanArgs <- NoScans
  Endless = TRUE
CHECK_DEADLOCK FALSE
PROPERTY PutReturns
