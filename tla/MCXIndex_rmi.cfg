SPECIFICATION Spec
CONSTANTS
  w1 = w1
  w2 = w2
  Workers = {w1, w2}
  Keys = {1, 2}
  MaxKey = 9
  Scenarios <- Merge
  OpKeys = {2}
  MaxAdjust = 1
  MaxOps = 2
  ScanArgs <- NoScans
  Endless = FALSE
SYMMETRY WorkerSymmetry
CHECK_DEADLOCK FALSE
INVARIANT NoDanglingModels
