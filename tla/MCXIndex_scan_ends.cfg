SPECIFICATION Spec
CONSTANTS
  w1 = w1
  w2 = w2
  Workers = {w1, w2}
  Keys = {0, 1, 2, 3, 4}
  MaxKey = 4
  Scenarios <- ScansOfExtremes
  OpKeys = {2}
  MaxAdjust = 1
  MaxOps = 2
  ScanArgs <- ShortAndLong
  Endless = FALSE
SYMMETRY WorkerSymmetry
CHECK_DEADLOCK FALSE
INVARIANT ScanReturnsAll
