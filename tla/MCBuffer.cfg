SPECIFICATION Spec
CONSTANTS
  t1 = t1
  t2 = t2
  t3 = t3
  Threads = {t1, t2}
  NodeCapacity = 3
  Scenarios <- AllScenarios
  MaxOps = 3
SYMMETRY ThreadSymmetry
INVARIANTS TreeInOrder QuietIsComplete SizeCounts ScanExact
PROPERTY ImplementsMap
