CONSTANTS
  w1 = w1
  Workers = {w1}
  bg_num = 2
  InitGroups <- MCInitGroups
  MaxGroups = 4
  MaxRoots = 3
  Freed = TRUE
SPECIFICATION Spec
INVARIANTS IndexOutlivesThreads
