CONSTANTS
  w1 = w1
  Workers = {w1}
  bg_num = 3
  InitGroups <- MCInitGroups
  MaxGroups = 4
  MaxRoots = 3
  Freed = FALSE
SPECIFICATION FairSpec
INVARIANTS OneAdjuster RoundCovers RoundStartsFlat
PROPERTIES BackgroundEnds RoundsEnd
