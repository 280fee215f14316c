SPECIFICATION LookupFair
CONSTANTS
  Contents <- AllContents
  Pivots <- AllPivots
  Arrays <- AllArrays
  Keys <- AllKeys
  Predictions <- AllPredictions
  Positions <- AllPositions
CHECK_DEADLOCK FALSE
INVARIANTS FindsSlot FindsKey
PROPERTY Returns
