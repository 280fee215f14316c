SPECIFICATION Spec
CONSTANTS
  Threads = {t1, t2}
  Ops = {"read", "read_ignoring_ptr", "update", "remove"}
  MaxVersion = 2
SYMMETRY ThreadSymmetry
INVARIANTS AtomicAnswers PointersAreFollowedSafely LocksOwned
PROPERTY OnlyWritersChange
CHECK_DEADLOCK FALSE
