SPECIFICATION Spec
CONSTANTS
  t1 = t1
  t2 = t2
  Threads = {t1, t2}
  m1 = m1
  m2 = m2
  Callers = {m1, m2}
  worker_n = 2
  SlotOf <- DistinctSlots
  MaxInstances = 1
  MaxStatus = 3
CHECK_DEADLOCK FALSE
INVARIANTS GracePeriod
PROPERTY ImplementsQuiescence
