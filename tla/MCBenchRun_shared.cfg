SPECIFICATION Spec
CONSTANTS
  Operations <- Reads
  operations_num = 5
  ChunkSize = 2
  thread_nums <- OneThenTwo
  latency_sample = FALSE
  latency_sample_interval = 2
CHECK_DEADLOCK FALSE
INVARIANT RowsExact
