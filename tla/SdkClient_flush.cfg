SPECIFICATION Spec
CONSTANTS
  c1 = c1 c2 = c2
  NumEvents = 2
  Unencodable = {}
  Calls = {c1, c2}
  MaxBatchSize = 3
  MaxQueueSize = 3
  MaxRetries = 0
INVARIANT FlushDrains
CHECK_DEADLOCK FALSE
