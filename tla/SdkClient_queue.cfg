SPECIFICATION FairSpec
CONSTANTS
  c1 = c1 c2 = c2
  NumEvents = 4
  Unencodable = {2}
  Calls = {c1}
  MaxBatchSize = 2
  MaxQueueSize = 2
  MaxRetries = 1
INVARIANTS TypeOK NothingVanishes CopiesCostFailures FlushEmptiesQueue
PROPERTIES EveryEventSettles FlushReturns
CHECK_DEADLOCK FALSE
