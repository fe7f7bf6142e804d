SPECIFICATION FairSpec
CONSTANTS
  p1 = p1 p2 = p2
  Projects = {p1, p2}
  Logs <- OneEach
  Updates = {u1}
  Days = {0, 1}
  DefaultDays = 1
  Grace = 1
  MaxSkew = 0
  BatchSize = 1
  QueueSize = 1
  Slow = {p1}
  MaxTime = 2
  MaxFaults = 1
INVARIANT TypeOK
PROPERTIES RetentionHonoured OrphansGo ExpiredLogsGo
CHECK_DEADLOCK FALSE
