SPECIFICATION FairSpec
CONSTANTS
  la = la lb = lb p1 = p1 p2 = p2 p3 = p3 ada = ada bob = bob x1 = x1 x2 = x2 k1 = k1 s1 = s1 s2 = s2
  None = None
  Loggers = {la, lb}
  Projects = {p1, p2, p3}
  Users = {ada, bob}
  Owners = {ada}
  Logs = {x1, x2}
  Keys = {}
  Settings = {s1, s2}
  Age <- HalfAYear
  Durations = {30, 365}
  Legacies <- AllLegacies
  MaxFaults = 1
  MaxChanges = 1
INVARIANTS TypeOK ReadyIsDone
PROPERTIES RolesKept ChosenRetentionHolds ReadyInTheEnd
CHECK_DEADLOCK FALSE
