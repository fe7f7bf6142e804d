SPECIFICATION Spec
CONSTANTS
  r1 = r1 r2 = r2 m1 = m1 m2 = m2 m3 = m3
  p1 = p1 s1 = s1 s2 = s2 s3 = s3
  None = None
  Requests = {r1}
  Messages = {m1, m2}
  Batch <- OneBatch
  ProjectOf <- AllOfP1
  Unsupported = {}
  Malformed = {}
  UnknownAction = {}
  Projects = {p1}
  Slots = {s1, s2}
  Prefetch = 1
  MaxRefusals = 1
  MaxFaults = 2
INVARIANTS TypeOK AcceptedIsKept CopiesCostFaults UnknownProjectIsGone
PROPERTY OutageDropsNothing
SYMMETRY SlotSymmetry
CHECK_DEADLOCK FALSE
