SPECIFICATION Spec
CONSTANTS
  b1 = b1 b2 = b2 q1 = q1 q2 = q2 q3 = q3 c1 = c1 c2 = c2
  k1 = k1 k2 = k2 x1 = x1 p1 = p1 a1 = a1 a2 = a2
  None = None
  Brokers = {b1, b2}
  Requests = {q1, q2}
  Calls = {c1}
  Keys = {k1, k2, x1}
  Issued = {k1}
  MadeUp = {x1}
  Projects = {p1}
  ProjectOf <- OneProject
  Addresses = {a1, a2}
  MaxEntries = 1
  MaxFailures = 1
  MaxRestarts = 1
SYMMETRY Symmetry
PROPERTY NeverUsableAgain
INVARIANTS TypeOK OnlyFailuresLimit RevokedIsShutOut GenuineIsNeverDenied
CHECK_DEADLOCK FALSE
