SPECIFICATION Spec
CONSTANTS
  u1 = u1 u2 = u2 u3 = u3 c1 = c1 c2 = c2 c3 = c3 c4 = c4 c5 = c5
  None = None
  ProjectDoc = ProjectDoc
  Users = {u1, u2}
  Calls = {c1, c2, c3, c4}
INVARIANTS TypeOK AlwaysOwned
PROPERTY ActsAtomically
SYMMETRY Symmetry
CHECK_DEADLOCK FALSE
