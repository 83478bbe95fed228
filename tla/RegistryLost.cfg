SPECIFICATION Spec
CONSTANTS
  Sessions = {1, 2}
  Users = {u1}
  Workspaces = {w1}
  Closers = {}
  MaxConnections = 2
  PerUser = 2
  Modulus = 8
  None = None
SYMMETRY Symmetry
INVARIANTS LiveAreRegistered
CHECK_DEADLOCK FALSE
