SPECIFICATION FairSpec
CONSTANTS
  Sessions = {1, 2, 3}
  Users = {u1}
  Workspaces = {w1}
  Closers = {k1}
  MaxConnections = 2
  PerUser = 1
  Modulus = 4
  None = None
INVARIANTS GoneForGood CounterExact
PROPERTIES OperationsEnd
CHECK_DEADLOCK FALSE
