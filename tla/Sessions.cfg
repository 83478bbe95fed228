SPECIFICATION Spec
CONSTANTS
  Tokens = {k1, k2, k3, k4}
  Resets = {r1, r2}
  Tasks = {t1, t2}
  MaxSessions = 1
  TokenTTL = 1
  ResetTTL = 0
  Keep = 0
  TimeBound = 2
  RequestBound = 4
  None = None
SYMMETRY Symmetry
INVARIANTS SessionsBounded EndedForGood ResetOnce
CHECK_DEADLOCK FALSE
