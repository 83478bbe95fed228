SPECIFICATION Spec
CONSTANTS
  Users = {u1, u2}
  Emails = {m1, m2}
  Identities = {i1}
  Changes = {c1}
  Tasks = {t1, t2}
  Retention = 1
  ChangeTTL = 0
  TimeBound = 2
  CrashBound = 1
  RequestBound = 5
  None = None
  Gone = Gone
INVARIANTS TypeOK EmailUnique OrphansWereExpired
PROPERTIES HardDeleted
CHECK_DEADLOCK FALSE
