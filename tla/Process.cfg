SPECIFICATION EndSpec
CONSTANTS
  AiUser = user
  AiTasks = {a1, a2, a3}
  MaxConcurrent = 1
  FreeQuota = 1
  PaidQuota = 2
  QuotaWindow = 1
  AiTime = 2
  AiBound = 4
  Loops = {l1, l2}
  FirstLoop = l1
  Requests = {q1, q2}
  MaxRetries = 2
  QueryBound = 2
INVARIANTS PermitsConserved RunsComplete
PROPERTIES QuotaImplements ExpansionEnds ShutdownEnds
CHECK_DEADLOCK FALSE
