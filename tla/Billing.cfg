SPECIFICATION Spec
CONSTANTS
  Events = {e1, e2}
  Deliveries = {d1, d2}
  Requests = {r1}
  PaidTiers = {"teams"}
  Period = 1
  Grace = 1
  PayWindow = 1
  EmitBound = 0
  PeriodBound = 1
  FailureBound = 1
  None = None
SYMMETRY Symmetry
INVARIANTS TypeOK AppliedOnce PastDueEnds
CHECK_DEADLOCK FALSE
