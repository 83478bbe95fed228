SPECIFICATION Spec
CONSTANTS
  Events = {e1}
  Deliveries = {d1}
  Requests = {}
  PaidTiers = {"teams"}
  Period = 1
  Grace = 1
  PayWindow = 1
  EmitBound = 0
  PeriodBound = 1
  FailureBound = 1
  None = None
INVARIANTS AcknowledgedIsApplied
CHECK_DEADLOCK FALSE
