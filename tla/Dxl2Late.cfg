SPECIFICATION Spec
CONSTANTS
  Id = 1
  Payloads <- PlainValues
  Capacities = {4}
  MaxCalls = 2
  MaxLosses = 0
  MaxLate = 1
  Settled = 3
INVARIANTS ActualValue
CHECK_DEADLOCK FALSE
