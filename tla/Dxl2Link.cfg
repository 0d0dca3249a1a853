SPECIFICATION Spec
CONSTANTS
  Id = 1
  Payloads <- Values
  Capacities = {4, 6}
  MaxCalls = 3
  MaxLosses = 1
  MaxLate = 1
  Settled = 3
INVARIANTS TypeOK InStep Genuine BackInStep
PROPERTIES WithinBuffer
CHECK_DEADLOCK FALSE
