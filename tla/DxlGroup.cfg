SPECIFICATION Spec
CONSTANTS
  sr = sr
  id = id
  sw = sw
  Master = master
  N = 2
  Infos = {sr, id, sw}
  Inst <- InstOf
  Internal = {sr, id}
  Lists <- Selections
  MaxXels = 2
  Capacities = {2}
  MaxCalls = 4
  MaxLosses = 1
  MaxLate = 1
INVARIANTS TypeOK OwnPacket InStep
CHECK_DEADLOCK FALSE
