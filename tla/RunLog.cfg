CONSTANTS
  ByteMod = 3
  MaxBoots = 3
  MaxLines = 5
  MaxFaults = 2
SPECIFICATION Spec
INVARIANTS
  TypeOK
  RunsDistinguished
PROPERTIES
  KeepsPromise
CHECK_DEADLOCK FALSE
