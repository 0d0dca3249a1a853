CONSTANTS
  ByteMod = 16
  Servos <- TwoServos
  Position <- Positions
  Model <- Models
  ReadCap = 4
  Calls <- TwoPasses
  MaxFaults = 3
  CountedCalls = 5
SPECIFICATION Spec
INVARIANTS
  TypeOK
  BackInStep
