CONSTANTS
  NServos = 2
  NFields = 2
  LogInterval = 6
  ClockMod = 19
  NoRow = NoRow
  Joints = {1, 7, 10, 11}
  Bend = 27
  FinSwing = 16
  BodyEase = 3
  FinEase = 2
  FinDelay = 1
  CDuration = 5
  SDuration = 4
  PassLengths = {1, 2, 4}
  Boots = {4}
  SetupRest = 3
SPECIFICATION Spec
INVARIANTS TypeOK
PROPERTIES KeepsTime NoJump
