CONSTANTS
  Servos = {s1, s2}
  MaxName = 2
  MaxPresses = 4
  MaxBoots = 2
  MaxFaults = 2
SPECIFICATION Spec
INVARIANTS
  TypeOK
  AllTurning
PROPERTIES
  OnePushOneThing
  HeldPushStops
  ServosComeToRest
  OneRecordingPerFile
CHECK_DEADLOCK FALSE
