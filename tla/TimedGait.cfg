CONSTANTS
  NServos = 3
  NFields = 1
  LogInterval = 8
  ClockMod = 34
  NoRow = NoRow
  CameraStart = 2
  HomeEase = 3
  RunDuration = 20
  BodyEase = 2
  FinEase = 1
  FinDelay = 1
  CDuration = 5
  SDuration = 5
  SetupTime = 4
  MinPass = 2
  MaxPass = 3
SPECIFICATION FairSpec
INVARIANTS
  TypeOK
  PulseTrain
  CameraCoversMotors
PROPERTIES
  PoseHeldBeforeNext
  HomeWhenGaitStarts
  FirstRowAtZero
  SequenceRuns
