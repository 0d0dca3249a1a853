SPECIFICATION Spec
CONSTANTS
  f1 = f1
  f2 = f2
  Files = {f1, f2}
  NoName = NoName
  LastCluster = 4
  PerFat = 2
  PerBlock = 3
  BlocksPerCluster = 1
  MaxPrint = 2
  MaxUnits = 4
  MaxTroubles = 1
PROPERTIES PrintedIsThere
CHECK_DEADLOCK FALSE
