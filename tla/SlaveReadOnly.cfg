SPECIFICATION Spec
CONSTANTS
  ModelNumber <- Model
  AddrLimit = 30
  MaxItems = 6
  MaxBackup = 2
  Places <- ItemPlaces
  Writes <- WritePackets
  Reads <- ReadPackets
  Ids = {1, 2, 253}
  Bytes = {1, 253}
PROPERTIES ReadOnly
CHECK_DEADLOCK FALSE
