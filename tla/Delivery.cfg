SPECIFICATION DeliverySpec
CONSTANTS
  Archive <- MCArchive
  FieldMax = 4
  MaxConns = 4
  Workers = 2
  MaxTroubles = 2
  TheImage = 2
  Image = 9
  small = small
  large = large
  other = other
  Sticks = {small, large, other}
  Size <- MCSize
  MB = 2
  SEGMENT_MB = 2
  MAX_RETRIES = 1
  MaxDrops = 3
  MaxStops = 2
  MaxCuts = 2
INVARIANTS OutIsMember MegabytesWritten LanCopyIsImage
PROPERTY Arrives
CHECK_DEADLOCK FALSE
