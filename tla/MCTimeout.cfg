SPECIFICATION Spec
CONSTANTS
  zero = zero
  two = two
  three = three
  other = other
  NoNumber = NoNumber
  None = None
  Images <- TimeoutImages
  Valid <- TimeoutImages
  Num <- TimeoutNum
  IntMax = 3
  Timeout = 100000
  MsPerSecond = 1000
  Attempts = 4
  Ticks = {50000, 101000}
  MaxElapsed = 101000
  MaxLaunches = 1
PROPERTIES
  TimeoutIs100Seconds
CHECK_DEADLOCK FALSE
