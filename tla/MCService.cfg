SPECIFICATION FairSpec
CONSTANTS
  two = two
  three = three
  zero = zero
  other = other
  NoNumber = NoNumber
  None = None
  Images <- ServiceImages
  Valid <- ServiceValid
  Num <- ServiceNum
  IntMax = 3
  Timeout = 0
  MsPerSecond = 1
  Attempts = 2
  Ticks = {1}
  MaxElapsed = 1
  MaxLaunches = 2
INVARIANTS
  CollectedAreThere
  StartTakesAll
PROPERTIES
  ServiceStream
  JobsEnd
CHECK_DEADLOCK FALSE
