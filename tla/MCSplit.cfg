SPECIFICATION Spec
CONSTANTS
  two = two
  three = three
  lowest = lowest
  unread = unread
  other = other
  NoNumber = NoNumber
  None = None
  Images <- SplitImages
  Valid <- SplitImages
  Num <- SplitNum
  IntMax = 3
  Timeouts <- ShortTimeouts
  DefaultTimeout = 3
  MsPerSecond = 2
  BufferSize = 1
  MaxTime = 3
  MaxLaunches = 1
INVARIANTS
  DocsPartitionStream
  SplitExactlyWhenDue
  SplitInTime
PROPERTIES
  StreamSpec
CHECK_DEADLOCK FALSE
