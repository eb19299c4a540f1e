SPECIFICATION FairSpec
CONSTANTS
  two = two
  three = three
  lowest = lowest
  unread = unread
  other = other
  NoNumber = NoNumber
  None = None
  Images <- WatchImages
  Valid <- WatchValid
  Num <- WatchNum
  IntMax = 3
  Timeouts = {1}
  DefaultTimeout = 1
  MsPerSecond = 2
  BufferSize = 2
  MaxTime = 0
  MaxLaunches = 2
INVARIANTS
  NoImageForgotten
  TakenOnce
  StatusAtRest
PROPERTIES
  EventsAreHandled
  StartReturns
CHECK_DEADLOCK FALSE
