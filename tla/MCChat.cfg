SPECIFICATION MCSpec
CONSTANTS
  c1 = c1
  c2 = c2
  Conns = {c1, c2}
  Texts <- MCTexts
  MaxTexts = 1
  MaxEvents = 3
  BufferLen = 2
  CacheSize = 2
  p1 = p1
  p2 = p2
  p3 = p3
  Pushers = {p1, p2, p3}
  Messages = {1, 2}
  Capacity = 4
  MaxPushes = 7
INVARIANTS
  KeptWhenAlone
  PushSucceeds
  RoundsContiguous
  NewcomerMissesAtMostOne
  TextsIntact
  ZombieSilences
PROPERTIES
  OldestStay
  ClosedIsForgotten
CHECK_DEADLOCK FALSE
