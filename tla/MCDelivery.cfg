SPECIFICATION MCSpec
CONSTANTS
  d1 = d1
  d2 = d2
  d3 = d3
  Docs = {d1, d2, d3}
  Size <- ThreeSizes
  MaxRuns = 2
INVARIANTS
  NoDuplicates
  SoloConversionsIntact
PROPERTIES
  DeliverySpec
  EveryDocumentResolved
CHECK_DEADLOCK FALSE
