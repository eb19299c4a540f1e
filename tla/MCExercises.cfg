CONSTANTS
  b1 = b1
  b2 = b2
  Batches = {b1, b2}
  Slots = 2
  Limits = {0, 1, 3}
  MaxWrites = 3
  u1 = u1
  u2 = u2
  id = id
  null = null
  Users <- MCUsers
  IdOf <- MCIdOf
  Calls = {1, 2, 3, 4}
  MaxClicks = 3
  Entered <- MCEntered
  Prices = {3}
  MaxEdits = 1
  MaxSums = 2
  MaxTotal = 4
  MatrixA <- SampleA
  MatrixB <- SampleB
  Ten = 10
  Clients = {c1, c2}
  Exprs <- MCExprs
  Nodes <- MCNodes
  Height <- MCHeight
  Entities <- MCEntities
  Names = {"x"}
  LongNames = {"l"}
  Values = {2, 3}
  Trees <- MCTrees
  Half <- MCHalf
  Depth = 3
SPECIFICATION MCSpec
INVARIANTS
  AllTypeOK
  NoLimitIgnored
  ListSettles
  SumsComplete
  OutputInTurn
  FailuresShown
  AnswersComplete
  SurvivesChains
  RewriteExact
PROPERTIES
  ExitIsReached
  AtomicSpec
  CancelIsFinal
CHECK_DEADLOCK FALSE
