CONSTANTS
  Clients = {c1, c2}
  Exprs <- MCExprs
  Nodes <- MCNodes
  Height <- MCHeight
  Entities <- MCEntities
  Names = {"x"}
  LongNames = {"l"}
  Values = {2, 3}
  Trees <- MCTrees
  Half <- MCHalf
  Depth = 3
SPECIFICATION ExpressionsSpec
INVARIANT ParametersReplaced
CHECK_DEADLOCK FALSE
