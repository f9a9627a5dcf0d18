SPECIFICATION Spec
CONSTANTS
  Cached <- MCCached
  MaxNumber = 100000
  MaxPowExponent = 6
  AllowNumericCollapse = TRUE
  Inputs <- MCInputs
  Node <- MCTrees
  Stub <- MCStub
  Kids <- ChildrenOf
  Shell <- take_children
  PutChildren <- put_children
  Rewritten <- Rewrite
  Nodes <- NodesOf
  TurnsTo <- TurnsUpTo
  Weight <- WeightOf
  Depth <- DepthOf
  Fold <- FoldTree
  ValueOf <- Value
  Undefined <- NoValue
  Requests = {0, 8}
  MaxIterationCeiling = 6
  MaxNodes = 14
  MaxDepth = 5
  Bindings <- MCBindings
INVARIANTS ValuePreserved ReportIsHonest Converges SpellingsMeet
PROPERTIES PassIsFold
