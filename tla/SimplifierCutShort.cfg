SPECIFICATION Spec
CONSTANTS
  Cached <- MCCached
  MaxNumber = 100000
  MaxPowExponent = 6
  AllowNumericCollapse = TRUE
  Inputs <- MCOvergrown
  Node <- MCOvergrownTrees
  Stub <- MCStub
  Kids <- ChildrenOf
  Shell <- take_children
  PutChildren <- put_children
  Rewritten <- Rewrite
  Nodes <- NodesOf
  TurnsTo <- TurnsUpTo
  Weight <- WeightOf
  Depth <- DepthOf
  Fold <- FoldTree
  ValueOf <- Value
  Undefined <- NoValue
  Requests = {8}
  MaxIterationCeiling = 6
  MaxNodes = 17
  MaxDepth = 9
  Bindings <- MCBindings
INVARIANTS OneRoot
