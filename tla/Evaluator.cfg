SPECIFICATION FairSpec
CONSTANTS
  One = 1
  Magnitudes = {0, 1, 2}
  IntegerTolerance = 1
  IntegerLimit = 2
  PeriodicLimit = 2
  NaN = NaN
  PosInf = PosInf
  NegInf = NegInf
  DivisionByZero = DivisionByZero
  WrongArity = WrongArity
  UnsupportedFunction = UnsupportedFunction
  Panic = Panic
  Unbound = Unbound
  NoCachedValue = NoCachedValue
  UnsupportedVariant = UnsupportedVariant
  None = None
  NodeCap = 5
  Zero = 0
  Node <- MCNode
  Exprs <- MCExprs
  Funcs <- FunctionNames
  Values <- Floats
  Faults <- MCFaults
  Apply <- ApplyFunction
  Meaning <- MCMeaning
  Elapsed <- MCElapsed
INVARIANTS StackInv CapExact
PROPERTIES ImplementsEvaluation Terminates
CHECK_DEADLOCK FALSE
