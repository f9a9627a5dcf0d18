SPECIFICATION Spec
CONSTANTS
  One = 8
  Magnitudes = {0, 1, 4, 8, 16, 24}
  IntegerTolerance = 2
  IntegerLimit = 2
  PeriodicLimit = 16
  NaN = NaN
  PosInf = PosInf
  NegInf = NegInf
  DivisionByZero = DivisionByZero
  WrongArity = WrongArity
  UnsupportedFunction = UnsupportedFunction
  Panic = Panic
  Unbound = Unbound
  NoCachedValue = NoCachedValue
  UnsupportedVariant = UnsupportedVariant
  Undefined = Undefined
  None = None
  NodeCap = 6
  Zero = 0
  Node <- MCNode
  Exprs <- MCExprs
  Funcs = {"Add", "Subtract", "Multiply", "Divide", "Power", "Negate", "Sqrt", "Abs", "Min", "Log2", "Acos", "Sin", "Cos", "Tan", "Sign"}
  Reals <- Finite
  Enclosures <- MCEnclosures
  Encloses <- contains
  ZeroPoint <- MCZeroPoint
  Union <- union
  Errors <- MCErrors
  ApplyPoint <- MCApplyPoint
  ApplyInterval <- apply_interval_function
  Points <- MCPoints
INVARIANT ImageEnclosed
CHECK_DEADLOCK FALSE
