SPECIFICATION Spec
CONSTANTS
  Points <- MCPoints
  Infinite = Infinite
  Values <- MCValues
  Undefined = Undefined
  Vanishing <- MCVanishing
  Functions <- MCFunctions
  Calls <- MCCalls
  Tol = 1
  MaxIterations = 3
  Narrow = 1
INVARIANTS BracketHolds UnconvergedIsBest
PROPERTY ImplementsBracketing
CHECK_DEADLOCK FALSE
