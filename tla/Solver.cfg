SPECIFICATION Spec
CONSTANTS
  Points <- MCPoints
  Infinite = Infinite
  Values <- MCValues
  Undefined = Undefined
  Vanishing <- MCVanishing
  Functions <- MCFunctions
  Calls <- MCCalls
  Tol = 1
  Narrow = 1
  MaxIterations = 3
  MaxExpansions = 2
  Reach <- MCReach
  Offset = 1
INVARIANTS BracketHolds NothingOverlooked
PROPERTY ImplementsBracketing
CHECK_DEADLOCK FALSE
