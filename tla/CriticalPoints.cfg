SPECIFICATION Spec
CONSTANTS
  End = 12
  Gap = Gap
  NoSample = NoSample
  Configs <- MCConfigs
  Functions <- MCFunctions
INVARIANTS RootsJustified RootsDistinct NothingShownIsLost PiecesTile 
CHECK_DEADLOCK FALSE
