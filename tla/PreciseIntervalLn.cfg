SPECIFICATION Spec
CONSTANTS
  MaxDimension = 6
  MaxOrder = 4
  MaxRank = 4
  FacadeRank = 5
  MaxCells = 24
  SequenceCap = 30
  ScanSteps = 16
  ScanHalvings = 6
  DiffCap = 13
  Panels = 6
  MaxIterations = 8
  Nudge <- MCNudge
  SearchSpan = 4
  SearchSteps = 8
  SearchHalvings = 5
  MaxSystem = 3
  MaxBranches = 4
  MaxDerivativeOrder = 3
  MaxSamples = 20
  MaxHarmonics = 3
  MaxWork = 40
  Radix = 256
  MaxUnitText = 8
  MaxExponent = 32
  MaxMagnitude = 308
  GuardBits = 4
  RoundingGuard = 7
  PiGuard = 1
  SeriesCap = 20
  NewtonCap = 8
  RetryCap = 1
  MaxPower = 4
  MaxControl = 5
  MaxSegments = 6
  ErfSeries <- MCErfSeries
  ErfcTail <- MCErfcTail
  Bell <- MCBell
  ErfBranch <- MCErfBranch
  LargestFloat = 19
  MaxCoefficientTerms = 4
  MaxLogTerms = 5
  MaxFacadeTerms = 6
  MaxCdfTerms = 11
  MaxDoublings = 8
  MaxBisections = 12
  QuantileTolerance <- MCQuantileTolerance
  WordBits = 4
  UnitBits = 3
  XorShifts <- MCXorShifts
  Multiplier = 13
  DefaultSeed = 9
  MaxDraws = 15
  MaxTally = 3
  Elementary <- MCElementary
  Spellings <- MCSpellings
  MalformedNames <- MCMalformed
  CallTable <- MCCallTable
  Numerals <- MCNumerals
  Jobs <- MCLogarithmJobs
  Sessions <- LogarithmSessions
INVARIANT BracketsAreSound
CHECK_DEADLOCK FALSE
