SPECIFICATION FairSpec
CONSTANTS
  Threads = {t1, t2}
  Symbols = {"pi", "glyph", "tau"}
  Values = {"own", "other", "default"}
  Absent = Absent
  Aliases = {"pi"}
  Canonical <- MCCanonical
  Calls <- MCCalls
  Idle = Idle
  MaxCalls = 4
INVARIANTS OneOwner PrefixRegistered CountExact
PROPERTIES OwnNameWins CallsReturn
CHECK_DEADLOCK FALSE
