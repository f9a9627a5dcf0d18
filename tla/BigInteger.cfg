SPECIFICATION IntegerSpec
CONSTANTS
  Base = 4
  MaxDigits = 3
  MaxExponent = 3
  NarrowDigits = 1
  WideDigits = 2
  Units = {"none", "m", "s"}
  NoUnit = "none"
  Refused = Refused
  Starts <- MCStarts
  Operands <- MCOperands
INVARIANTS ExactOrRefused SpellingsAgree
