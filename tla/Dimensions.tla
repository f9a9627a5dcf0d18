---------------------------- MODULE Dimensions ----------------------------
(***************************************************************************)
(* Units of measure (unit.rs, si_units.rs): dimensions as exponent vectors *)
(* over the seven base units, SI prefixes, conversion, and the calls of     *)
(* pyfacade/units.rs.  A symbol is a sequence of letters and a magnitude    *)
(* <<n, p>> is n times ten to the p.                                       *)
(***************************************************************************)
EXTENDS Integers, Sequences, FiniteSets, Calls

CONSTANTS MaxExponent,         \* MAX_EXPONENT
          MaxUnitText,         \* MAX_UNIT_TEXT_LEN
          MaxMagnitude         \* the largest power of ten an f64 holds

ASSUME DimensionsAssumption == MaxExponent \in Nat /\ MaxMagnitude \in Nat

Axes == 1..7
BaseSymbols == <<<<"m">>, <<"k", "g">>, <<"s">>, <<"A">>, <<"K">>, <<"m", "o", "l">>,
                 <<"c", "d">>>>

\* Each named unit with its exponents, in the order of the table.
DerivedUnits == <<
  [symbol |-> <<"B", "q">>, exps |-> <<0, 0, -1, 0, 0, 0, 0>>],
  [symbol |-> <<"C">>, exps |-> <<0, 0, 1, 1, 0, 0, 0>>],
  [symbol |-> <<"F">>, exps |-> <<-2, -1, 4, 2, 0, 0, 0>>],
  [symbol |-> <<"G", "y">>, exps |-> <<2, 0, -2, 0, 0, 0, 0>>],
  [symbol |-> <<"H">>, exps |-> <<2, 1, -2, -2, 0, 0, 0>>],
  [symbol |-> <<"H", "z">>, exps |-> <<0, 0, -1, 0, 0, 0, 0>>],
  [symbol |-> <<"J">>, exps |-> <<2, 1, -2, 0, 0, 0, 0>>],
  [symbol |-> <<"N">>, exps |-> <<1, 1, -2, 0, 0, 0, 0>>],
  [symbol |-> <<"P", "a">>, exps |-> <<-1, 1, -2, 0, 0, 0, 0>>],
  [symbol |-> <<"S">>, exps |-> <<-2, -1, 3, 2, 0, 0, 0>>],
  [symbol |-> <<"S", "v">>, exps |-> <<2, 0, -2, 0, 0, 0, 0>>],
  [symbol |-> <<"T">>, exps |-> <<0, 1, -2, -1, 0, 0, 0>>],
  [symbol |-> <<"V">>, exps |-> <<2, 1, -3, -1, 0, 0, 0>>],
  [symbol |-> <<"W">>, exps |-> <<2, 1, -3, 0, 0, 0, 0>>],
  [symbol |-> <<"W", "b">>, exps |-> <<2, 1, -2, -1, 0, 0, 0>>],
  [symbol |-> <<"k", "a", "t">>, exps |-> <<0, 0, -1, 0, 0, 1, 0>>],
  [symbol |-> <<"l", "m">>, exps |-> <<0, 0, 0, 0, 0, 0, 1>>],
  [symbol |-> <<"l", "x">>, exps |-> <<-2, 0, 0, 0, 0, 0, 1>>],
  [symbol |-> <<"o", "h", "m">>, exps |-> <<2, 1, -3, -2, 0, 0, 0>>]>>

Prefix(s, p) == [symbol |-> s, power |-> p]
SIPrefixes == {
  Prefix(<<"Q">>, 30), Prefix(<<"R">>, 27), Prefix(<<"Y">>, 24), Prefix(<<"Z">>, 21),
  Prefix(<<"E">>, 18), Prefix(<<"P">>, 15), Prefix(<<"T">>, 12), Prefix(<<"G">>, 9),
  Prefix(<<"M">>, 6), Prefix(<<"k">>, 3), Prefix(<<"h">>, 2), Prefix(<<"d", "a">>, 1),
  Prefix(<<"d">>, -1), Prefix(<<"c">>, -2), Prefix(<<"m">>, -3), Prefix(<<"u">>, -6),
  Prefix(<<"n">>, -9), Prefix(<<"p">>, -12), Prefix(<<"f">>, -15), Prefix(<<"a">>, -18),
  Prefix(<<"z">>, -21), Prefix(<<"y">>, -24), Prefix(<<"r">>, -27), Prefix(<<"q">>, -30)}

-----------------------------------------------------------------------------
(* Dimensions: exponent vectors, None past the cap. *)

None == <<>>
Dimensionless == [i \in Axes |-> 0]
FromExponents(exps) ==
  IF \A i \in Axes : exps[i] \in (-MaxExponent)..MaxExponent THEN exps ELSE None

\* An i8 that overflows is refused like one past the cap.
MultiplyDim(a, b) == FromExponents([i \in Axes |-> a[i] + b[i]])
DivideDim(a, b)   == FromExponents([i \in Axes |-> a[i] - b[i]])
PowerDim(a, n)    == FromExponents([i \in Axes |-> a[i] * n])

\* Division truncates towards zero; an exponent it does not divide is refused.
Truncated(a, n) == LET q == (IF a < 0 THEN -a ELSE a) \div (IF n < 0 THEN -n ELSE n)
                   IN  IF (a < 0) = (n < 0) THEN q ELSE -q
\* Variant for the mutants: a remainder is thrown away.
TruncatedRoot(a, n) == IF n = 0 THEN None ELSE FromExponents([i \in Axes |-> Truncated(a[i], n)])

RootDim(a, n) ==
  IF n = 0 \/ \E i \in Axes : Truncated(a[i], n) * n # a[i] THEN None
  ELSE FromExponents([i \in Axes |-> Truncated(a[i], n)])

BaseDim(symbol) ==
  IF symbol \notin {BaseSymbols[i] : i \in Axes} THEN None
  ELSE [i \in Axes |-> IF BaseSymbols[i] = symbol THEN 1 ELSE 0]

InTable(table, symbol) ==
  LET named == {k \in DOMAIN table : table[k].symbol = symbol}
  IN  IF named = {} THEN None ELSE FromExponents(table[CHOOSE k \in named : TRUE].exps)
OfUnit(symbol) ==
  IF BaseDim(symbol) # None THEN BaseDim(symbol) ELSE InTable(DerivedUnits, symbol)

\* The first entry of the table with these exponents.
FirstWith(table, dim) ==
  LET hits == {k \in DOMAIN table : table[k].exps = dim}
  IN  IF hits = {} THEN None ELSE table[CHOOSE k \in hits : \A l \in hits : k <= l].symbol
DerivedSymbol(dim) == FirstWith(DerivedUnits, dim)

-----------------------------------------------------------------------------
(* Prefixes and conversion. *)

Unsplit == [power |-> 0, base |-> None]
Starts(symbol, s) == Len(s) < Len(symbol) /\ SubSeq(symbol, 1, Len(s)) = s
RestOf(symbol, s) == SubSeq(symbol, Len(s) + 1, Len(symbol))

\* A whole unit wins outright, then the longest prefix that leaves a unit.
LongestPrefix(readings) ==
  CHOOSE p \in readings : \A q \in readings : Len(q.symbol) <= Len(p.symbol)
SplitAfter(symbol, p) == [power |-> p.power, base |-> RestOf(symbol, p.symbol)]
SplitBy(symbol, readings) ==
  IF readings = {} THEN Unsplit ELSE SplitAfter(symbol, LongestPrefix(readings))
SplitUnitSymbol(symbol) ==
  IF OfUnit(symbol) # None THEN [power |-> 0, base |-> symbol]
  ELSE SplitBy(symbol, {p \in SIPrefixes : /\ Starts(symbol, p.symbol)
                                          /\ OfUnit(RestOf(symbol, p.symbol)) # None})

OfSplit(split) == IF split = Unsplit THEN None ELSE OfUnit(split.base)
OfPrefixedUnit(symbol) == OfSplit(SplitUnitSymbol(symbol))

ScaleOf(split) == IF split = Unsplit THEN None ELSE <<1, split.power>>
ScaleToBase(symbol) == ScaleOf(SplitUnitSymbol(symbol))

\* "I cannot tell" is kept apart from "incompatible".
Comparison(a, b) ==
  IF a = None \/ b = None THEN "unknown" ELSE IF a = b THEN "yes" ELSE "no"
Compatible(a, b) == Comparison(OfPrefixedUnit(a), OfPrefixedUnit(b))

NonFinite == <<>>                    \* an infinity or a NaN

\* One net power of ten, so scales that cancel leave the magnitude untouched.
AtPower(digits, power) ==
  IF power > MaxMagnitude THEN [error |-> "overflow"]
  ELSE [error |-> "none", value |-> <<digits, power>>]
ConvertBetween(value, f, t) ==
  IF value = NonFinite THEN [error |-> "not finite"]
  ELSE IF f = Unsplit \/ t = Unsplit THEN [error |-> "unknown unit"]
  ELSE IF OfSplit(f) # OfSplit(t) THEN [error |-> "incompatible"]
  ELSE AtPower(value[1], value[2] + f.power - t.power)
Convert(value, from, to) == ConvertBetween(value, SplitUnitSymbol(from), SplitUnitSymbol(to))
-----------------------------------------------------------------------------
(* Units as Python sees them (pyfacade/units.rs): the session holds the symbol *)
(* of one.                                                                     *)

SymbolRefused(symbol) ==
  symbol = <<>> \/ Len(symbol) > MaxUnitText \/ " " \in {symbol[k] : k \in DOMAIN symbol}

Base(symbol) == OfPrefixedUnit(symbol)
DimensionlessReply(dim) ==
  IF dim = None THEN Raised("ValueError") ELSE Gave(dim = Dimensionless)
UnitRead(symbol, call) ==
  CASE call.op = "is_base_unit"        -> Gave(symbol \in {BaseSymbols[i] : i \in Axes})
    [] call.op = "dimension_exponents" -> Gave(Base(symbol))
    [] call.op = "is_dimensionless"    -> DimensionlessReply(Base(symbol))
    [] call.op = "is_compatible_with"  -> Gave(Compatible(symbol, call.other))
    [] call.op = "scale_to_base"       -> Gave(ScaleToBase(symbol))
    [] call.op = "split_symbol"        -> Gave(SplitUnitSymbol(symbol))

\* dimension_of knows no prefix; the catalogue holds the base units alone.
SymbolRead(call) ==
  IF SymbolRefused(call.symbol) THEN Raised("ValueError")
  ELSE CASE call.op = "new_unit"          -> Gave(call.symbol)
         [] call.op = "dimension_of"      -> Gave(OfUnit(call.symbol))
         [] call.op = "split_unit_symbol" -> Gave(SplitUnitSymbol(call.symbol))
         [] call.op = "si_lookup"         ->
              Gave(IF BaseDim(call.symbol) = None THEN None ELSE call.symbol)

DimensionSymbol(exps) ==
  IF Len(exps) # 7 \/ FromExponents(exps) = None THEN Raised("ValueError")
  ELSE Gave(DerivedSymbol(exps))

PrefixPower(symbol) ==
  LET hits == {p \in SIPrefixes : p.symbol = symbol}
  IN  Gave(IF hits = {} THEN "None" ELSE (CHOOSE p \in hits : TRUE).power)

Converted(found) == IF found.error # "none" THEN Raised("ValueError") ELSE Gave(found.value)
Conversion(call) ==
  IF SymbolRefused(call.symbol) \/ SymbolRefused(call.to) THEN Raised("ValueError")
  ELSE Converted(Convert(call.value, call.symbol, call.to))

\* What a caller of the core library does to a dimension: None past the cap.
DimensionAlgebra(call) ==
  Gave(CASE call.op = "multiply" -> MultiplyDim(call.exps, call.by)
         [] call.op = "divide"   -> DivideDim(call.exps, call.by)
         [] call.op = "powi"     -> PowerDim(call.exps, call.n)
         [] call.op = "nth_root" -> RootDim(call.exps, call.n))

UnitCall ==
  /\ Calling("unit")
  /\ Reply(CASE Call.op \in {"is_base_unit", "dimension_exponents", "is_dimensionless",
                             "is_compatible_with", "scale_to_base", "split_symbol"} ->
                  UnitRead(held.symbol, Call)
             [] Call.op \in {"new_unit", "dimension_of", "split_unit_symbol", "si_lookup"} ->
                  SymbolRead(Call)
             [] Call.op = "dimension_symbol" -> DimensionSymbol(Call.exps)
             [] Call.op = "prefix_power"     -> PrefixPower(Call.symbol)
             [] Call.op = "convert"          -> Conversion(Call)
             [] OTHER                        -> DimensionAlgebra(Call))
  /\ UNCHANGED held
=============================================================================
