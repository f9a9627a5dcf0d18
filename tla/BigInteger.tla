----------------------------- MODULE BigInteger -----------------------------
(***************************************************************************)
(* ArithmaInteger (integer.rs): exact integers as a sign and little-endian *)
(* digits, arithmetic that refuses instead of rounding, and an optional    *)
(* unit.  One register is worked on by a sequence of calls, each result    *)
(* being the next call's left operand.                                     *)
(*                                                                         *)
(* A number is [neg, mag, special, unit]; special stands for the NaN,      *)
(* infinity, imaginary, infinitesimal and rational flags.  Digits that     *)
(* Python, JSON or from_le_bytes_signed supply may have leading zeros, and *)
(* set_negative can make a negative zero.                                  *)
(***************************************************************************)
EXTENDS Integers, Sequences

CONSTANTS
  Base,          \* 256
  MaxDigits,     \* MAX_DIGITS
  MaxExponent,   \* MAX_POW_EXPONENT
  NarrowDigits,  \* digits of a u32 exponent
  WideDigits,    \* digits of an i64
  Units,         \* the units, and NoUnit
  NoUnit,        \* unit: None
  Refused,       \* the None of a checked operation
  Starts,        \* the numbers a sequence of calls begins with
  Operands       \* the right operands

ASSUME BaseAssumption == Base \in Nat /\ Base > 1
ASSUME WidthAssumption ==
  /\ MaxDigits \in Nat /\ MaxExponent \in Nat /\ NarrowDigits \in Nat
  /\ WideDigits \in 1..MaxDigits
ASSUME UnitAssumption == NoUnit \in Units

Lesser(i, j)  == IF i < j THEN i ELSE j
Greater(i, j) == IF i < j THEN j ELSE i
-----------------------------------------------------------------------------
(***************************************************************************)
(* Magnitudes: little-endian digits, never empty.  A loop that carries     *)
(* something from one turn to the next is a function of the turn.          *)
(***************************************************************************)
Digits     == 0..(Base - 1)
Magnitudes == Seq(Digits) \ {<<>>}

Zeros(n)     == [i \in 1..n |-> 0]
Digit(m, i)  == IF i \in 1..Len(m) THEN m[i] ELSE 0
IsZeroMag(m) == \A i \in 1..Len(m) : m[i] = 0

Powers(x) == LET power[n \in Nat] == IF n = 0 THEN 1 ELSE x * power[n - 1] IN power
Weight    == Powers(Base)

\* The value of the lowest digits, and of all.
Lowest(m) ==
  LET value[i \in Nat] == IF i = 0 THEN 0 ELSE value[i - 1] + Digit(m, i) * Weight[i - 1]
  IN value
Value(m) == Lowest(m)[Len(m)]

\* The digits up to the last that is not zero, but at least one.
Significant(m) ==
  CHOOSE n \in 1..Len(m) : /\ n = 1 \/ m[n] # 0
                           /\ \A i \in (n + 1)..Len(m) : m[i] = 0
Trim(m) == [i \in 1..Significant(m) |-> m[i]]

TopDifference(a, b, n) ==
  CHOOSE i \in 1..n : /\ Digit(a, i) # Digit(b, i)
                      /\ \A j \in (i + 1)..n : Digit(a, j) = Digit(b, j)

\* From the top digit downwards, of two magnitudes of a length.
CmpDigits(a, b, n) ==
  IF \A i \in 1..n : Digit(a, i) = Digit(b, i) THEN 0
  ELSE LET top == TopDifference(a, b, n) IN IF Digit(a, top) < Digit(b, top) THEN -1 ELSE 1

CmpLengths(a, b, m, n) ==
  IF m < n THEN -1 ELSE IF m > n THEN 1 ELSE CmpDigits(a, b, n)

\* Variant for the mutants: leading zeros count as digits.
MagCmpRaw(a, b) == CmpLengths(a, b, Len(a), Len(b))

MagCmp(a, b) == CmpLengths(a, b, Significant(a), Significant(b))

\* What falls to each position becomes a digit there and a carry to the next;
\* a borrow is a carry of -1.
Carry(x) ==
  LET out[i \in Nat] == IF i = 0 THEN 0 ELSE (Digit(x, i) + out[i - 1]) \div Base IN out
Carried(x) == [i \in 1..Len(x) |-> (x[i] + Carry(x)[i - 1]) % Base]

\* One digit is kept free for a carry, whether there is one or not.
MagAdd(a, b) ==
  LET n == Greater(Len(a), Len(b))
  IN IF n >= MaxDigits THEN Refused
     ELSE Trim(Carried([i \in 1..(n + 1) |-> Digit(a, i) + Digit(b, i)]))

Difference(a, b) == Carried([i \in 1..Len(a) |-> a[i] - Digit(b, i)])

MagSub(a, b) == IF MagCmp(a, b) < 0 THEN Refused ELSE Trim(Difference(a, b))

\* Row i of the long multiplication, added into out; its carry runs on as far
\* as the buffer goes.
AddRow(out, i, digit, b) ==
  Carried([p \in 1..Len(out) |-> out[p] + digit * Digit(b, p - i + 1)])

Rows(a, b) ==
  LET out[i \in Nat] == IF i = 0 THEN Zeros(Len(a) + Len(b))
                        ELSE AddRow(out[i - 1], i, Digit(a, i), b)
  IN out

MagMul(a, b) ==
  IF Len(a) + Len(b) > MaxDigits THEN Refused ELSE Trim(Rows(a, b)[Len(a)])

\* Subtracting the divisor as often as it goes, at most Base times.
SubtractOnce(s, b) ==
  IF MagCmp(s.remainder, b) < 0 THEN s
  ELSE [remainder |-> MagSub(s.remainder, b), digit |-> s.digit + 1]

Subtractions(remainder, b) ==
  LET state[n \in Nat] == IF n = 0 THEN [remainder |-> remainder, digit |-> 0]
                          ELSE SubtractOnce(state[n - 1], b)
  IN state

\* Schoolbook division, from the top digit down.
BringDown(s, digit, b) ==
  LET q == Subtractions(Trim(<<digit>> \o s.remainder), b)[Base]
  IN [quotient |-> <<q.digit>> \o s.quotient, remainder |-> q.remainder]

LongDivision(a, b) ==
  LET state[i \in Nat] == IF i = 0 THEN [quotient |-> <<>>, remainder |-> <<0>>]
                          ELSE BringDown(state[i - 1], Digit(a, Len(a) + 1 - i), b)
  IN state

MagDivRem(a, b) ==
  LET all == LongDivision(a, b)[Len(a)]
  IN [quotient |-> Trim(all.quotient), remainder |-> Trim(all.remainder)]
-----------------------------------------------------------------------------
(***************************************************************************)
(* Signed integers.                                                        *)
(***************************************************************************)
Numbers ==
  {x \in [neg : BOOLEAN, mag : Magnitudes, special : BOOLEAN, unit : Units] :
     Len(x.mag) <= MaxDigits}

ASSUME RefusedAssumption == Refused \notin Int \cup Magnitudes \cup Numbers
ASSUME StartsAssumption == Starts \subseteq Numbers /\ Operands \subseteq Numbers
\* An exponent is compared with the largest one as a u32.
ASSUME ExponentAssumption == MaxExponent < Weight[NarrowDigits]

Number(neg, mag) == [neg |-> neg, mag |-> mag, special |-> FALSE, unit |-> NoUnit]

IsZero(x) == ~x.special /\ IsZeroMag(x.mag)
PlainBoth(x, y) == ~x.special /\ ~y.special

\* from_parts: zero has no sign.
FromParts(mag, neg) ==
  IF mag = Refused THEN Refused ELSE Number(neg /\ ~IsZeroMag(mag), mag)

Add(x, y) ==
  IF ~PlainBoth(x, y) THEN Refused
  ELSE IF x.neg = y.neg THEN FromParts(MagAdd(x.mag, y.mag), x.neg)
  ELSE IF MagCmp(x.mag, y.mag) < 0 THEN FromParts(MagSub(y.mag, x.mag), y.neg)
  ELSE FromParts(MagSub(x.mag, y.mag), x.neg)

Sub(x, y) == IF ~PlainBoth(x, y) THEN Refused ELSE Add(x, [y EXCEPT !.neg = ~@])

Mul(x, y) ==
  IF ~PlainBoth(x, y) THEN Refused ELSE FromParts(MagMul(x.mag, y.mag), x.neg # y.neg)

DivExact(x, y) ==
  IF ~PlainBoth(x, y) \/ IsZero(y) THEN Refused
  ELSE LET d == MagDivRem(x.mag, y.mag)
       IN IF IsZeroMag(d.remainder) THEN FromParts(d.quotient, x.neg # y.neg) ELSE Refused

\* Variant for the mutants: the quotient is truncated.
TruncatedDivMod(x, y) ==
  LET d == MagDivRem(x.mag, y.mag)
  IN [quotient  |-> FromParts(d.quotient, x.neg # y.neg),
      remainder |-> FromParts(d.remainder, x.neg)]

\* The quotient rounded down, and the remainder with the divisor's sign.
FloorDivMod(x, y) ==
  LET d == MagDivRem(x.mag, y.mag)
  IN IF IsZeroMag(d.remainder)
       THEN [quotient |-> FromParts(d.quotient, x.neg # y.neg), remainder |-> Number(FALSE, <<0>>)]
     ELSE IF x.neg = y.neg
       THEN [quotient |-> FromParts(d.quotient, FALSE), remainder |-> FromParts(d.remainder, y.neg)]
     ELSE [quotient  |-> FromParts(MagAdd(d.quotient, <<1>>), TRUE),
           remainder |-> FromParts(MagSub(y.mag, d.remainder), y.neg)]

\* Both halves are computed before one is returned, so either can refuse.
DivFloor(x, y, half) ==
  IF ~PlainBoth(x, y) \/ IsZero(y) THEN Refused
  ELSE LET d == FloorDivMod(x, y)
       IN IF Refused \in {d.quotient, d.remainder} THEN Refused ELSE d[half]

\* to_u32: the low digits, if no other is set.
ToExponent(y) ==
  IF y.special \/ y.neg \/ \E i \in (NarrowDigits + 1)..Len(y.mag) : y.mag[i] # 0 THEN Refused
  ELSE Lowest(y.mag)[NarrowDigits]

\* Repeated multiplication, given up as soon as one product is refused.
Products(x) ==
  LET acc[n \in Nat] == IF n = 0 THEN Number(FALSE, <<1>>)
                        ELSE IF acc[n - 1] = Refused THEN Refused ELSE Mul(acc[n - 1], x)
  IN acc

Pow(x, n) ==
  IF x.special \/ n = Refused THEN Refused
  ELSE IF n > MaxExponent THEN Refused ELSE Products(x)[n]

Negate(x) == IF x.special THEN Refused ELSE [x EXCEPT !.neg = (~@) /\ ~IsZero(x)]

CmpInteger(x, y) ==
  IF ~PlainBoth(x, y) THEN Refused
  ELSE IF IsZero(x) /\ IsZero(y) THEN 0
  ELSE IF x.neg # y.neg THEN IF x.neg THEN -1 ELSE 1
  ELSE IF x.neg THEN MagCmp(y.mag, x.mag) ELSE MagCmp(x.mag, y.mag)

\* to_i64: two's complement has one more negative number.
WideMax == Weight[WideDigits] \div 2 - 1
ToI64(x) ==
  IF x.special \/ \E i \in (WideDigits + 1)..Len(x.mag) : x.mag[i] # 0 THEN Refused
  ELSE LET m == Lowest(x.mag)[WideDigits]
       IN IF x.neg THEN IF m > WideMax + 1 THEN Refused ELSE -m
          ELSE IF m > WideMax THEN Refused ELSE m

\* from_u64: the digits of an integer are what it carries.
DigitsOf(v) == Trim(Carried(<<v>> \o Zeros(WideDigits - 1)))

FromI64(v) == Number(v < 0, DigitsOf(IF v < 0 THEN -v ELSE v))

\* to_le_bytes_signed and back.
ThroughBytes(x) ==
  IF x.special THEN Refused
  ELSE IF IsZero(x) THEN FromParts(<<0>>, FALSE) ELSE FromParts(Trim(x.mag), x.neg)
-----------------------------------------------------------------------------
(***************************************************************************)
(* ArithmaInteger: units.                                                  *)
(***************************************************************************)
\* Sums keep a common unit, products refuse any.
WithUnit(r, u) == IF r = Refused THEN Refused ELSE [r EXCEPT !.unit = u]
Unitless(x, y) == x.unit = NoUnit /\ y.unit = NoUnit

\* The operations that refuse a unit.
OfUnitless(op, x, y) ==
  CASE op = "mul"       -> Mul(x, y)
    [] op = "div_exact" -> DivExact(x, y)
    [] op = "div_floor" -> DivFloor(x, y, "quotient")
    [] op = "rem"       -> DivFloor(x, y, "remainder")
    [] op = "pow"       -> Pow(x, ToExponent(y))

Checked(op, x, y) ==
  CASE op \in {"add", "sub"} ->
         IF x.unit # y.unit THEN Refused
         ELSE WithUnit(IF op = "add" THEN Add(x, y) ELSE Sub(x, y), x.unit)
    [] op = "neg" -> Negate(x)
    [] op = "i64" -> IF ToI64(x) = Refused THEN Refused ELSE FromI64(ToI64(x))
    [] op = "bytes" -> ThroughBytes(x)
    [] op \in {"mul", "div_exact", "div_floor", "rem", "pow"} ->
         IF Unitless(x, y) THEN OfUnitless(op, x, y) ELSE Refused

Operations == {"add", "sub", "neg", "i64", "bytes", "mul", "div_exact", "div_floor", "rem", "pow"}

VARIABLES
  reg,     \* the number worked on
  last     \* the last call: operation, operands and result

integerVars == <<reg, last>>

NoCall == [op |-> "none", x |-> Refused, y |-> Refused, result |-> Refused]

IntegerInit == reg \in Starts /\ last = NoCall

Answered == last.op # "none" /\ last.result # Refused

Call ==
  /\ last = NoCall
  /\ \E op \in Operations, y \in Operands :
       last' = [op |-> op, x |-> reg, y |-> y, result |-> Checked(op, reg, y)]
  /\ UNCHANGED reg

\* The caller goes on with the answer, or with its operand if there is none.
Keep ==
  /\ last.op # "none"
  /\ reg' = IF Answered THEN last.result ELSE reg
  /\ last' = NoCall

IntegerNext == Call \/ Keep

IntegerSpec == IntegerInit /\ [][IntegerNext]_integerVars
-----------------------------------------------------------------------------
Val(x) == IF x.neg THEN -Value(x.mag) ELSE Value(x.mag)
Abs(v) == IF v < 0 THEN -v ELSE v

\* The result is the one of integer arithmetic, under the units the operands share.
ExactAnswer(op, x, y, r) ==
  LET a == Val(x)
      b == Val(y)
      v == Val(r)
  IN /\ op = "add"            => v = a + b
     /\ op = "sub"            => v = a - b
     /\ op = "neg"            => v = -a
     /\ op \in {"i64", "bytes"} => v = a
     /\ op = "mul"            => v = a * b
     /\ op = "div_exact"      => v * b = a
     /\ op = "pow"            => v = Powers(a)[b]
     /\ op = "div_floor"      =>
          \E m \in 0..(Abs(b) - 1) : a = v * b + (IF b < 0 THEN -m ELSE m)
     /\ op = "rem"            => /\ (a - v) % Abs(b) = 0
                                 /\ Abs(v) < Abs(b)
                                 /\ v # 0 => (v < 0) = (b < 0)
     /\ op \in {"add", "sub"} => x.unit = y.unit /\ r.unit = x.unit

\* What cannot be answered, or comes within one digit of the cap, may be refused.
MayRefuse(op, x, y) ==
  \/ x.special
  \/ y.special /\ op \notin {"neg", "i64", "bytes"}
  \/ op \in {"add", "sub"} /\ x.unit # y.unit
  \/ op \in {"mul", "div_exact", "div_floor", "rem", "pow"} /\ ~Unitless(x, y)
  \/ op \in {"div_exact", "div_floor", "rem"} /\ IsZero(y)
  \/ op = "div_exact" /\ Val(x) % Abs(Val(y)) # 0
  \/ op \in {"add", "sub"} /\ MaxDigits \in {Len(x.mag), Len(y.mag)}
  \/ op \in {"div_floor", "rem"} /\ Len(x.mag) = MaxDigits
  \/ op = "mul" /\ Len(x.mag) + Len(y.mag) > MaxDigits
  \/ op = "pow" /\ (y.neg \/ Val(y) > MaxExponent \/ Val(y) * Len(x.mag) >= MaxDigits)
  \/ op = "i64" /\ Val(x) \notin (-WideMax - 1)..WideMax

\* A call that answers is exact: whatever the operands look like inside, and
\* whatever calls made them, nothing is rounded, wrapped or truncated; and only
\* what has no answer, or comes within one digit of the cap, is refused
\* (integer.rs:263-700).
ExactOrRefused ==
  last.op # "none" =>
    IF last.result = Refused THEN MayRefuse(last.op, last.x, last.y)
    ELSE ExactAnswer(last.op, last.x, last.y, last.result)

OneSpelling(x) == x.mag = Trim(x.mag) /\ (x.neg => ~IsZeroMag(x.mag))
\* Spellings do not matter: a result has one (no leading zeros, no negative zero, no
\* more digits than the cap), so that equal results are equal structures, and the
\* comparison is the order of the integers even of operands spelled otherwise.
SpellingsAgree ==
  /\ reg \in Numbers
  /\ Answered /\ last.op # "neg" => OneSpelling(last.result)
  /\ last.op # "none" =>
       LET c == CmpInteger(last.x, last.y)
       IN IF last.x.special \/ last.y.special THEN c = Refused
          ELSE c = IF Val(last.x) < Val(last.y) THEN -1 ELSE IF Val(last.x) > Val(last.y) THEN 1 ELSE 0
=============================================================================
