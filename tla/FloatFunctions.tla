--------------------------- MODULE FloatFunctions ---------------------------
(***************************************************************************)
(* `arithma_apply_function`: what each ArithmaFunction makes of its f64    *)
(* operands.  f64 is abstracted to a grid: the magnitudes listed, in units *)
(* of which One make the number 1, with both signs, the infinities beyond  *)
(* the largest and NaN.  There is one zero.  A result is rounded to the    *)
(* nearest float of the grid, as f64 rounds its own.  Sqrt stands for the  *)
(* unary functions with a restricted domain, Abs for the total ones, Gamma *)
(* for the variants without a numeric rule.                                *)
(***************************************************************************)
EXTENDS Integers, Sequences, Folds, SequencesExt

CONSTANTS
  One,                           \* the units that make the number 1
  Magnitudes,                    \* the finite floats that are not negative
  IntegerTolerance,              \* 1e-12: a nearer exponent is an integer
  IntegerLimit,                  \* 1024: the largest exponent of pow_int
  PeriodicLimit,                 \* ARITHMA_INTERVAL_PERIODIC_LIMIT
  NaN, PosInf, NegInf,
  DivisionByZero, WrongArity, UnsupportedFunction,   \* the Err results
  Panic                          \* an operand is read past the end of `args`

ASSUME GridAssumption ==
  /\ One \in Nat \ {0}
  /\ Magnitudes \subseteq Nat /\ {0, One} \subseteq Magnitudes
  /\ \E m \in Magnitudes : \A n \in Magnitudes : n <= m

ASSUME LimitAssumption == {IntegerTolerance, IntegerLimit, PeriodicLimit} \subseteq Nat \ {0}

MaxFinite == CHOOSE m \in Magnitudes : \A n \in Magnitudes : n <= m

Finite == Magnitudes \cup {-m : m \in Magnitudes}
Floats == Finite \cup {NaN, PosInf, NegInf}
ApplyFaults == {DivisionByZero, WrongArity, UnsupportedFunction, Panic}

IsInf(x) == x \in {PosInf, NegInf}

\* The sign of a number that is not NaN.
SignOf(x) ==
  CASE x = PosInf -> 1
    [] x = NegInf -> -1
    [] OTHER      -> IF x > 0 THEN 1 ELSE IF x < 0 THEN -1 ELSE 0

Infinity(sign) == IF sign > 0 THEN PosInf ELSE IF sign < 0 THEN NegInf ELSE NaN

AbsInt(v) == IF v < 0 THEN -v ELSE v

\* The nearest magnitude, the larger of two as near.
Nearest ==
  [v \in 0..MaxFinite |->
     CHOOSE m \in Magnitudes :
       \A n \in Magnitudes :
         \/ AbsInt(v - m) < AbsInt(v - n)
         \/ AbsInt(v - m) = AbsInt(v - n) /\ n <= m]

\* The float an exact result becomes.
ToFloat(v) ==
  CASE v > MaxFinite  -> PosInf
    [] v < -MaxFinite -> NegInf
    [] v < 0          -> -Nearest[-v]
    [] OTHER          -> Nearest[v]

Neg(x) == CASE x = NaN -> NaN [] IsInf(x) -> Infinity(-SignOf(x)) [] OTHER -> -x

Plus(x, y) ==
  CASE x = NaN \/ y = NaN       -> NaN
    [] IsInf(x) /\ IsInf(y)     -> IF x = y THEN x ELSE NaN
    [] IsInf(x)                 -> x
    [] IsInf(y)                 -> y
    [] OTHER                    -> ToFloat(x + y)

Times(x, y) ==
  CASE x = NaN \/ y = NaN       -> NaN
    [] IsInf(x) \/ IsInf(y)     -> Infinity(SignOf(x) * SignOf(y))
    [] OTHER -> ToFloat(SignOf(x) * SignOf(y) * ((AbsInt(x) * AbsInt(y)) \div One))

Quotient(x, y) ==
  CASE x = NaN \/ y = NaN       -> NaN
    [] IsInf(x) /\ IsInf(y)     -> NaN
    [] IsInf(x)                 -> Infinity(SignOf(x) * SignOf(y))
    [] IsInf(y)                 -> 0
    [] y = 0                    -> IF x = 0 THEN NaN ELSE Infinity(SignOf(x))
    [] OTHER -> ToFloat(SignOf(x) * SignOf(y) * ((AbsInt(x) * One) \div AbsInt(y)))

SquareRoot(x) ==
  CASE x \in {NaN, PosInf}      -> x
    [] SignOf(x) < 0            -> NaN
    [] OTHER -> LET v == x * One
                IN ToFloat(CHOOSE r \in 0..v : r * r <= v /\ (r + 1) * (r + 1) > v)

AbsOf(x) == IF x = NaN THEN NaN ELSE IF SignOf(x) < 0 THEN Neg(x) ELSE x

LessEq(x, y) ==
  \/ x = y
  \/ x = NegInf \/ y = PosInf
  \/ x # PosInf /\ y # NegInf /\ x <= y

\* f64::min returns the other operand of a NaN.
MinOf(x, y) ==
  CASE x = NaN -> y [] y = NaN -> x [] OTHER -> IF LessEq(x, y) THEN x ELSE y

FunctionNames ==
  {"Add", "Subtract", "Multiply", "Divide", "Negate", "Sqrt", "Abs", "Min", "Gamma"}

Binary(args, v) == IF Len(args) # 2 THEN WrongArity ELSE v
Unary(args, v)  == IF Len(args) # 1 THEN WrongArity ELSE v

\* Unary functions read args[0] without looking at the number of operands.
FirstOf(args, Op(_)) == IF args = <<>> THEN Panic ELSE Op(args[1])

ApplyFunction(f, args) ==
  CASE f = "Add"      -> FoldLeft(Plus, 0, args)
    [] f = "Multiply" -> FoldLeft(Times, One, args)
    [] f = "Subtract" -> Binary(args, Plus(args[1], Neg(args[2])))
    [] f = "Divide"   -> Binary(args, IF args[2] = 0 THEN DivisionByZero
                                      ELSE Quotient(args[1], args[2]))
    [] f = "Negate"   -> Unary(args, Neg(args[1]))
    [] f = "Sqrt"     -> FirstOf(args, SquareRoot)
    [] f = "Abs"      -> FirstOf(args, AbsOf)
    [] f = "Min"      -> Binary(args, MinOf(args[1], args[2]))
    [] OTHER          -> UnsupportedFunction

-----------------------------------------------------------------------------
(***************************************************************************)
(* `ArithmaInterval` and `apply_interval_function`: the same functions on  *)
(* intervals.  A turn is four units of One and the periodic functions are  *)
(* triangle waves, so that their extrema lie on the grid.  Log2 stands for *)
(* the increasing functions whose value at the edge of the domain is       *)
(* infinite, Sqrt for those where it is finite, Acos for the decreasing    *)
(* one, Abs for the even ones, Gamma for what is not modelled.             *)
(***************************************************************************)
IntervalOf(lo, hi) == [lo |-> lo, hi |-> hi]

whole    == IntervalOf(NegInf, PosInf)
empty    == IntervalOf(PosInf, NegInf)
point(v) == IntervalOf(v, v)

\* f64 comparisons: false as soon as one side is NaN.
AtMost(x, y)   == x # NaN /\ y # NaN /\ LessEq(x, y)
LessThan(x, y) == AtMost(x, y) /\ x # y

is_empty(iv)    == LessThan(iv.hi, iv.lo)
contains(iv, v) == ~is_empty(iv) /\ AtMost(iv.lo, v) /\ AtMost(v, iv.hi)
is_point(iv)    == iv.lo \in Finite /\ iv.lo = iv.hi

\* f64::max, which returns the other operand of a NaN.
MaxOf(x, y) == Neg(MinOf(Neg(x), Neg(y)))

Least(S)    == CHOOSE v \in S : \A w \in S : LessEq(v, w)
Greatest(S) == CHOOSE v \in S : \A w \in S : LessEq(w, v)

\* A corner that is not a number makes the hull the whole line.
hull(S) == IF NaN \in S THEN whole ELSE IntervalOf(Least(S), Greatest(S))

union(x, y) ==
  IF is_empty(x) THEN y ELSE IF is_empty(y) THEN x
  ELSE IntervalOf(MinOf(x.lo, y.lo), MaxOf(x.hi, y.hi))

intersect(x, y) == IntervalOf(MaxOf(x.lo, y.lo), MinOf(x.hi, y.hi))

clip(iv, lo, hi) == intersect(iv, IntervalOf(lo, hi))
-----------------------------------------------------------------------------
(***************************************************************************)
(* The functions of one number that FloatFunctions leaves out.             *)
(***************************************************************************)
Log2Of(x) ==
  CASE x \in {NaN, PosInf} -> x
    [] x = 0               -> NegInf
    [] SignOf(x) < 0       -> NaN
    [] x >= One            ->
         ToFloat(One * CHOOSE k \in 0..x : One * 2 ^ k <= x /\ One * 2 ^ (k + 1) > x)
    [] OTHER               ->
         ToFloat(-(One * CHOOSE k \in 1..One : x * 2 ^ k >= One /\ x * 2 ^ (k - 1) < One))

Turn == 4 * One

\* From the extremum of sin a quarter of a turn before zero to the next one.
Phase(x) == (x + One) % Turn
SinOf(x) ==
  IF x \notin Finite THEN NaN
  ELSE ToFloat(IF Phase(x) <= 2 * One THEN Phase(x) - One ELSE 3 * One - Phase(x))
CosOf(x) ==
  IF x \notin Finite THEN NaN
  ELSE ToFloat(IF x % Turn <= 2 * One THEN One - (x % Turn) ELSE (x % Turn) - 3 * One)

\* The quarter of a turn before the triangle wave of sin reaches -x.
AcosOf(x) == IF x \in (-One)..One THEN ToFloat(One - x) ELSE NaN

\* Where tan has a pole f64 has some huge number; here it has no value.
TanOf(x) ==
  LET p == (x + One) % (2 * One)
      t == p - One
  IN IF x \notin Finite \/ p = 0 THEN NaN
     ELSE ToFloat(SignOf(t) * ((AbsInt(t) * One) \div (One - AbsInt(t))))

\* f64::signum of the positive zero.
SignumOf(x) == IF x = NaN THEN NaN ELSE IF SignOf(x) < 0 THEN -One ELSE One

\* The largest root of degree One of x ^ r.
RootOf(x, r) ==
  LET radicand == x ^ r * One ^ (One - r)
  IN IF r = 0 THEN One
     ELSE ToFloat(CHOOSE v \in 0..(x + One) : v ^ One <= radicand /\ (v + 1) ^ One > radicand)

\* f64::powf of x >= 0 with y >= 0, both finite: x is multiplied once for each
\* unit of the exponent and by a root for its fraction.
Raised ==
  [x, y \in Magnitudes |->
     FoldLeft(Times, RootOf(x, y % One), [i \in 1..(y \div One) |-> x])]

\* f64::powf with a finite y >= 0.
RaisedSigned(x, y) ==
  LET odd == y % (2 * One) = One
  IN CASE y = 0                    -> One
       [] IsInf(x)                 -> IF odd THEN x ELSE PosInf
       [] SignOf(x) >= 0           -> Raised[x, y]
       [] y % One # 0              -> NaN
       [] OTHER -> IF odd THEN Neg(Raised[-x, y]) ELSE Raised[-x, y]

PowerOf(x, y) ==
  CASE y = 0 \/ x = One      -> One
    [] x = NaN \/ y = NaN    -> NaN
    [] y \in Finite /\ y > 0 -> RaisedSigned(x, y)
    [] y \in Finite          -> IF x = 0 THEN PosInf ELSE Quotient(One, RaisedSigned(x, -y))
    [] x = -One              -> One
    [] OTHER -> IF (y = PosInf) = (IsInf(x) \/ AbsInt(x) > One) THEN PosInf ELSE 0

MoreFunctions == {"Power", "Log2", "Acos", "Sin", "Cos", "Tan", "Sign"}

ApplyReal(f, args) ==
  CASE f = "Power" -> Binary(args, PowerOf(args[1], args[2]))
    [] f = "Log2"  -> FirstOf(args, Log2Of)
    [] f = "Acos"  -> FirstOf(args, AcosOf)
    [] f = "Sin"   -> FirstOf(args, SinOf)
    [] f = "Cos"   -> FirstOf(args, CosOf)
    [] f = "Tan"   -> FirstOf(args, TanOf)
    [] f = "Sign"  -> FirstOf(args, SignumOf)
    [] OTHER       -> ApplyFunction(f, args)
-----------------------------------------------------------------------------
(***************************************************************************)
(* Their interval extensions.                                              *)
(***************************************************************************)
safe_mul(a, b) == IF a = 0 \/ b = 0 THEN 0 ELSE Times(a, b)
safe_div(a, b) == IF a = 0 /\ b # 0 THEN 0 ELSE Quotient(a, b)

Ends(iv) == {iv.lo, iv.hi}
Corners(Op(_, _), x, y) == {Op(a, b) : a \in Ends(x), b \in Ends(y)}

add_interval(x, y) == IntervalOf(Plus(x.lo, y.lo), Plus(x.hi, y.hi))
sub_interval(x, y) == IntervalOf(Plus(x.lo, Neg(y.hi)), Plus(x.hi, Neg(y.lo)))
mul_interval(x, y) == hull(Corners(safe_mul, x, y))
neg_interval(x)    == IntervalOf(Neg(x.hi), Neg(x.lo))

div_interval(x, y) == IF contains(y, 0) THEN whole ELSE hull(Corners(safe_div, x, y))

\* `increasing` and `decreasing`: the hull of the values at the ends.
monotone(iv, Op(_)) == hull({Op(v) : v \in Ends(iv)})

\* Restricted to the domain first; nothing left is an honest empty interval.
increasing_on(iv, lo, Op(_)) ==
  LET x == clip(iv, lo, PosInf) IN IF is_empty(x) THEN x ELSE monotone(x, Op)

\* An even function with its minimum `least` at zero.
even_interval(x, Op(_), least) ==
  LET outer == MaxOf(Op(x.lo), Op(x.hi))
  IN IF contains(x, 0) THEN IntervalOf(least, outer)
     ELSE IntervalOf(MinOf(Op(x.lo), Op(x.hi)), outer)

pow_nat(iv, k) ==
  LET raised(v) == PowerOf(v, k * One)
  IN CASE k = 0     -> point(One)
       [] k % 2 = 0 -> even_interval(iv, LAMBDA v : raised(AbsOf(v)), 0)
       [] OTHER     -> monotone(iv, raised)

pow_int(iv, k) ==
  IF k < 0 THEN div_interval(point(One), pow_nat(iv, -k)) ELSE pow_nat(iv, k)

\* f64::round, half away from zero, and whether the exponent is close enough.
RoundedExponent(e) == SignOf(e) * ((2 * AbsInt(e) + One) \div (2 * One))
TakenForInteger(e) ==
  /\ AbsInt(e - One * RoundedExponent(e)) < IntegerTolerance
  /\ AbsInt(RoundedExponent(e)) <= IntegerLimit

\* Only defined for a base that is not negative: the base is clipped first.
pow_clipped(base, e) ==
  LET x == clip(base, 0, PosInf)
  IN IF is_empty(x) THEN empty ELSE monotone(x, LAMBDA v : PowerOf(v, e))

pow_interval(base, exponent) ==
  CASE is_point(exponent) ->
         IF TakenForInteger(exponent.lo) THEN pow_int(base, RoundedExponent(exponent.lo))
         ELSE pow_clipped(base, exponent.lo)
    [] LessThan(0, base.lo) /\ base.lo \in Finite /\ base.hi \in Finite ->
         hull(Corners(PowerOf, base, exponent))
    [] OTHER -> whole

\* Some target + k turns lies in iv: the first one not below iv.lo is tried.
contains_congruent(iv, target) ==
  contains(iv, iv.lo + ((target - iv.lo) % Turn))

Bounded(iv) == iv.lo \in Finite /\ iv.hi \in Finite

\* Too far out for the phase of an argument to be known.
FarOut(iv) == \E v \in Ends(iv) : AbsInt(v) > PeriodicLimit

periodic_image(iv, Op(_), maxPhase, minPhase) ==
  IF ~Bounded(iv) \/ iv.hi - iv.lo >= Turn \/ FarOut(iv) THEN IntervalOf(-One, One)
  ELSE LET a == Op(iv.lo)
           b == Op(iv.hi)
       IN IntervalOf(IF contains_congruent(iv, minPhase) THEN -One ELSE MinOf(a, b),
                     IF contains_congruent(iv, maxPhase) THEN One ELSE MaxOf(a, b))

tan_interval(x) ==
  IF \/ ~Bounded(x) \/ x.hi - x.lo >= 2 * One \/ FarOut(x)
     \/ contains_congruent(x, One) \/ contains_congruent(x, -One)
    THEN whole ELSE monotone(x, TanOf)

acos_interval(iv) ==
  LET x == clip(iv, -One, One) IN IF is_empty(x) THEN x ELSE monotone(x, AcosOf)

sign_interval(x) ==
  CASE contains(x, 0)    -> IntervalOf(-One, One)
    [] LessThan(x.hi, 0) -> point(-One)
    [] OTHER             -> point(One)

\* `first` and `binary`: the operands a function insists on.
IntervalErrors == {WrongArity, UnsupportedFunction}
NeedsTwo == {"Subtract", "Divide", "Power"}
NeedsOne == {"Negate", "Sqrt", "Abs"} \cup (MoreFunctions \ {"Power"})

apply_interval_function(f, args) ==
  CASE \E i \in DOMAIN args : is_empty(args[i]) -> empty
    [] f = "Add"      -> FoldLeft(add_interval, point(0), args)
    [] f = "Multiply" -> FoldLeft(mul_interval, point(One), args)
    [] f \in NeedsTwo /\ Len(args) # 2 -> WrongArity
    [] f \in NeedsOne /\ args = <<>>   -> WrongArity
    [] f = "Subtract" -> sub_interval(args[1], args[2])
    [] f = "Divide"   -> div_interval(args[1], args[2])
    [] f = "Power"    -> pow_interval(args[1], args[2])
    [] f = "Negate"   -> neg_interval(args[1])
    [] f = "Sqrt"     -> increasing_on(args[1], 0, SquareRoot)
    [] f = "Log2"     -> increasing_on(args[1], 0, Log2Of)
    [] f = "Acos"     -> acos_interval(args[1])
    [] f = "Sin"      -> periodic_image(args[1], SinOf, One, -One)
    [] f = "Cos"      -> periodic_image(args[1], CosOf, 0, 2 * One)
    [] f = "Tan"      -> tan_interval(args[1])
    [] f = "Abs"      -> even_interval(args[1], AbsOf, 0)
    [] f = "Sign"     -> sign_interval(args[1])
    [] OTHER          -> UnsupportedFunction
=============================================================================
