---------------------------- MODULE Statistics ----------------------------
(***************************************************************************)
(* Probability distributions (probabilities/) and the Python classes and    *)
(* functions over them (pyfacade/stats.rs).  A session holds a distribution *)
(* or a confidence interval.  A float read from a caller is [is, v], a      *)
(* rational, "nan", "inf" or "-inf"; the error function and the density of  *)
(* the standard normal are constants, their argument in units of 1/sqrt(2). *)
(***************************************************************************)
EXTENDS Terms, Calls, Bitwise
LOCAL INSTANCE Combinatorics

CONSTANTS ErfSeries(_),        \* erf, summed as a series near zero
          ErfcTail(_),         \* erfc, a continued fraction away from zero
          Bell(_),             \* the density of the standard normal
          ErfBranch,           \* ERF_BRANCH, where one gives way to the other
          LargestFloat,        \* the largest f64
          MaxCoefficientTerms, \* MAX_EXACT_BINOMIAL_TERMS
          MaxLogTerms,         \* MAX_LN_BINOMIAL_TERMS
          MaxFacadeTerms,      \* MAX_BINOMIAL_TERMS
          MaxCdfTerms,         \* MAX_CDF_TERMS
          MaxDoublings,        \* MAX_BRACKET_STEPS
          MaxBisections,       \* MAX_BISECT_STEPS
          QuantileTolerance,   \* BISECT_TOL
          WordBits,            \* the width of the generator's state, 64 in the code
          UnitBits,            \* how many of its bits become a float, 53 in the code
          XorShifts,           \* <<right, left, right>>
          Multiplier,          \* XORSHIFT_MULTIPLIER
          DefaultSeed,         \* DEFAULT_SEED
          MaxDraws             \* MAX_SAMPLE_COUNT

ASSUME StatisticsAssumption ==
  /\ MaxCoefficientTerms \in Nat /\ MaxLogTerms \in Nat /\ UnitBits <= WordBits
  /\ 2 ^ (MaxCoefficientTerms + 1) > LargestFloat   \* why the exact product may stop there
  /\ DefaultSeed \in 1..(2 ^ WordBits - 1)

-----------------------------------------------------------------------------
(* Coefficients and masses. *)

Infinite == LargestFloat + 1
Shorter(n, k) == IF 2 * k <= n THEN k ELSE n - k

\* Each product is formed before it is divided, and may overflow there.
binomial_coefficient(n, k) ==
  LET m == Shorter(n, k)
      Longer(c, i) == IF c * (n - m + i) > LargestFloat THEN Infinite ELSE (c * (n - m + i)) \div i
  IN  IF k > n THEN 0
      ELSE IF m > MaxCoefficientTerms THEN Infinite
      ELSE FoldLeft(Longer, 1, [i \in 1..m |-> i])

\* Sums of logarithms are products here, and the gamma function factorials.
ln_binomial_coefficient(n, k) ==
  LET m == Shorter(n, k)
  IN  IF m > MaxLogTerms THEN Rat(factorial[n], factorial[m] * factorial[n - m])
      ELSE FoldLeft(LAMBDA acc, i : MulR(acc, Rat(n - m + i, i)), One, [i \in 1..m |-> i])

pmf_at(d, k) ==
  LET c == binomial_coefficient(d.n, k)
      Powers == MulR(PowR(d.p, k), PowR(SubR(One, d.p), d.n - k))
  IN  IF k > d.n THEN Zero
      ELSE IF d.p = Zero THEN IF k = 0 THEN One ELSE Zero
      ELSE IF d.p = One THEN IF k = d.n THEN One ELSE Zero
      ELSE MulR(IF c = Infinite THEN ln_binomial_coefficient(d.n, k) ELSE Int2Rat(c), Powers)

-----------------------------------------------------------------------------
(* The three distributions.  Their parameters are checked by whoever makes them. *)

NormalLaw(mean, std_dev) == [kind |-> "normal", mean |-> mean, std_dev |-> std_dev]
BinomialLaw(n, p)        == [kind |-> "binomial", n |-> n, p |-> p]
BernoulliLaw(p)          == [kind |-> "bernoulli", p |-> p]
StandardNormal == NormalLaw(Zero, One)

Erf(x) ==
  IF LtR(AbsR(x), ErfBranch) THEN ErfSeries(x)
  ELSE IF LtR(Zero, x) THEN SubR(One, ErfcTail(x)) ELSE SubR(ErfcTail(NegR(x)), One)
Erfc(x) ==
  IF LtR(AbsR(x), ErfBranch) THEN SubR(One, ErfSeries(x))
  ELSE IF LtR(Zero, x) THEN ErfcTail(x) ELSE SubR(Two, ErfcTail(NegR(x)))

Standardised(d, x) == DivR(SubR(x, d.mean), d.std_dev)
Probability(r) == MaxR({Zero, MinR({One, r})})
IsCount(x) == x[2] = 1 /\ x[1] >= 0

Density(d, x) ==
  CASE d.kind = "normal"    -> DivR(Bell(Standardised(d, x)), d.std_dev)
    [] d.kind = "binomial"  -> IF IsCount(x) THEN pmf_at(d, x[1]) ELSE Zero
    [] d.kind = "bernoulli" -> IF x = One THEN d.p ELSE IF x = Zero THEN SubR(One, d.p) ELSE Zero

\* Term by term up to the floor of x, over at most MaxCdfTerms trials.
TooManyTerms(d, x) ==
  d.kind = "binomial" /\ d.n > MaxCdfTerms /\ LeR(Zero, x) /\ LtR(x, Int2Rat(d.n))
SummedTo(d, k) == FoldLeft(LAMBDA acc, i : AddR(acc, pmf_at(d, i - 1)), Zero, [i \in 1..(k + 1) |-> i])
Cdf(d, x) ==
  CASE d.kind = "normal"    -> Probability(MulR(Half, Erfc(NegR(Standardised(d, x)))))
    [] d.kind = "binomial"  -> IF LtR(x, Zero) THEN Zero
                               ELSE IF LeR(Int2Rat(d.n), x) THEN One
                               ELSE Probability(SummedTo(d, x[1] \div x[2]))
    [] d.kind = "bernoulli" -> IF LtR(x, Zero) THEN Zero ELSE IF LtR(x, One) THEN SubR(One, d.p) ELSE One

Mean(d) ==
  CASE d.kind = "normal"    -> d.mean
    [] d.kind = "binomial"  -> MulR(Int2Rat(d.n), d.p)
    [] d.kind = "bernoulli" -> d.p
Variance(d) ==
  CASE d.kind = "normal"    -> MulR(d.std_dev, d.std_dev)
    [] d.kind = "binomial"  -> MulR(MulR(Int2Rat(d.n), d.p), SubR(One, d.p))
    [] d.kind = "bernoulli" -> MulR(d.p, SubR(One, d.p))

-----------------------------------------------------------------------------
(* The inverse of a distribution function: a bracket doubled outward, then halved. *)

\* Variant for the mutants: the plateau of a step at p itself is left to its right.
MoreMass(d, x, p) == LtR(p, Cdf(d, x))

EnoughMass(d, x, p) == LeR(p, Cdf(d, x))

RoomBelow(d, p) == {k \in 0..MaxDoublings : ~EnoughMass(d, Int2Rat(-(2 ^ k)), p)}
RoomAbove(d, p) == {k \in 0..MaxDoublings : EnoughMass(d, Int2Rat(2 ^ k), p)}
Soonest(steps) == 2 ^ (CHOOSE k \in steps : \A l \in steps : k <= l)

\* The distribution function is read at 1, if anywhere.
Unbracketed(d, p) == TooManyTerms(d, One) \/ RoomBelow(d, p) = {} \/ RoomAbove(d, p) = {}

NarrowEnough(b) == LeR(SubR(b[2], b[1]), MulR(QuantileTolerance, AddR(One, AbsR(b[2]))))
Narrowed(d, p, b) ==
  IF NarrowEnough(b) THEN b
  ELSE IF EnoughMass(d, Middle(b), p) THEN <<b[1], Middle(b)>> ELSE <<Middle(b), b[2]>>

\* The tolerance is wider than the gap between two floats: a bracket can be halved.
inverse_cdf(d, p) ==
  FoldLeft(LAMBDA b, i : Narrowed(d, p, b),
           <<Int2Rat(-Soonest(RoomBelow(d, p))), Int2Rat(Soonest(RoomAbove(d, p)))>>,
           [i \in 1..MaxBisections |-> i])[2]

-----------------------------------------------------------------------------
(* xorshift*, and draws by inversion.  An absent seed is <<>>. *)

Seeded(seed) == IF seed \in {<<>>, <<0>>} THEN DefaultSeed ELSE seed[1]

Word(v) == v % 2 ^ WordBits
Right(x, bits) == x \div 2 ^ bits
Scrambled(s) ==
  LET a == s ^^ Right(s, XorShifts[1])
      b == a ^^ Word(a * 2 ^ XorShifts[2])
  IN  b ^^ Right(b, XorShifts[3])

\* The high bits of a word and a half: neither 0 nor 1.
next_open_unit(s) == Rat(2 * Right(Word(s * Multiplier), WordBits - UnitBits) + 1, 2 ^ (UnitBits + 1))

StatesAfter(seed, n) ==
  FoldLeft(LAMBDA states, i : Append(states, Scrambled(states[i])), <<Seeded(seed)>>, [i \in 1..n |-> i])
UnitsDrawn(seed, n) == [i \in 1..n |-> next_open_unit(StatesAfter(seed, n)[i + 1])]

-----------------------------------------------------------------------------
(* Sample moments of a sequence of rationals. *)

Totalled(q) == FoldLeft(AddR, Zero, q)
SampleMean(q) == DivR(Totalled(q), Int2Rat(Len(q)))
Deviations(q, k) == Totalled([i \in DOMAIN q |-> PowR(SubR(q[i], SampleMean(q)), k)])
SampleVariance(q) == DivR(Deviations(q, 2), Int2Rat(Len(q) - 1))
SampleDeviation(q) == SquareRoot(SampleVariance(q))

\* The sum of the k-th powers of (x - mean) / s.
StandardPowers(q, k) == DivR(Deviations(q, k), PowR(SampleDeviation(q), k))
Skewness(q) ==
  LET n == Len(q)
  IN  MulR(Rat(n, (n - 1) * (n - 2)), StandardPowers(q, 3))
Kurtosis(q) ==
  LET n == Len(q)
  IN  SubR(MulR(Rat(n * (n + 1), (n - 1) * (n - 2) * (n - 3)), StandardPowers(q, 4)),
           Rat(3 * (n - 1) * (n - 1), (n - 2) * (n - 3)))

Moments == {"sample_mean", "sample_variance", "sample_std_dev", "sample_skewness", "sample_kurtosis"}
LeastPoints(op) ==
  CASE op = "sample_mean" -> 1 [] op = "sample_skewness" -> 3 [] op = "sample_kurtosis" -> 4 [] OTHER -> 2
Moment(op, q) ==
  CASE op = "sample_mean"     -> SampleMean(q)
    [] op = "sample_variance" -> SampleVariance(q)
    [] op = "sample_std_dev"  -> SampleDeviation(q)
    [] op = "sample_skewness" -> Skewness(q)
    [] op = "sample_kurtosis" -> Kurtosis(q)

\* data: [as, classes, finite, values], as Python holds it.
DataRefused(data) ==
  Screen(<< <<data.as # "list", "TypeError">>,
            <<Len(data.values) > SequenceCap, "ValueError">>,
            <<~(data.classes \subseteq {"int", "float"}), "TypeError">> >>)
MomentRefused(op, data) ==
  Screen(<< <<DataRefused(data) # "none", DataRefused(data)>>,
            <<Len(data.values) < LeastPoints(op) \/ ~data.finite, "ValueError">>,
            <</\ op \in {"sample_skewness", "sample_kurtosis"}
              /\ Len(data.values) > 1 /\ SampleVariance(data.values) = Zero, "ValueError">> >>)

-----------------------------------------------------------------------------
(* Making a distribution, or an interval. *)

OutsideUnit(p) == LeR(p, Zero) \/ LeR(One, p)       \* a quantile, or a level
Improper(d) ==
  IF d.kind = "normal" THEN LeR(d.std_dev, Zero) ELSE LtR(d.p, Zero) \/ LtR(One, d.p)

DistributionMade(call) ==
  IF ~call.finite \/ Improper(call.spec) THEN Raised("ValueError") ELSE Gave(call.spec)

\* text: what the document is, "spec" when it has the fields of a distribution.
ReadJson(call) == IF call.text # "spec" THEN Raised("ValueError") ELSE DistributionMade(call)

IntervalOf(lower, upper, level) == [kind |-> "interval", lower |-> lower, upper |-> upper, level |-> level]
IntervalMade(i, finite) ==
  IF ~finite \/ OutsideUnit(i.level) \/ LtR(i.upper, i.lower) THEN Raised("ValueError") ELSE Gave(i)

\* The standard normal leaves half of what is outside above its critical value.
Upper(level) == SubR(One, MulR(Half, SubR(One, level)))
CriticalValue(level) == inverse_cdf(StandardNormal, Upper(level))

\* The quotient of two roots is the root of a quotient.
AroundMean(q, level) ==
  LET margin == MulR(CriticalValue(level), SquareRoot(DivR(SampleVariance(q), Int2Rat(Len(q)))))
  IN  IntervalOf(SubR(SampleMean(q), margin), AddR(SampleMean(q), margin), level)
IntervalFromData(call) ==
  LET why == MomentRefused("sample_variance", call.data)
  IN  IF OutsideUnit(call.level) THEN Raised("ValueError")
      ELSE IF why # "none" THEN Raised(why)
      ELSE IF Unbracketed(StandardNormal, Upper(call.level)) THEN Raised("RuntimeError")
      ELSE IntervalMade(AroundMean(call.data.values, call.level), TRUE)

Creates(op, reply) ==
  /\ Calling("statistics") /\ Call.op = op
  /\ Reply(reply)
  /\ held' = IF reply.raised = "none" THEN reply.value ELSE held

MakeStandard     == Creates("standard", Gave(StandardNormal))
MakeNormal       == Creates("Normal", DistributionMade(Call))
MakeBinomial     == Creates("Binomial", DistributionMade(Call))
MakeBernoulli    == Creates("Bernoulli", DistributionMade(Call))
MakeFromJson     == Creates("distribution_from_json", ReadJson(Call))
MakeInterval     == Creates("ConfidenceInterval", IntervalMade(Call.spec, Call.finite))
MakeIntervalFrom == Creates("normal_confidence_interval", IntervalFromData(Call))

-----------------------------------------------------------------------------
(* Asking one. *)

DensityReply(d, x) ==
  IF x.is = "nan" THEN Raised("ValueError")
  ELSE Gave(IF x.is = "number" THEN Density(d, x.v) ELSE Zero)
CdfReply(d, x) ==
  IF x.is = "nan" \/ (x.is = "number" /\ TooManyTerms(d, x.v)) THEN Raised("ValueError")
  ELSE Gave(CASE x.is = "number" -> Cdf(d, x.v) [] x.is = "inf" -> One [] OTHER -> Zero)

\* A search that fails is the library's fault, not the caller's.
QuantileReply(d, p, finite) ==
  IF ~finite \/ OutsideUnit(p) THEN Raised("ValueError")
  ELSE IF Unbracketed(d, p) THEN Raised("RuntimeError") ELSE Gave(inverse_cdf(d, p))

SampleReply(d, n, seed) ==
  LET units == UnitsDrawn(seed, n)
  IN  IF n > MaxDraws THEN Raised("ValueError")
      ELSE IF \E i \in 1..n : Unbracketed(d, units[i]) THEN Raised("RuntimeError")
      ELSE Gave([i \in 1..n |-> inverse_cdf(d, units[i])])

MeasureReply(d, op) ==
  Gave(CASE op = "mean"     -> Mean(d)
         [] op = "variance" -> Variance(d)
         [] op = "std_dev"  -> IF d.kind = "normal" THEN d.std_dev ELSE SquareRoot(Variance(d)))

IntervalReply(i, call) ==
  CASE call.op = "width"    -> Gave(SubR(i.upper, i.lower))
    [] call.op = "midpoint" -> Gave(AddR(i.lower, MulR(Half, SubR(i.upper, i.lower))))
    [] call.op = "contains" -> IF call.x.is # "number" THEN Raised("ValueError")
                               ELSE Gave(LeR(i.lower, call.x.v) /\ LeR(call.x.v, i.upper))

ErfReply(op, x) ==
  LET AtEnd == IF x.is = "inf" THEN One ELSE NegR(One)
  IN  IF x.is = "nan" THEN Raised("ValueError")
      ELSE IF op = "erf" THEN Gave(IF x.is = "number" THEN Erf(x.v) ELSE AtEnd)
      ELSE Gave(IF x.is = "number" THEN Erfc(x.v) ELSE SubR(One, AtEnd))

CoefficientReply(n, k) ==
  IF \/ k <= n /\ Shorter(n, k) > MaxFacadeTerms
     \/ binomial_coefficient(n, k) = Infinite
  THEN Raised("ValueError") ELSE Gave(Int2Rat(binomial_coefficient(n, k)))

MomentReply(call) ==
  LET why == MomentRefused(call.op, call.data)
  IN  IF why # "none" THEN Raised(why) ELSE Gave(Moment(call.op, call.data.values))

CriticalReply(level) ==
  IF OutsideUnit(level) THEN Raised("ValueError")
  ELSE IF Unbracketed(StandardNormal, Upper(level)) THEN Raised("RuntimeError")
  ELSE Gave(CriticalValue(level))

AnswersTo(ops, reply) == Calling("statistics") /\ Call.op \in ops /\ Reply(reply) /\ UNCHANGED held

AskDensity       == AnswersTo({"pdf", "pmf"}, DensityReply(held, Call.x))
AskCdf           == AnswersTo({"cdf"}, CdfReply(held, Call.x))
AskQuantile      == AnswersTo({"quantile"}, QuantileReply(held, Call.p, Call.finite))
AskSample        == AnswersTo({"sample"}, SampleReply(held, Call.n, Call.seed))
AskMeasure       == AnswersTo({"mean", "variance", "std_dev"}, MeasureReply(held, Call.op))
AskInterval      == AnswersTo({"width", "midpoint", "contains"}, IntervalReply(held, Call))
AskErf           == AnswersTo({"erf", "erfc"}, ErfReply(Call.op, Call.x))
AskCoefficient   == AnswersTo({"binomial_coefficient"}, CoefficientReply(Call.n, Call.k))
AskMoment        == AnswersTo(Moments, MomentReply(Call))
AskCriticalValue == AnswersTo({"normal_critical_value"}, CriticalReply(Call.level))

StatisticsNext ==
  \/ MakeStandard \/ MakeNormal \/ MakeBinomial \/ MakeBernoulli \/ MakeFromJson
  \/ MakeInterval \/ MakeIntervalFrom
  \/ AskDensity \/ AskCdf \/ AskQuantile \/ AskSample \/ AskMeasure
  \/ AskInterval \/ AskErf \/ AskCoefficient \/ AskMoment \/ AskCriticalValue
=============================================================================
