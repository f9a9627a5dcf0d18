------------------------------- MODULE Fourier -------------------------------
(***************************************************************************)
(* The windowed Fourier quadrature (fourier.rs) on six intervals, where     *)
(* every angle is a multiple of a sixth of a turn: cosines are rational and *)
(* sines are rational multiples of sqrt(3)/2, written in that unit.  An     *)
(* input is the tuple of its values at the abscissae 0..6, NoSample where it *)
(* fails to evaluate or is not finite.  The facade (pyfacade/analysis.rs)   *)
(* keeps the configuration a session holds.                                *)
(***************************************************************************)
EXTENDS Rationals, Sequences, SequencesExt, Calls

CONSTANTS MaxSamples,          \* ARITHMA_FOURIER_MAX_SAMPLES
          MaxHarmonics,        \* ARITHMA_FOURIER_MAX_HARMONICS
          MaxWork              \* ARITHMA_FOURIER_MAX_WORK

Intervals == 6
NoSample == <<>>
CosSixth(k) == CASE k % 6 = 0 -> One [] k % 6 \in {1, 5} -> Half
                 [] k % 6 \in {2, 4} -> NegR(Half) [] OTHER -> Int2Rat(-1)
SinSixth(k) == CASE k % 6 \in {1, 2} -> One [] k % 6 \in {4, 5} -> Int2Rat(-1) [] OTHER -> Zero

\* The weight of each window at t = k / 6, a trigonometric sum in k, its
\* coefficients to two decimals.
CosineSum(coefficients, k) ==
  FoldLeft(LAMBDA acc, j : AddR(acc, MulR(coefficients[j], CosSixth((j - 1) * k))),
           Zero, [j \in DOMAIN coefficients |-> j])
WindowSum == [w \in {"rectangular", "hann", "hamming", "blackman", "blackmanharris"} |->
  CASE w = "rectangular" -> <<One>>
    [] w = "hann"        -> <<Half, NegR(Half)>>
    [] w = "hamming"     -> <<Rat(54, 100), Rat(-46, 100)>>
    [] w = "blackman"    -> <<Rat(42, 100), NegR(Half), Rat(8, 100)>>
    [] OTHER             -> <<Rat(36, 100), Rat(-49, 100), Rat(14, 100), Rat(-1, 100)>>]
Weight(w, k) == CosineSum(WindowSum[w], k)

QuadratureWeight(k) == Int2Rat(IF k \in {0, Intervals} THEN 1 ELSE IF k % 2 = 1 THEN 4 ELSE 2)

\* Simpson's mean of F over the range: the quadrature divided by its length.
MeanOf(values) ==
  DivR(FoldLeft(LAMBDA acc, k : AddR(acc, MulR(QuadratureWeight(k - 1), values[k])),
                Zero, [k \in 1..(Intervals + 1) |-> k]),
       Int2Rat(3 * Intervals))

Windowed(values, w) == [k \in DOMAIN values |-> MulR(values[k], Weight(w, k - 1))]
\* Variant for the mutants: a window is not compensated for.
UnitGain(w) == One

Gain(w) == MeanOf([k \in 1..(Intervals + 1) |-> Weight(w, k - 1)])

\* Sums of the windowed values against the cosine and the sine of a harmonic.
Against(values, w, h, Wave(_)) ==
  DivR(MulR(Int2Rat(2), MeanOf([k \in DOMAIN values |->
         MulR(Windowed(values, w)[k], Wave(h * (k - 1)))])), Gain(w))

\* A harmonic below the threshold, an accuracy target, is dropped whole.
Dropped(a, b, threshold) ==
  LtR(AddR(MulR(a, a), MulR(Rat(3, 4), MulR(b, b))), MulR(threshold, threshold))

FourierTransform(values, config) ==
  LET A(h) == Against(values, config.window, h, CosSixth)
      B(h) == Against(values, config.window, h, SinSixth)
      Kept(h) == IF Dropped(A(h), B(h), config.threshold) THEN <<Zero, Zero>> ELSE <<A(h), B(h)>>
  IN  IF config.samples < 2 \/ config.samples > MaxSamples THEN [error |-> "samples"]
      ELSE IF config.harmonics < 1 \/ config.harmonics > MaxHarmonics THEN [error |-> "harmonics"]
      ELSE IF Intervals * config.harmonics > MaxWork THEN [error |-> "work"]
      ELSE IF NoSample \in Range(values) THEN [error |-> "sample"]
      ELSE IF Gain(config.window) = Zero THEN [error |-> "gain"]
      ELSE [error |-> "none",
            value |-> [dc |-> DivR(MeanOf(Windowed(values, config.window)), Gain(config.window)),
                       harmonics |-> [h \in 1..config.harmonics |-> Kept(h)]]]

EmptyTransform(config) ==
  [dc |-> Zero, harmonics |-> [h \in 1..config.harmonics |-> <<Zero, Zero>>]]

\* The reconstruction at the k-th abscissa; sqrt(3)/2 squared is 3/4.
EvaluateTransform(f, k) ==
  FoldLeft(LAMBDA acc, h :
             AddR(acc, AddR(MulR(f.harmonics[h][1], CosSixth(h * k)),
                            MulR(Rat(3, 4), MulR(f.harmonics[h][2], SinSixth(h * k))))),
           f.dc, [h \in DOMAIN f.harmonics |-> h])
-----------------------------------------------------------------------------
(* The transform as Python calls it (pyfacade/analysis.rs). *)

Windows == {"rectangular", "hann", "hamming", "blackman", "blackmanharris", "gaussian"}

\* range: the sign of hi - lo, or "inf" when an end is not finite.
ConfigRefused(c) ==
  Screen(<< <<c.samples < 2 \/ c.samples > MaxSamples, "ValueError">>,
            <<c.harmonics < 1 \/ c.harmonics > MaxHarmonics, "ValueError">>,
            <<c.range # "up", "ValueError">>,
            <<c.accuracy \in {"negative", "inf"}, "ValueError">>,
            <<EnumRefused(c.window, Windows), "ValueError">> >>)

ConfigCall ==
  LET why == ConfigRefused(Call.config)
  IN  /\ Calling("fourier") /\ Call.op = "config"
      /\ Reply(IF why = "none" THEN Gave("FourierConfig") ELSE Raised(why))
      /\ held' = IF why = "none" THEN [Call.config EXCEPT !.window = Spellings[@]] ELSE held

\* The default configuration, of 1024 samples, is past what six intervals model.
Configured == held.window # "none"

Transformed(found) == IF found.error # "none" THEN Raised("ValueError") ELSE Gave(found.value)
TransformCall ==
  /\ Calling("fourier") /\ Call.op \in {"transform", "empty"} /\ Configured
  /\ Reply(IF Call.op = "empty" THEN Gave(EmptyTransform(held))
               ELSE IF NameRefused(Call.names[1]) THEN Raised("ValueError")
               ELSE IF OperandRefused(Call.classes) THEN Raised("TypeError")
               ELSE Transformed(FourierTransform(Call.values, held)))
  /\ UNCHANGED held

FourierNext == ConfigCall \/ TransformCall
=============================================================================
