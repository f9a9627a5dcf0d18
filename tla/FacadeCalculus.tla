--------------------------- MODULE FacadeCalculus ---------------------------
(***************************************************************************)
(* Differentiation, integration and the analysis of functions as Python     *)
(* calls them (pyfacade/calculus.rs and numerical.rs).  A derivative asked  *)
(* for by name is queued and runs the machine of Calculus; the analysis    *)
(* of a function takes the derivatives it needs whole.                     *)
(***************************************************************************)
EXTENDS Calculus, Calls

CONSTANTS MaxDerivativeOrder,  \* MAX_DERIVATIVE_ORDER
          MaxIterations,       \* MAX_ITERATIONS
          Nudge                \* how far from a point the second derivative is probed: 1e-6

VARIABLES
  queue,        \* derivatives still to compute: [term, by]
  produced      \* the ones computed

calculusVars == <<queue, produced, work, results, frames, derivative>>

MachineIdle == work = <<>> /\ derivative = Pending /\ results = <<>>
ResetMachine == work' = <<>> /\ results' = <<>> /\ frames' = 0 /\ derivative' = Pending

Unary == {"Sin", "Cos", "Tan", "Exp", "Ln", "Sqrt", "Negate"}

CalculusRefused(call) ==
  Screen(<<
    <<call.op = "gradient" /\ "str" \in call.namesAs, "TypeError">>,
    <<call.op = "gradient" /\ (Len(call.names) > SequenceCap \/ call.names = <<>>), "ValueError">>,
    <<call.op # "gradient" /\ NameRefused(call.names[1]), "ValueError">>,
    <<call.op = "differentiate_n" /\ call.order > MaxDerivativeOrder, "ValueError">>,
    <<call.op = "integrate_numeric" /\ ~call.finite, "ValueError">>,
    <<OperandRefused(call.classes), "TypeError">>,
    <<call.op = "integrate_definite" /\ ~call.finite, "ValueError">>,
    <<call.op = "diff_chain" /\ call.term.op # "Function", "TypeError">> >>)

\* What the calls that differentiate ask the machine for.
Wanted(call) ==
  LET t == call.term
      x == call.names[1]
      Of(term) == [term |-> term, by |-> x]
  IN  CASE call.op = "differentiate"   -> <<Of(t)>>
        [] call.op = "differentiate_n" -> [k \in 1..call.order |-> Of(t)]
        [] call.op = "gradient"        -> [k \in DOMAIN call.names |-> [term |-> t, by |-> call.names[k]]]
        [] call.op \in {"diff_sum", "diff_product"} -> <<Of(t), Of(call.other)>>
        [] call.op = "diff_chain" ->
             IF t.name \in Unary THEN <<Of(Fn(t.name, <<call.other>>))>> ELSE <<>>

Differentiating == {"differentiate", "differentiate_n", "gradient",
                    "diff_sum", "diff_product", "diff_chain"}

\* The call has been screened once the session holds its pending work.
AskDerivatives ==
  LET why == CalculusRefused(Call)
  IN  /\ Calling("calculus") /\ Call.op \in Differentiating
      /\ held = Nothing
      /\ IF why # "none" THEN Reply(Raised(why)) /\ UNCHANGED <<held, queue, produced>>
         ELSE /\ held' = [pending |-> TRUE] /\ queue' = Wanted(Call) /\ produced' = <<>>
              /\ UNCHANGED <<session, answers>>
      /\ UNCHANGED <<work, results, frames, derivative>>

\* A repeated derivative is taken of the one before it.
NextInput ==
  IF Call.op = "differentiate_n" /\ produced # <<>> THEN Last(produced) ELSE queue[1].term

Asked == Calling("calculus") /\ held # Nothing
DropQueue == queue' = <<>> /\ produced' = <<>> /\ held' = Nothing

\* The names of a gradient are looked at one by one, between derivatives; call.alien
\* has the positions that do not hold a str.
NextNameRefused ==
  Screen(<< <<Len(produced) + 1 \in Call.alien, "TypeError">>, <<NameRefused(queue[1].by), "ValueError">> >>)
StartDerivative ==
  /\ Asked /\ queue # <<>> /\ MachineIdle
  /\ IF NextNameRefused # "none"
       THEN Reply(Raised(NextNameRefused)) /\ DropQueue /\ UNCHANGED <<work, results, frames, derivative>>
       ELSE /\ work' = <<EnterFrame(NextInput)>>
            /\ UNCHANGED <<callVars, queue, produced, results, frames, derivative>>

MachineStep == Asked /\ queue # <<>> /\ DiffNext(queue[1].by) /\ UNCHANGED <<callVars, queue, produced>>

\* The three rules put 0 for a derivative that is refused; the others stop.
OrZero == Call.op \in {"diff_sum", "diff_product", "diff_chain"}

CollectDerivative ==
  /\ Asked /\ queue # <<>> /\ derivative # Pending
  /\ ResetMachine
  /\ IF derivative.error = "none" \/ OrZero
       THEN /\ produced' = Append(produced, IF derivative.error = "none" THEN derivative.term ELSE Lit(0))
            /\ queue' = Tail(queue) /\ UNCHANGED callVars
       ELSE Reply(Raised("RuntimeError")) /\ DropQueue

Product2(a, b, da, db) == Add(Mul(da, b), Mul(a, db))

DerivativeAnswer ==
  CASE Call.op = "gradient"        -> Gave(produced)
    [] Call.op = "differentiate_n" -> Gave(IF produced = <<>> THEN Call.term ELSE Last(produced))
    [] Call.op = "diff_sum"        -> Gave(Add(produced[1], produced[2]))
    [] Call.op = "diff_product"    -> Gave(Product2(Call.term, Call.other, produced[1], produced[2]))
    [] OTHER                       -> Gave(IF produced = <<>> THEN Lit(0) ELSE produced[1])

AnswerDerivatives ==
  /\ Asked /\ queue = <<>>
  /\ Reply(DerivativeAnswer) /\ DropQueue
  /\ UNCHANGED <<work, results, frames, derivative>>

-----------------------------------------------------------------------------
Integral(call) ==
  LET x == call.names[1]
  IN  CASE call.op = "integrate"          -> Integrate(call.term, x)
        [] call.op = "integrate_definite" -> IntegrateDefinite(call.term, x, call.lo, call.hi)
        [] call.op = "integrate_numeric"  ->
             IntegrateNumeric(call.term, x, call.lo.value, call.hi.value)

Integrated(found) == IF found.error # "none" THEN Raised("ValueError") ELSE Gave(found.term)

IntegralCall ==
  LET why == CalculusRefused(Call)
  IN  /\ Calling("calculus") /\ Call.op \notin Differentiating
      /\ Reply(IF why # "none" THEN Raised(why) ELSE Integrated(Integral(Call)))
      /\ UNCHANGED <<held, calculusVars>>

-----------------------------------------------------------------------------
(***************************************************************************)
(* Root finding and critical points (numerical/root_finding.rs and          *)
(* critical_points.rs) over exact numbers: RootFinding and CriticalPoints   *)
(* have the steps of both, here is what a call of them answers.  Derived is *)
(* what the machine leaves of a term far below its cap; a stop on a bracket *)
(* as narrow as the rounding takes more halvings than any budget here.     *)
(* A limits record is [tol, flat, slack, budget]: convergence_threshold,    *)
(* second_derivative_threshold, numerical_tolerance and the iterations.    *)
(***************************************************************************)
RECURSIVE Derived(_, _)
Derived(t, x) ==
  IF Leaf(t) THEN Done(Lit(IF t = Var(x) THEN 1 ELSE 0))
  ELSE IF ~Differentiable(t) THEN Refuse("unsupported")
  ELSE IF t.name \in Binary2
  THEN Both(Derived(t.kids[1], x), Derived(t.kids[2], x), LAMBDA da, db : RuleFor(t, da, db))
  ELSE Whole(Derived(t.kids[1], x), LAMBDA da : RuleFor(t, da, da))

\* The term and its first three derivatives, refused from the first that is.
DerivedAgain(d, x) == IF d.error # "none" THEN d ELSE Derived(d.term, x)
Orders(t, x) ==
  FoldLeft(LAMBDA ds, k : Append(ds, DerivedAgain(Last(ds), x)), <<Done(t)>>, <<1, 2, 3>>)

Sample(t, x, p) == ValueAt(t, [v \in {x} |-> p])
Negligible(y, tol) == LeR(AbsR(y), tol)
Opposite(y, z) == (LtR(y, Zero) /\ LtR(Zero, z)) \/ (LtR(Zero, y) /\ LtR(z, Zero))

RootAt(r, n, c) == [error |-> "none", root |-> r, iterations |-> n, converged |-> c]

\* s is [error, root, iterations, converged] with the bracket and the value at its start.
HalvedOnce(s, mid, y, tol) ==
  IF ~y.ok THEN [s EXCEPT !.error = "sample"]
  ELSE IF Negligible(y.v, tol) THEN [s EXCEPT !.root = mid, !.iterations = @ + 1, !.converged = TRUE]
  ELSE IF Opposite(s.fa, y.v) THEN [s EXCEPT !.root = mid, !.iterations = @ + 1, !.b = mid]
  ELSE [s EXCEPT !.root = mid, !.iterations = @ + 1, !.a = mid, !.fa = y.v]

\* Halved until it stops, or as often as there is budget: then the last midpoint.
Bisection(t, x, s0, limits) ==
  FoldLeft(LAMBDA s, k : IF s.error # "none" \/ s.converged THEN s
                         ELSE HalvedOnce(s, Middle(<<s.a, s.b>>),
                                         Sample(t, x, Middle(<<s.a, s.b>>)), limits.tol),
           s0, [k \in 1..limits.budget |-> k])

BisectBetween(t, x, a, b, fa, fb, limits) ==
  IF ~fa.ok \/ ~fb.ok THEN Refuse("sample")
  ELSE IF Negligible(fa.v, limits.tol) THEN RootAt(a, 0, TRUE)
  ELSE IF Negligible(fb.v, limits.tol) THEN RootAt(b, 0, TRUE)
  ELSE IF ~Opposite(fa.v, fb.v) THEN Refuse("no sign change")
  ELSE Bisection(t, x, RootAt(a, 0, FALSE) @@ [a |-> a, b |-> b, fa |-> fa.v], limits)
RootBisection(t, x, a, b, limits) == BisectBetween(t, x, a, b, Sample(t, x, a), Sample(t, x, b), limits)

\* y, slope: the term and its derivative at the point the iteration is at.
TangentStep(s, y, slope, tol) ==
  IF ~y.ok THEN [s EXCEPT !.error = "sample"]
  ELSE IF Negligible(y.v, tol) THEN [s EXCEPT !.iterations = @ + 1, !.converged = TRUE]
  ELSE IF ~slope.ok \/ slope.v = Zero THEN [s EXCEPT !.error = "stalled"]
  ELSE [s EXCEPT !.iterations = @ + 1, !.root = SubR(@, DivR(y.v, slope.v))]
RootNewton(ds, x, initial, limits) ==
  IF ds[2].error # "none" THEN ds[2]
  ELSE FoldLeft(LAMBDA s, k : IF s.error # "none" \/ s.converged THEN s
                              ELSE TangentStep(s, Sample(ds[1].term, x, s.root),
                                              Sample(ds[2].term, x, s.root), limits.tol),
                RootAt(initial, 0, FALSE), [k \in 1..limits.budget |-> k])

\* The line through the last two points; the newer one is the root so far.
Chord(t, x, s, next) ==
  [s EXCEPT !.iterations = @ + 1, !.a = s.root, !.fa = s.fb, !.root = next, !.fb = Sample(t, x, next)]
SecantStep(t, x, s, tol) ==
  IF ~s.fb.ok THEN [s EXCEPT !.error = "sample"]
  ELSE IF Negligible(s.fb.v, tol) THEN [s EXCEPT !.iterations = @ + 1, !.converged = TRUE]
  ELSE IF s.fa.v = s.fb.v THEN [s EXCEPT !.error = "stalled"]
  ELSE Chord(t, x, s, SubR(s.root, DivR(MulR(s.fb.v, SubR(s.root, s.a)), SubR(s.fb.v, s.fa.v))))
\* The last point is looked at once more when the budget is spent.
Spent(s, tol) ==
  IF s.error # "none" \/ s.converged THEN s
  ELSE IF ~s.fb.ok THEN [s EXCEPT !.error = "sample"] ELSE [s EXCEPT !.converged = Negligible(s.fb.v, tol)]
SecantFrom(t, x, s0, limits) ==
  IF ~s0.fa.ok \/ ~s0.fb.ok THEN Refuse("sample")
  ELSE IF Negligible(s0.fa.v, limits.tol) THEN RootAt(s0.a, 0, TRUE)
  ELSE Spent(FoldLeft(LAMBDA s, k : IF s.error # "none" \/ s.converged THEN s
                                    ELSE SecantStep(t, x, s, limits.tol),
                      s0, [k \in 1..limits.budget |-> k]), limits.tol)
RootSecant(t, x, a, b, limits) ==
  SecantFrom(t, x, RootAt(b, 0, FALSE) @@ [a |-> a, fa |-> Sample(t, x, a), fb |-> Sample(t, x, b)], limits)

-----------------------------------------------------------------------------
Width(range) == SubR(range[2], range[1])
ScanStepOf(range, limits) == DivR(Width(range), Int2Rat(limits.budget))
Duplicates(range, limits) == MaxR({MulR(ScanStepOf(range, limits), Rat(3, 2)), limits.slack})
PushUnique(roots, r, apart) ==
  IF \E s \in roots : LeR(AbsR(SubR(s, r)), apart) THEN roots ELSE roots \cup {r}

\* A bracket is bisected with the scan's own budget, and its answer taken as it is.
PushBracketed(roots, found, apart) ==
  IF found.error # "none" THEN roots ELSE PushUnique(roots, found.root, apart)

Scanned(s, t, x, p, y, apart, limits) ==
  IF ~y.ok THEN [s EXCEPT !.prev = <<>>]
  ELSE [prev    |-> <<p, y.v>>,
        samples |-> s.samples + 1,
        zeros   |-> s.zeros + (IF Negligible(y.v, limits.tol) THEN 1 ELSE 0),
        roots   |-> IF Negligible(y.v, limits.tol) THEN PushUnique(s.roots, p, apart)
                    ELSE IF s.prev # <<>> /\ Opposite(s.prev[2], y.v)
                    THEN PushBracketed(s.roots, RootBisection(t, x, s.prev[1], p, limits), apart)
                    ELSE s.roots]

\* Near zero at every sample: no isolated root.
Isolated(s) == IF s.samples > 2 /\ s.zeros = s.samples THEN {} ELSE s.roots
ScanForRoots(t, x, range, limits, dx, apart) ==
  Isolated(FoldLeft(LAMBDA s, p : Scanned(s, t, x, p, Sample(t, x, p), apart, limits),
                    [prev |-> <<>>, samples |-> 0, zeros |-> 0, roots |-> {}],
                    [k \in 1..(limits.budget + 1) |-> AddR(range[1], MulR(dx, Int2Rat(k - 1)))]))

\* In increasing order; the first sample must have a value.
Roots(t, x, range, limits) ==
  IF ~Sample(t, x, range[1]).ok THEN Refuse("sample")
  ELSE Done(SetToSortSeq(ScanForRoots(t, x, range, limits, ScanStepOf(range, limits),
                                      Duplicates(range, limits)), LtR))

-----------------------------------------------------------------------------
\* No value counts as zero.
Flips(t, x, p, step) == Opposite(Sample(t, x, SubR(p, step)).v, Sample(t, x, AddR(p, step)).v)
Nudged(p) == MulR(MaxR({AbsR(p), One}), Nudge)
Clear(y, limits) == y.ok /\ ~Negligible(y.v, limits.flat)

KindOf(p, f1, f2, f3, flips, limits) ==
  IF ~Negligible(f1.v, limits.tol)
  THEN IF f2.ok /\ ~Clear(f2, limits) /\ flips THEN "inflection" ELSE "inconclusive"
  ELSE IF Clear(f2, limits) THEN IF LtR(Zero, f2.v) THEN "minimum" ELSE "maximum"
  ELSE IF Clear(f3, limits) THEN "saddle" ELSE "inconclusive"

\* A derivative without a value is None.
CriticalPoint(p, ys, kind) == [x |-> p, y |-> ys[1].v, kind |-> kind, derivatives |-> Tail(ys)]
Samples(ds, x, p) == [k \in 1..4 |-> Sample(ds[k].term, x, p)]

Classified(ds, x, p, ys, limits) ==
  IF ~ys[1].ok \/ ~ys[2].ok THEN Refuse("sample")
  ELSE Done(CriticalPoint(p, ys, KindOf(p, ys[2], ys[3], ys[4], Flips(ds[3].term, x, p, Nudged(p)),
                                        limits)))
\* All three derivatives are taken first, whether or not the point calls for them.
AnalyzePoint(ds, x, p, limits) ==
  IF Last(ds).error # "none" THEN Last(ds) ELSE Classified(ds, x, p, Samples(ds, x, p), limits)

\* One point that cannot be analysed fails the call.
AllOf(found) ==
  IF \E k \in DOMAIN found : found[k].error # "none" THEN Refuse("point")
  ELSE Done([k \in DOMAIN found |-> found[k].term])

StationaryAt(ds, x, roots, limits) ==
  IF roots.error # "none" THEN roots
  ELSE AllOf([k \in DOMAIN roots.term |-> AnalyzePoint(ds, x, roots.term[k], limits)])
Stationary(ds, x, range, limits) ==
  IF ds[2].error # "none" THEN ds[2] ELSE StationaryAt(ds, x, Roots(ds[2].term, x, range, limits), limits)

ProbeStep(range, limits) == IF range[1] = range[2] THEN Nudge ELSE ScanStepOf(range, limits)
\* Variant for the mutants: every root of the second derivative is an inflection.
ConfirmedAlways(ds, x, p, step, limits) == TRUE
\* The third derivative is not zero, or the second changes its sign.
Confirmed(ds, x, p, step, limits) ==
  Clear(Sample(ds[4].term, x, p), limits) \/ Flips(ds[3].term, x, p, step)
Inflection(p, ys) == IF ys[1].ok THEN Done(CriticalPoint(p, ys, "inflection")) ELSE Refuse("sample")
InflectionsAt(ds, x, roots, step, limits) ==
  IF roots.error # "none" THEN roots
  ELSE AllOf(LET bends == SelectSeq(roots.term, LAMBDA p : Confirmed(ds, x, p, step, limits))
             IN  [k \in DOMAIN bends |-> Inflection(bends[k], Samples(ds, x, bends[k]))])
Inflections(ds, x, range, limits) ==
  IF Last(ds).error # "none" THEN Last(ds)
  ELSE InflectionsAt(ds, x, Roots(ds[3].term, x, range, limits), ProbeStep(range, limits), limits)

OfKind(points, kind) == SelectSeq(points, LAMBDA p : p.kind = kind)

\* The pieces between the cuts, labelled by the sign at the middle of each; one that
\* has no value there is left out.
PieceOf(lo, hi, y) == [lo |-> lo, hi |-> hi, up |-> LtR(Zero, y.v)]
Pieces(t, x, bounds) ==
  LET middles == [k \in 1..(Len(bounds) - 1) |-> Sample(t, x, Middle(<<bounds[k], bounds[k + 1]>>))]
  IN  {PieceOf(bounds[k], bounds[k + 1], middles[k]) : k \in {i \in DOMAIN middles : middles[i].ok}}
SplitAt(t, x, range, points) ==
  Pieces(t, x, SetToSortSeq({range[1], range[2]}
                            \cup {p \in {points[k].x : k \in DOMAIN points} : LtR(range[1], p) /\ LtR(p, range[2])}, LtR))

AnalysisOf(ds, x, range, flats, bends) ==
  IF flats.error # "none" THEN flats ELSE IF bends.error # "none" THEN bends
  ELSE Done([stationary |-> flats.term, inflections |-> bends.term,
             monotonic |-> SplitAt(ds[2].term, x, range, flats.term),
             concavity |-> SplitAt(ds[3].term, x, range, bends.term)])
AnalyzeIntervals(ds, x, range, limits) ==
  AnalysisOf(ds, x, range, Stationary(ds, x, range, limits), Inflections(ds, x, range, limits))

-----------------------------------------------------------------------------
RootOps   == {"find_root_bisection", "find_root_newton_raphson", "find_root_secant"}
RangeOps  == {"find_stationary_points", "find_inflection_points", "find_extrema", "analyze_intervals"}
PointOps  == {"analyze_point", "classify_point"}
Numerical == Calling("numerical") /\ UNCHANGED <<held, calculusVars>>

\* Every ValueError comes before the expression is looked at.
BudgetRefused(limits) == limits.budget \notin 1..MaxIterations
RootRefused(call) ==
  Screen(<< <<NameRefused(call.names[1]) \/ ~call.finite, "ValueError">>,
            <<call.op = "find_root_bisection" /\ LtR(call.hi, call.lo), "ValueError">>,
            <<call.op = "find_root_secant" /\ call.lo = call.hi, "ValueError">>,
            <<LeR(call.limits.tol, Zero) \/ BudgetRefused(call.limits), "ValueError">>,
            <<OperandRefused(call.classes), "TypeError">> >>)
LimitsRefused(limits) ==
  LeR(limits.tol, Zero) \/ LeR(limits.flat, Zero) \/ LeR(limits.slack, Zero) \/ BudgetRefused(limits)
PointRefused(call) ==
  Screen(<< <<LimitsRefused(call.limits) \/ NameRefused(call.names[1]) \/ ~call.finite, "ValueError">>,
            <<call.op \in RangeOps /\ LtR(call.hi, call.lo), "ValueError">>,
            <<OperandRefused(call.classes), "TypeError">> >>)

\* A root that did not converge is an error, and so is every refusal.
RootReply(found) ==
  IF found.error # "none" THEN Raised("RuntimeError")
  ELSE IF found.converged THEN Gave([root |-> found.root, iterations |-> found.iterations])
  ELSE Raised("RuntimeError")
RootFound(call, ds, x) ==
  CASE call.op = "find_root_bisection"      -> RootBisection(ds[1].term, x, call.lo, call.hi, call.limits)
    [] call.op = "find_root_newton_raphson" -> RootNewton(ds, x, call.lo, call.limits)
    [] call.op = "find_root_secant"         -> RootSecant(ds[1].term, x, call.lo, call.hi, call.limits)

FindRoot ==
  LET x == Call.names[1]
  IN  /\ Numerical /\ Call.op \in RootOps
      /\ Reply(IF RootRefused(Call) # "none" THEN Raised(RootRefused(Call))
               ELSE RootReply(RootFound(Call, Orders(session.object.term, x), x)))

Extrema(points) == [maxima |-> OfKind(points, "maximum"), minima |-> OfKind(points, "minimum")]
PartReply(op, found) ==
  IF found.error # "none" THEN Raised("RuntimeError")
  ELSE Gave(CASE op = "find_extrema"   -> Extrema(found.term)
              [] op = "classify_point" -> found.term.kind
              [] OTHER                 -> found.term)

RangeFound(call, ds, x, range) ==
  CASE call.op = "find_inflection_points" -> Inflections(ds, x, range, call.limits)
    [] call.op = "analyze_intervals"      -> AnalyzeIntervals(ds, x, range, call.limits)
    [] OTHER                              -> Stationary(ds, x, range, call.limits)

SearchRange ==
  LET x == Call.names[1]
  IN  /\ Numerical /\ Call.op \in RangeOps
      /\ Reply(IF PointRefused(Call) # "none" THEN Raised(PointRefused(Call))
               ELSE PartReply(Call.op, RangeFound(Call, Orders(session.object.term, x), x, <<Call.lo, Call.hi>>)))

ClassifyPoint ==
  LET x == Call.names[1]
  IN  /\ Numerical /\ Call.op \in PointOps
      /\ Reply(IF PointRefused(Call) # "none" THEN Raised(PointRefused(Call))
               ELSE PartReply(Call.op, AnalyzePoint(Orders(session.object.term, x), x, Call.lo, Call.limits)))

CalculusNext == AskDerivatives \/ StartDerivative \/ MachineStep \/ CollectDerivative
                \/ AnswerDerivatives \/ IntegralCall
                \/ FindRoot \/ SearchRange \/ ClassifyPoint
=============================================================================
