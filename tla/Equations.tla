----------------------------- MODULE Equations -----------------------------
(***************************************************************************)
(* The equation solver (equation_solver.rs) as Python calls it              *)
(* (pyfacade/analysis.rs), and sums of terms with named coefficients       *)
(* (expression/term_sum.rs).  Samples are exact: the values enumerated are *)
(* far from every tolerance, so "within COEFF_EPSILON" or "within 1e-6" is *)
(* equality here.                                                          *)
(***************************************************************************)
EXTENDS Terms, Calls

CONSTANTS SearchSpan,          \* NUMERIC_SEARCH_SPAN
          SearchSteps,         \* NUMERIC_SCAN_STEPS
          MaxSystem,           \* MAX_SYSTEM_SIZE
          MaxBranches,         \* MAX_SOLUTION_BRANCHES
          SearchHalvings       \* halvings of a bracket before it is narrow

ASSUME EquationsAssumption ==
  SearchSpan \in Nat \ {0} /\ SearchSteps \in Nat \ {0} /\ SearchHalvings \in Nat

Solved(S)   == [error |-> "none", branches |-> S]
Unsolved(e) == [error |-> e]
Real(r)     == [real |-> TRUE, re |-> r, im2 |-> Zero]       \* im2: the square of im
NonReal(p, q) == [real |-> FALSE, re |-> p, im2 |-> q]

At(t, x, r) == ValueAt(t, [v \in {x} |-> r])

\* The quadratic through the samples at 0, 1 and -1, tried at 5/2.
FitThrough(f0, f1, fm) ==
  [c |-> f0, a |-> SubR(DivR(AddR(f1, fm), Two), f0), b |-> DivR(SubR(f1, fm), Two)]
QuadraticFit(t, x) ==
  FitThrough(At(t, x, Zero).v, At(t, x, One).v, At(t, x, Int2Rat(-1)).v)

ValueOfFit(f, r) == AddR(MulR(AddR(MulR(f.a, r), f.b), r), f.c)
Probe == Rat(5, 2)

FitHolds(t, x, f) ==
  /\ \A r \in {Zero, One, Int2Rat(-1), Probe} : At(t, x, r).ok
  /\ At(t, x, Probe).v = ValueOfFit(f, Probe)

Discriminant(f) == SubR(MulR(f.b, f.b), MulR(Int2Rat(4), MulR(f.a, f.c)))

\* The stable pair: one root from q / a, the other from c / q.
StableQ(f, sq) == DivR(NegR(IF LtR(f.b, Zero) THEN SubR(f.b, sq) ELSE AddR(f.b, sq)), Two)
RealPair(f, q) == IF q = Zero THEN {Real(Zero)} ELSE {Real(DivR(q, f.a)), Real(DivR(f.c, q))}
QuadraticRoots(f, disc) ==
  IF LtR(disc, Zero)
  THEN {NonReal(DivR(NegR(f.b), MulR(Two, f.a)),
                DivR(NegR(disc), MulR(Int2Rat(4), MulR(f.a, f.a))))}
  ELSE RealPair(f, StableQ(f, SquareRoot(disc)))

RootsOfFit(f) ==
  IF f.a # Zero THEN Solved(QuadraticRoots(f, Discriminant(f)))
  ELSE IF f.b # Zero THEN Solved({Real(DivR(NegR(f.c), f.b))})
  ELSE IF f.c = Zero THEN Unsolved("identity")
  ELSE Solved({})

ClosedForm(t, x, f) == IF FitHolds(t, x, f) THEN RootsOfFit(f) ELSE Unsolved("no closed form")
SolveAlgebraic(t, x) == ClosedForm(t, x, QuadraticFit(t, x))

-----------------------------------------------------------------------------
(* The scan for sign changes over [-SearchSpan, SearchSpan]. *)

SearchStep == Rat(2 * SearchSpan, SearchSteps)
SearchPoint(i) == AddR(Int2Rat(-SearchSpan), MulR(SearchStep, Int2Rat(i)))

\* A sample outside the domain ends the bisection with an error.
Halved(t, x, ab, mid, y) ==
  IF ~y.ok THEN <<>> ELSE HalfKept(ab, mid, y.v[1], At(t, x, ab[1]).v[1])
BisectedSolution(t, x, a, b) ==
  LET Halve(ab, k) ==
        IF ab = <<>> \/ ab[1] = ab[2] THEN ab
        ELSE Halved(t, x, ab, Middle(ab), At(t, x, Middle(ab)))
  IN  FoldLeft(Halve, <<a, b>>, [k \in 1..SearchHalvings |-> k])

\* Recorded unless it is within one step of a recorded one.
PushSolution(found, r) ==
  IF \E s \in found : LeR(AbsR(SubR(s, r)), SearchStep) THEN found ELSE found \cup {r}

PushBisected(found, bracket) ==
  IF bracket = <<>> THEN found ELSE PushSolution(found, Middle(bracket))

\* ys[i] is the sample at SearchPoint(i).
SignChanges(t, x, ys) ==
  LET Visit(found, i) ==
        IF ~ys[i - 1].ok \/ ~ys[i].ok THEN found
        ELSE IF ys[i].v = Zero THEN PushSolution(found, SearchPoint(i))
        ELSE IF ys[i - 1].v[1] * ys[i].v[1] < 0
        THEN PushBisected(found, BisectedSolution(t, x, SearchPoint(i - 1), SearchPoint(i)))
        ELSE found
  IN  FoldLeft(Visit, {}, [i \in 1..SearchSteps |-> i])

SolveNumeric(t, x) ==
  Solved({Real(r) : r \in SignChanges(t, x, [i \in 0..SearchSteps |-> At(t, x, SearchPoint(i))])})

\* "algebraic" is refused when no closed form applies; the others fall back.
OrSearched(t, x, strategy, closed) ==
  IF strategy = "numeric" \/ (strategy # "algebraic" /\ closed.error = "no closed form")
  THEN SolveNumeric(t, x)
  ELSE closed
SolveFor(t, x, strategy) == OrSearched(t, x, strategy, SolveAlgebraic(t, x))

\* solve_equation solves the difference of the two sides.
Difference(lhs, rhs) == Sub(lhs, rhs)

-----------------------------------------------------------------------------
(* Systems: a coefficient row per equation, then Gaussian elimination. *)

\* The point with `r` on axis j and 0 on the others.
OnAxis(vars, j, r) == [v \in Range(vars) |-> IF v = vars[j] THEN r ELSE Zero]

\* Equation f is affine along axis j when 1 to 2 repeats 0 to 1.
Slope(f, vars, j) ==
  SubR(ValueAt(f, OnAxis(vars, j, One)).v, ValueAt(f, OnAxis(vars, j, Zero)).v)
Affine(f, vars, j) ==
  SubR(ValueAt(f, OnAxis(vars, j, Two)).v, ValueAt(f, OnAxis(vars, j, One)).v)
  = Slope(f, vars, j)
Sampled(f, vars) ==
  \A j \in DOMAIN vars, r \in {Zero, One, Two} : ValueAt(f, OnAxis(vars, j, r)).ok

Row(f, vars) ==
  [c \in 1..(Len(vars) + 1) |->
     IF c <= Len(vars) THEN Slope(f, vars, c)
     ELSE NegR(ValueAt(f, OnAxis(vars, 1, Zero)).v)]

\* Variant for the mutants: the diagonal is always the pivot.
DiagonalPivot(m, col) == col

\* The first row at or below `col` with the largest magnitude in that column.
PivotRow(m, col) ==
  CHOOSE r \in col..Len(m) :
    /\ \A s \in col..Len(m) : LeR(AbsR(m[s][col]), AbsR(m[r][col]))
    /\ \A s \in col..(r - 1) : LtR(AbsR(m[s][col]), AbsR(m[r][col]))

SwapRows(m, r, s) == [m EXCEPT ![r] = m[s], ![s] = m[r]]

\* Rows below the pivot lose their entry in its column.
Eliminate(m, col) ==
  [r \in DOMAIN m |->
     IF r <= col THEN m[r]
     ELSE LET factor == DivR(m[r][col], m[col][col])
          IN  [c \in DOMAIN m[r] |->
                 IF c < col THEN m[r][c]
                 ELSE SubR(m[r][c], MulR(factor, m[col][c]))]]

\* A column without a pivot ends it: the system is singular.
Triangular(rows) ==
  LET Column(m, col) ==
        IF m = <<>> THEN m
        ELSE IF m[PivotRow(m, col)][col] = Zero THEN <<>>
        ELSE Eliminate(SwapRows(m, col, PivotRow(m, col)), col)
  IN  FoldLeft(Column, rows, [c \in DOMAIN rows |-> c])

BackSubstitute(m) ==
  LET n == Len(m)
      Solve(xs, k) ==              \* unknown n + 1 - k, those after it known
        LET i == n + 1 - k
            known == FoldLeft(LAMBDA s, j : AddR(s, MulR(m[i][i + j], xs[j])),
                              Zero, [j \in 1..(n - i) |-> j])
        IN  <<DivR(SubR(m[i][n + 1], known), m[i][i])>> \o xs
  IN  FoldLeft(Solve, <<>>, [k \in 1..n |-> k])

SolveSystem(equations, vars) ==
  LET fs == [i \in DOMAIN equations |-> Difference(equations[i][1], equations[i][2])]
      m == Triangular([i \in DOMAIN fs |-> Row(fs[i], vars)])
  IN  IF vars = <<>> \/ Len(equations) # Len(vars) THEN Unsolved("shape")
      ELSE IF \E i \in DOMAIN fs : ~Sampled(fs[i], vars) THEN Unsolved("sample")
      ELSE IF \E i \in DOMAIN fs, j \in DOMAIN vars : ~Affine(fs[i], vars, j)
           THEN Unsolved("not linear")
      ELSE IF m = <<>> THEN Unsolved("singular")
      ELSE Solved(BackSubstitute(m))

-----------------------------------------------------------------------------
(* Sums of terms: pairs <<coefficient, term>>. *)

CoefficientNames(pairs) == {pairs[k][1] : k \in DOMAIN pairs}
InputNames(pairs) == UNION {FreeSymbols(pairs[k][2]) : k \in DOMAIN pairs}

TermSum(pairs) ==
  IF Cardinality(CoefficientNames(pairs)) # Len(pairs) THEN Unsolved("repeated")
  ELSE IF InputNames(pairs) \cap CoefficientNames(pairs) # {} THEN Unsolved("shadowed")
  ELSE Solved(pairs)

PowerTerm(x, k) == IF k = 0 THEN Lit(1) ELSE IF k = 1 THEN Var(x) ELSE Pow(Var(x), Lit(k))
Polynomial(x, names) ==
  TermSum([k \in DOMAIN names |-> <<names[k], PowerTerm(x, k - 1)>>])

ToExpression(pairs) ==
  LET products == [k \in DOMAIN pairs |-> Mul(Var(pairs[k][1]), pairs[k][2])]
  IN  IF pairs = <<>> THEN Lit(0) ELSE FoldLeft(Add, products[1], Tail(products))

\* The coefficients are merged over the inputs, and win where both bind a name.
EvaluateSum(pairs, inputs, coefficients) ==
  LET merged == [v \in DOMAIN inputs \cup DOMAIN coefficients |->
                   IF v \in DOMAIN coefficients THEN coefficients[v] ELSE inputs[v]]
      value == ValueAt(ToExpression(pairs), merged)
  IN  IF ~(CoefficientNames(pairs) \subseteq DOMAIN coefficients) THEN Unsolved("unbound")
      ELSE IF ~value.ok THEN Unsolved("evaluation")
      ELSE Solved(value.v)
-----------------------------------------------------------------------------
(* Solving as Python calls it (pyfacade/analysis.rs). *)

Strategies == {"auto", "algebraic", "numeric", "hybrid"}

SystemSizeRefused(n) == n > SequenceCap \/ n > MaxSystem \/ n = 0

\* A Solution carries a cached real value exactly when it is real.
Solution(b) == [is_real |-> b.real, expression |-> b, cached |-> IF b.real THEN b.re ELSE "None"]

WrapSolutions(branches) ==
  IF Cardinality(branches) > MaxBranches THEN Raised("RuntimeError")
  ELSE Gave({Solution(b) : b \in branches})

SolveRefused(call) ==
  Screen(<< <<NameRefused(call.names[1]), "ValueError">>,
            <<EnumRefused(call.strategy, Strategies), "ValueError">>,
            <<OperandRefused(call.classes), "TypeError">> >>)

Posed(call) == IF call.op = "solve" THEN call.lhs ELSE Difference(call.lhs, call.rhs)
SolutionReply(found) ==
  IF found.error # "none" THEN Raised("ValueError") ELSE WrapSolutions(found.branches)

SolveCall ==
  LET why == SolveRefused(Call)
  IN  /\ Calling("analysis") /\ Call.op \in {"solve", "solve_equation"}
      /\ Reply(IF why # "none" THEN Raised(why)
               ELSE SolutionReply(SolveFor(Posed(Call), Call.names[1], Spellings[Call.strategy])))
      /\ UNCHANGED held

\* The strategy is read, and a system is solved the same way whichever it is.
SystemRefused(call) ==
  Screen(<< <<EnumRefused(call.strategy, Strategies), "ValueError">>,
            <<"str" \in call.listAs, "TypeError">>,
            <<SystemSizeRefused(Len(call.equations)), "ValueError">>,
            <<OperandRefused(call.classes), "TypeError">>,
            <<SystemSizeRefused(Len(call.names)), "ValueError">>,
            <<\E k \in DOMAIN call.names : NameRefused(call.names[k]), "ValueError">>,
            <<Len(call.equations) # Len(call.names), "ValueError">> >>)

OneBranch(found) ==
  IF found.error # "none" THEN Raised("ValueError") ELSE Gave(<<found.branches>>)
SystemCall ==
  LET why == SystemRefused(Call)
  IN  /\ Calling("analysis") /\ Call.op = "solve_system"
      /\ Reply(IF why # "none" THEN Raised(why)
               ELSE OneBranch(SolveSystem(Call.equations, Call.names)))
      /\ UNCHANGED held

EquationsNext == SolveCall \/ SystemCall
=============================================================================
