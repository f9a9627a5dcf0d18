# A TLA+ model of Arithma

Arithma is an exact-arithmetic and symbolic-mathematics library: a Rust crate
(`rust/arithma_core`) behind a thin Python package (`python/arithma`). This
directory holds its specification in TLA+: modules translated from the Rust
source, TLC configurations that check them on small instances, and theorems
about them that TLAPS proves for every instance. Paths below are relative to the
repository, and `S/` stands for `rust/arithma_core/src/`.

`PROJECT.json` is the index: components, runs, the source lines each definition
stands for, the hazards each property is aimed at, for every property a mutated
definition that breaks it, the disagreements between the code and its documents,
and the theorems.

## 1. Inventory

Almost all of the crate is sequential library code: a call runs on its caller's
thread, borrows its input and returns. What makes it hard is not scheduling but

* explicit stacks in place of recursion (no recursion
  over caller-supplied trees), whose bookkeeping must match the recursion they
  replace;
* arithmetic that refuses instead of rounding, so that every caller has a second
  path for "no result";
* caps (nodes, depth, digits, iterations, samples) that must stop a call without
  losing what it holds;
* heuristics over samples of a function, whose promises are easy to overstate;
* pairs of tables that must invert each other (emit and parse, prefix and unit,
  compact form and constructor);
* one piece of global mutable state, the constant registry.

| component | source | state | operations | what makes it correct |
|---|---|---|---|---|
| numeric evaluator | `S/expression/mod.rs` 625-896 | work stack, value stack, frame counter | `evaluate`, `arithma_apply_function` | the answer is the one of the recursive reading; errors of the leftmost faulty operand; the cap exact; it returns |
| simplifier | `S/expression/iterative.rs` | the caller's tree taken apart on two stacks, per-pass change flag, pass counter | `simplify`, `fold_once`, the rewrite rules, the canonical order | values kept, reports honest, tree never left in pieces, a fixpoint reached, independence of the spelling |
| exact integers | `S/integer.rs` | none of its own (sign, digits, flags, unit) | checked add, sub, mul, div, rem, pow, neg, compare, conversions | exact or refused for a reason, one spelling per result |
| constant registry | `S/constants.rs`, `S/pyfacade/constants.rs` | a global map under an `RwLock` | register, reregister, lookup with aliases, document loads, bulk registration | one winner per name, prefixes kept on failure, counts, shadowing |
| root finding | `S/numerical/root_finding.rs` | bracket, remembered values, turn counter | bisection, Newton-Raphson, secant | sign change kept, `converged` honest, best answer when unconverged |
| solver dispatch | `S/numerical/methods.rs` | bracket and iterates | `bracket_around`, `bisect`, `brent`, `solve_with_method` | same promise as root finding; no sign change overlooked |
| critical points | `S/numerical/critical_points.rs` | previous sample, roots, pieces | `scan_for_roots`, `split_intervals`, `analyze_point`, inflections | roots justified, distinct and complete as far as the samples show; pieces tile the range; kinds agree with the function |
| interval analysis | `S/numerical/interval_analysis.rs` | stacks like the evaluator's | `evaluate_interval`, one function per operator | the enclosure holds the value at every input |
| precise intervals | `S/numerical/precise_interval.rs` | operand stack, partial sums of a series, retry counter | `evaluate_precise`, directed rounding | each bracket holds the value |
| calculus | `S/calculus/` | the differentiator's two stacks | derivative, gradient, Hessian, integral | the slope of the function; frame limits; area |
| equation solver, term sums | `S/equation_solver.rs`, `S/expression/term_sum.rs` | none | fit and closed forms, scan and bisection, elimination, sums | each answer solves the equation and none is missing |
| matrix, tensor | `S/matrix.rs`, `S/tensor.rs` | none | Leibniz and cofactor expansion, eigenvalue scan, index odometer | each permutation and index once |
| units | `S/unit.rs`, `S/si_units.rs` | none | prefix splitting, dimension vectors, conversion | one reading, reversible conversions, exact or refused |
| parser, emitters | `S/parse.rs`, `S/expression/emit.rs` | cursor | text to tree and back | what is written can be read |
| fourier | `S/fourier.rs` | the facade's configuration | windowed quadrature, harmonics, evaluation | a harmonic comes back |
| geometry | `S/geometry/` | none | vectors, intersections, Bezier, splines, NURBS | the branch fits the numbers; every way to compute a curve is one curve |
| probabilities | `S/probabilities/` | a sampler's word | masses, distribution functions and their inverse, sampling, moments, intervals | the law, its inverse and its sample agree, whatever regime computes them |
| lookup tables | `S/lookup/` | none | tables | floating-point accuracy |
| external backends | `S/external/`, `S/fallback.rs` | registry of backends, counters | run, status codes, statistics | every status handled, counters consistent |
| python facade | `S/pyfacade/` | the object a call is made on | argument checks in order, the kernel, conversion of errors | the right exception, and an object untouched by a refused call |
| python package | `python/arithma/` | none | re-exports, launcher | |

How they interact: the parser and the Python facade build expressions; the
simplifier rewrites them with the exact integers; the evaluator gives them
values and is what root finding, critical points, integration, the equation
solver and the Fourier module call, through the `Evaluable` trait, as a function
from an argument to a value or an error; critical points call root finding on
every bracket; geometry, matrices and the differentiator build terms out of
terms and leave their evaluation to the evaluator; constants read their cached
values from the registry. There are no callbacks other than `Evaluable` and a
backend's handler, and no messages; only the registry is shared between threads.
Nothing is persisted.

## 2. Modules and the code they stand for

A module of the form `X` holds constants, variables, one action per step of the
code, the specification and its properties; `MCX` gives the constants finite
values; `XProofs` holds the theorems (`FoundationProofs` those of `ConstantRegistry`
and of `BigInteger`). Definitions marked "Variant for the
mutants" are deliberately wrong versions of the definition that follows them.
They are not part of any specification: they show that a property would notice.

### Evaluation, FrameStacks, Evaluator, FloatFunctions (numeric evaluator)

`Evaluation` is the promise: one step from an expression to its value, or to the
fault of its first faulty operand, or to the cap error. `FrameStacks` holds the
frames of the work stack, how an operator pushes its own and its children's, and
the lemmas about such stacks; `evaluate`, `evaluate_interval` and the simplifier's
traversal share them.
`Evaluator` is the loop
`while let Some(frame) = work.pop()` of `evaluate` (804-896), one action per arm:

| action | code |
|---|---|
| `CapExceeded` | the guard at the loop head |
| `EnterLeaf`, `EnterMissing` | Number, Constant, Variable, filled cache; their errors |
| `EnterWrapper` | empty cache, Fourier wrapper |
| `EnterUnsupported` | Sum, Limit, Product |
| `EnterOperator` | Function and Conditional push a combine frame and their children in reverse |
| `CombineFunc`, `CombineCond` | drain operands, apply, push or return the error |
| `Finish` | "invalid expression stack" check and the answer |

`Apply` (`arithma_apply_function`) is a constant of `Evaluator`;
`FloatFunctions` defines it over a grid of floats: a set of magnitudes in units of
`One`, with both signs, the infinities beyond the largest, and NaN; a result is
rounded to the nearest of them, as f64 rounds its own. There is one
function per shape of operator: n-ary folds, checked and unchecked arity,
division with its error, a domain error that yields NaN, powers with integer and
fractional exponents, an unsupported one. Bindings cannot change during a
call and are part of the expression record. `Meaning` and `Elapsed` are what each
node denotes, and how many frames are popped until each of its operands is done;
both are constants that must satisfy their recursive definitions.

### Simplifier, SimplifyRules (simplifier)

`Simplifier`: `simplify` (1656-1687) and `fold_once` (1585-1645) step by step: size
check, pass start with the stub in the caller's place, `VisitLeaf`, `VisitInner`
(detach), `Reattach` (split off, rewrite, emit), `FinishPass`, the budget. What a tree
is and what `rewrite` makes of a node are its parameters, with what they owe as named
assumptions at one node; the auxiliary `plan` has the frames of `FrameStacks` for
those of the program. `SimplifyRules` has the trees and the rules: nodes,
the refusing arithmetic the rules call, what a tree denotes (a rational, by an
independent definition), the canonical order and structural equality; one operator per
`rewrite_*` method, with the pre-checks (`would_collect_terms`,
`is_canonically_ordered`, ...) that decide whether a node is touched; and the values of
the parameters of `Simplifier` (`Kids` is `ChildrenOf`, `Fold` is `FoldTree`, ...).
`FinishPass` also ends a pass that the frame limit cuts short, with whatever is on top
of the output stack (`Cut`); `HasRoom` says which inputs that cannot happen to.
The trees (`Node`, the nodes of `FrameStacks`) are the inputs, their parts and what
repeated passes lead to.

Abstracted: function names are represented by one per rule (Sin, Cos, Ln; Min for
those `same_function` does not list; Conditional for variants without rules); the
`MAX_NODES` cap inside `structural_eq` and `compare_expressions`; interned names.

### BigInteger (exact integers)

The magnitude routines digit by digit, the signed operations over them, units and
special flags. A loop that carries something along is a recursive function of the turn,
so that it can be proved about: `Carry` (carries and borrows), `Rows` (`mag_mul`),
`Subtractions` and `LongDivision` (`mag_div_rem`), `Products` (`checked_pow`). A register
is worked on by a sequence of calls, each result the next left operand, which is
how one operation comes to read the spelling another wrote. Inputs include the
leading zeros and negative zeros that deserialisation and `set_negative` allow.
`to_f64` is left out.

### Bracketing, RootFinding (root finding)

`Bracketing` is the promise of a root finder: once open, a bracket only shrinks
and keeps its sign change; "converged" is said within tolerance, or inside a
narrow bracket. `RootFinding` models the three methods: prologue, turn, end of the
budget. Arguments are the floats of an interval, numbered; the midpoint of an odd
number of floats is rounded either way; the next point of Newton and secant is
any point (or an error), because the arithmetic that yields it is not modelled.
Products are used for their sign, and may underflow to zero where the constant
`Vanishing` says so. `debug_assert!` is absent, as in a release build. The
overflow of `b - a` for brackets wider than the largest float is left out.

### Solver (solver dispatch)

`solve_with_method` (318-408), a second implementation of `Bracketing`, with one
seed where `RootFinding` is given a bracket:

| action | code |
|---|---|
| `RejectSeed`, `StartWindow` | the check of the seed (324), the first value (97-107) |
| `ExpandLow`, `ExpandHigh` | one side of one expansion (113-128, 129-148); a side that has no value is frozen |
| `NoBracket` | both sides frozen, or the expansions used up (110, 150) |
| `BisectTurn`, `BisectEnds` | the loop of `bisect`, and `converged_or_err` after it |
| `BrentReturns`, `BrentTurn`, `BrentEnds` | the loop of `brent` with its exchange of ends |
| `StartNewton`, `NewtonTurn`, `StartSecant`, `SecantTurn`, `OpenMethodEnds` | the two loops inside `solve_with_method` |

Arguments and values are those of `RootFinding`. Beyond `Points` the function has
no value. `Reach[k]` is how far from the seed the window's ends are after k
expansions, any sequence that grows (the
comments call it doubling; the code multiplies by 1.6, from a tenth of the seed).
Where Brent's interpolation leads is any point that passes the tests at 249-254,
next to the midpoint; the choice is remembered in `halved`. Left out: seeds so large that the
window reaches infinity while the function still has a finite value there.

Two kinds of answer claim less than `Bracketing` asks, and the refinement counts
them as claiming nothing (`Unsure`): Newton and secant return a point that hardly
moved without evaluating it, as the doc of `solve_with_method` says; and `bisect`,
which stops early on an exact zero only, multiplies residuals so small that the product
can underflow, after which it follows the wrong half (`Misleading`). Brent
stops at the tolerance and is free of the second.

### CriticalPoints

`scan_for_roots` (447-534) sample by sample: first-sample failure, gap (a pole, a
domain error), near-zero hit, bracket, plain sample, the "vanishes everywhere"
rule; then `split_intervals` (538-590), one piece a step. The configuration is a
constant set of them: its one budget is both the number of samples and the turns a
bisection has. A bisection is one call, whose inside is `RootFinding`; `Bisected` is
what it answers: a point within tolerance, a point of a closed jump, or, since the
code pushes the root of any `Ok` (516-517), the last midpoint of a bracket as wide as
the budget's halvings leave it. `Duplicate` is one and a half scan steps or the numerical
tolerance, whichever is wider, as in the code (470); the comment at 212-213 promises
only that roots closer than one step may be merged.
Here the derivative is any function; what the entry points make of a given term,
classification and inflections included, is in `FacadeCalculus`.

### IntervalEvaluator (interval analysis)

`IntervalEvaluator` is `evaluate_interval` (538-638), one action per arm, as
Evaluator is for `evaluate`; what differs is translated where it differs: leaves
give enclosures, a CachedValue is entered whatever it has cached, an operator that
cannot enclose its result ends the call. The second half of `FloatFunctions` is
`apply_interval_function` over the same grid of floats, one function for
each shape (increasing with a finite or an infinite edge, decreasing, even, periodic
with its extrema, division by an interval with zero inside, the unsupported one).
`pow_interval` is there whole: an exponent within `IntegerTolerance` of an integer up
to `IntegerLimit` goes to `pow_int`, any other single exponent clips the base to where
it is defined, an exponent that varies takes four corners. Sine and cosine are triangle
waves with the extrema of the real ones, four `One` to the turn; a root that is not on
the grid is rounded. Overflow and NaN count as "no value", as the code documents.

### Rationals, PreciseInterval (precise intervals)

The code's own `Rational` and everything above it: directed rounding to a grid of
powers of two, Newton for square roots, the series of exp, ln, sin, cos and pi with
their remainders, argument reduction, and the retries at a higher working precision.
A step is a leaf, an operator or one turn of a series. Guard bits and caps are
constants, small in the runs, because a bracket is sound or not at any precision.

### Terms

What symbolic operations see of an expression, its free names, substitution, and the
reference all of them are held against: the exact value and slope of a term on dual
numbers. It follows the algebra of numbers and shares no rule with the code.
Exp, Ln, Sin, Cos of rationals other than those where they are rational are
uninterpreted: whatever rationals the constant `Elementary` gives them, so that a
rule that confuses two of them is seen.

### The library session: Calls, Facade*, the kernels, Library

A session holds an object and makes its calls in order. A call goes through the
facade's checks in their order (`Screen`), the first that fails names the
exception; then through the kernel, whose refusals become exceptions too; a refused
call leaves the object as it was. `Calls`
is that protocol, `Library` puts the families together:

| module | kernel | facade | calls |
|---|---|---|---|
| `Arrays` | `S/matrix.rs`, `S/tensor.rs` | `S/pyfacade/linalg.rs` | determinant, cofactor, adjugate, inverse, product, trace, eigenvalues; tensors: read, write, reshape, permute, product, contract |
| `FacadeCalculus` | `Calculus`: `S/calculus/`; `S/numerical/root_finding.rs`, `S/numerical/critical_points.rs` | `S/pyfacade/calculus.rs`, `S/pyfacade/numerical.rs` | derivatives of any order, gradient, the sum, product and chain helpers, integrals; roots by three methods, stationary points, extrema, inflections, one point, the report on intervals |
| `Equations` | `S/equation_solver.rs`; `S/expression/term_sum.rs` | `S/pyfacade/analysis.rs`; sums have no Python name | solving, systems; sums of named terms |
| `Fourier` | `S/fourier.rs` | `S/pyfacade/analysis.rs` | configuration, transform, evaluation |
| `FacadeCore` | itself, `Terms` | `S/pyfacade/core.rs` | building, value, LaTeX, compact form, decimal strings, variables |
| `Dimensions` | `S/unit.rs`, `S/si_units.rs` | `S/pyfacade/units.rs` | units, conversions |
| `Notation` | `S/parse.rs`, `S/expression/emit.rs` | none | emit, parse, tokenise |
| `Geometry` | `S/geometry/` over `Terms` | `S/pyfacade/geometry.rs`; Bezier and joined curves have no Python name | vectors, lines, planes, spheres, intersections; curves |
| `Statistics` | `S/probabilities/` | `S/pyfacade/stats.rs` | distributions: density, law, quantile, sample, moments; data: moments, intervals; erf, coefficients |
| `Backends` | `S/external/`, `S/fallback.rs` | none | registering and asking backends; counters |
| `PreciseInterval` | `S/numerical/precise_interval.rs` | none | `evaluate_precise` |

Only two calls take more than one step: a derivative, which runs the two-stack
machine of `differentiation_iterative.rs` frame by frame (`DiffEnter`,
`DiffCombine`, ...) once for each derivative it needs, and a precise evaluation.

* `Arrays`: a matrix has rational cells and a tensor uninterpreted ones. The code
  builds an expression for each cell; the model keeps its value, or for a tensor the
  sum of products it is. `NextPermutation` and `AdvanceOdometer` are the code's
  successor steps.
* `FacadeCalculus`: the root finders and the analysis of a function once more, now
  over exact values of terms, each call in one step: `RootFinding` and
  `CriticalPoints` have the turns. The derivatives it takes are those of the
  machine (`DerivativeRight` says that the machine leaves exactly them).
* `Equations`: coefficients by differences and their fit, the discriminant, the scan
  and its bisection, probing along the axes and elimination with pivoting, in
  exact arithmetic; equality stands for the tolerances, from which every value
  enumerated is far.
* `Fourier`: the quadrature on six panels, where cosines are rational and sines
  rational multiples of one root, so that a transform can be inverted exactly.
* `Notation`: text is a sequence of tokens; the lexer works on classes of bytes.
* `Dimensions`: exponents as vectors with their limits, magnitudes as a
  number times a power of ten, symbols as sequences of letters.
* `Geometry`: a workspace of named objects; a call stores what it makes under a
  name. The branch of an intersection is chosen on what a term is worth with nothing
  bound (`Classify`), the answer is a term. The points of a NURBS curve
  are rationals; an arc is given by the cosine and sine of half its sweep.
* `Statistics`: the three regimes of a mass (exact product, by factors, by
  logarithms) and the caps between them, the doubling and halving of the inverse, the
  generator shift by shift. The generator works on a word of four bits with three
  shifts of full period, so that a session can draw the whole stream and compare it
  with the law. erf, its tail and the bell are constants, rational functions that are
  monotone and agree at the branch; where a float may be infinite it is one above
  `LargestFloat`.
* `Backends`: a C function may return any code with anything in the buffer.
* `FacadeCore`: LaTeX as nested fragments with the precedences of its own table.

`LibraryPromises` states what a caller may rely on, each against a reference
computed another way: determinants by cofactors, tensors by sets of index tuples,
slopes by dual numbers, roots by substitution, curves by repeated interpolation,
Lagrange's parabolas and the basis over all knots, codecs by their inverse, masses
by counting subsets, quantiles by the law below and at them, samples by the share of
each value over a whole period, counters by the history of the session.

### ConstantRegistry

Threads make calls on one map. A step is one hold of the lock: `LookupSymbol`
(name, then canonical name of the alias, one read lock), `RegisterEntry` (test
and insert), `OverwriteEntry` (one entry of a load, of `reregister` or of a
replacing bulk call), `Complete` (with the Python `reregister`'s second lookup).
Parsing and validation come before the lock and appear as good, disabled and bad
entries. `grants`, `granted` and `overwritten` are auxiliary.

## 3. Runs

`CHECK_DEADLOCK FALSE` is said where the system stops: an evaluation, a search,
a scan and a session end, and the registry's threads stop after `MaxCalls`.
Simplifier and BigInteger are checked for deadlock: for the simplifier, whose end is
an explicit stuttering action, that means no call stops before it has returned.

| run | instance | properties |
|---|---|---|
| `Evaluator` | every expression of six shapes with up to 4 nodes, where an operator takes two frames and any other node one; cap 5 frames, so both sides of the cap are met; finite values up to 2, so sums overflow | `StackInv`, `CapExact` (given up exactly if more frames are needed than the cap), `ImplementsEvaluation`, `Terminates` |
| `Simplifier` | trees of up to three levels on which every rule meets every other's results; caps 14 nodes, depth 5; budget 0, or 8 cut to the ceiling 6 | `ValuePreserved`, `ReportIsHonest`, `Converges`, `SpellingsMeet`, `PassIsFold` |
| `BigInteger` | base 4, up to three digits, exponents to 3, one-digit `u32`, two-digit `i64`; every spelling of every number on the left | `ExactOrRefused`, `SpellingsAgree` |
| `ConstantRegistry` | 2 threads, 3 symbols of which one is an alias of another, 9 calls, 4 calls in all | `OneOwner`, `PrefixRegistered`, `CountExact`, `OwnNameWins`, `CallsReturn` |
| `RootFinding` | all functions from 6 points to {-3, -2, 1, 2, undefined}; tolerance 1, three turns, narrow = 1 | `BracketHolds`, `UnconvergedIsBest`, `ImplementsBracketing` |
| `Solver` | nine points; all sequences of the values -3 and 2, also with one of -1, 0 or no value in it; single steps between -3 and 2 with two tiny values of opposite signs; two expansions of 3 and 5 points, three turns | `BracketHolds`, `NothingOverlooked` ("no sign change" is true of every point sampled), `ImplementsBracketing` |
| `CriticalPoints` | derivatives on 13 points with at most four sign changes: values -2 and 2, also with one -1 or one gap in it, and values -1 and 2; tolerance 1; budgets of 6 (every second point a sample, brackets halved to the end), 2 (wide brackets that the turns do not close), 0 (one step without a turn) and 12 (every point a sample, merged by the tolerance) | `RootsJustified`, `RootsDistinct`, `NothingShownIsLost`, `PiecesTile`, `LabelsRight` |
| `Intervals` | every expression of five shapes over all functions of the grid, six input intervals, and chains of four nodes with a cap of six frames; the floats are 0, 1/8, 1/2, 1, 2, 3 with both signs, 1/8 being as near an integer as 1e-12 is and 3 past the limit of `pow_int` and of the periodic functions; exponents on every side of these limits | `ImageEnclosed` |
| `Library` | sessions described below | `ArraysRight`, `DerivativeRight`, `AntiderivativeRight`, `EquationsSolved`, `SpectrumRight`, `WritingReadsBack` (`TextReadsBack`, `CodecReadsBack`), `UnitsReadBack`, `PreciseEncloses`, `GeometryRight` (`IntersectionsRight`, `CurvesRight`), `AnalysisRight`, `StatisticsRight`, `BackendsRight` |

The type invariants of Evaluator, RootFinding, Solver, ConstantRegistry and
CriticalPoints are proved (section 4).

Why the bounds are enough: an expression of
four nodes has an operator under an operator on either side of a sibling, which
is what stack bookkeeping depends on; three levels of a tree let one rule's
result be another's operand and be collected by a third; three digits have a
bottom, a middle and a cap digit, and base 4 has a carry, an inner digit and a
maximal digit; three turns over six points let a bracket be halved until it is
narrow and also let the budget run out first; two expansions give brackets of
three and of five points, freeze a side in either, and are used up; seven samples with a point between
each hold a gap, a bracket before it and a bracket after it, roots that are merged,
and a piece long enough for its label to be owed; two threads with
four calls let a load be interrupted by a registration and a lookup, and then be
observed.

The sessions of `Library` (`MCLibrary`) are one for each family and input, many with
several calls, so that an answer is read back by the next call and a refused call is
followed by one that would notice a trace of it:

* *matrices* up to 4 by 4, regular and singular, with simple, repeated (on a sample of
  the scan and off them) and no real eigenvalues, and each shape that is refused; every
  operation;
* *tensors* of ranks 0 to 4 with unequal extents and an empty one, ranks over the
  cap; at most 24 cells;
* *derivatives* of terms that use every rule, on both sides of the cap of 13 frames;
  antiderivatives of every row of the table, of constant factors of every kind, with
  the variable in the body of a sum, product or limit, in a branch and in a wrapper;
  Simpson's rule on six panels;
* *roots and critical points* of polynomials to the fourth degree with known turns
  and bends, in the range, at its ends, between and on samples, of level and constant
  functions, over ranges of no width; of 1/x, ln, |x| and terms with a second name,
  of which only what holds for every function is asked; budgets of 1 to 8 samples or
  turns with tolerances that are met and not met; every argument that is refused. The second
  derivative is probed 1/16 to each side of a point where the code takes 1e-6;
* *equations* with zero, one, two, double and dense roots, identities and
  contradictions, poles in the window of the scan, at a point that bisection meets and
  off all of them, with a change of sign and without, systems of up to three unknowns
  that need a row exchange, are singular or inconsistent;
* *signals* of every harmonic under every window, and with a pole at a sample;
* *text*: every operator under every operator in each target, every text of up to
  three bytes (four where a number can be spelled), sentences with their meaning;
* *units*: every prefix with every unit, overlaps, roots, exponents and magnitudes at
  the limit, magnitudes that are not finite;
* *expressions*: every variant through both codecs, bindings and decimal strings;
* *geometry*: lines, planes and spheres in every relative position, closed and with
  free names which are then bound; curves of degree one to four, on, between and
  beyond their knots;
* *statistics*: distributions of up to eight trials, and one of twelve, past the cap of
  the sum; each regime of the mass, arguments between and on values, at the ends, infinite and
  not numbers; quantiles of probabilities on a plateau, just off it and out of range,
  with brackets that need doubling; samples of several seeds, one of them zero, for a
  whole period; data of up to five values and each one that is refused. The word has 4
  bits, largest float 19, cap of the sum of masses 11, tolerance 1/16;
* *backends* of both kinds, bound and not, with every status and kind of reply, one of
  them larger than the buffer; counters to their limit of 3 and past it, over a reset;
* *precise evaluations* of every operator at three precisions.

The caps that the code has in the thousands are small constants here (`Library.cfg`
names each), because the sessions sit on both sides of each of them.

Three runs, each with one property, take a sentence of the repository's own
comments at its word, and TLC finds it violated:

| run | what is said | what happens |
|---|---|---|
| `SystemLinearised` / `SystemsSolved` | a non-linear system is rejected, not linearised silently (`S/equation_solver.rs` 121-123) | linearity is probed along the axes only; `x*y + x = 2, y = 1` is answered `x = 2` |
| `SimplifierCutShort` / `OneRoot` | a completed traversal leaves exactly one root (`S/expression/iterative.rs` 1633-1637), because "the rules only ever shrink a tree" (1669) | collecting `x + x - f(y)` writes `2 * x + (-1) * f(y)`, a node more; four such levels, 17 nodes under a cap of 17, make the second pass exceed `2 * 17 + 2` frames, and one operand of the root replaces the tree |
| `PreciseIntervalLn` / `BracketsAreSound` | every bracket is sound by construction (`S/numerical/precise_interval.rs` 41-43) | the tail of the series of ln is bounded as if its ratios did not grow; ln 9 falls outside |

`EquationsSolved`, `PreciseEncloses` and the simplifier's invariants exclude exactly
these cases (a product of unknowns, logarithms far from one, `HasRoom`), and state the
rest. With the caps of the code (65536 nodes, depth 1024) the last takes a tree of tens
of thousands of nodes; the conclusion of `TwoThirdsFit` is that none of up to 43690 is
affected.

Smaller disagreements met while modelling, which no run is spent on. Each module
models what the code does.

* `evaluate` returns NaN and infinities as `Ok` (`S/expression/mod.rs` 625 says
  errors), and a unary function without operands indexes an empty slice (627).
* Numbers that cannot be combined are reported as a change on every pass
  (`S/expression/iterative.rs` 1651).
* The power rule is for constant exponents (`S/calculus/differentiation_iterative.rs`
  52-54), but any exponent is accepted, and `2^x` gets the derivative
  `x * 2^(x-1) * 0`; `DerivativeRight` leaves such exponents out.
* A narrow bracket at a jump is "converged" (`S/numerical/root_finding.rs` 20), a
  pole between two samples is a critical point (`S/numerical/critical_points.rs`
  936), and so is it a root for the equation solver: `1/(3x-1) = 0` is answered x = 1/3.
  `EquationsSolved` allows an answer next to a pole with a change of sign, and no other.
  The solver's scan also skips brackets
  next to a sample without a value and never tests its first sample for zero.
* The scan of a derivative takes the answer of a bisection that ran out of turns
  (`S/numerical/critical_points.rs` 516-517), where `|f'|` below the threshold "is
  considered stationary" (101) and the facade says of such a number that it "looks like a
  root and is not one" (`S/pyfacade/numerical.rs` 251-253): with a budget of 2, x - 0.3
  over [-1, 1] is answered 0.25. `RootsJustified` asks of such an answer only that
  it lies in the bracket the budget leaves.
* `evaluate_interval` "always contains the true image"
  (`S/numerical/interval_analysis.rs` 497), but an integer exponent beyond 1024 is taken for
  a fraction, for which negative bases are clipped away (`x^1025` at [-2, -1] has the
  empty enclosure), and an exponent within 1e-12 of 0 for 0 (the power of 0 is then
  [1, 1], its value 0). `MCIntervals` names the two (`LostByClipping`, `LostByRounding`);
  without either `FunctionAssumption` is false.
* A repeated eigenvalue "appears once" (`S/matrix.rs` 578, `S/pyfacade/linalg.rs` 563),
  but one of even multiplicity is seen only by a sample of the scan that falls on it:
  that of [[1, 1], [0, 1]] is not listed. The promise of `ArraysRight` is that it is listed
  once if a sample falls on it and not at all otherwise (`Overlooked`).
* Sums of a full-length integer, and quotients and remainders with a full-length dividend,
  are refused even where the result fits, which the docs (`S/integer.rs` 258, 462-464,
  593-607) do not say: they name the result's length, or no length at all. `MayRefuse`
  admits it.
* The report on intervals labels a piece by its midpoint even where the derivative is
  zero there: x^4 over a symmetric range is not concave up, as the second derivative
  vanishes at the midpoint and 0 is no inflection. Over a range that
  is not symmetric 1/x has an inflection next to its pole: the third derivative is
  far from zero at the bisected point. ln(x) + x has no stationary points over
  [-3, 3] but an error, for its derivative is zero at -1, where it has no value.
  A stationary point whose bisection ran out of budget is "inconclusive".
* A definite integral of 1/x over the pole is answered from the antiderivative. "A wrong
  antiderivative is far worse than an honest refusal" (`S/calculus/integration.rs` 15-17),
  but the test for constant factors looks neither into a wrapper nor into the bounds of
  a sum or the point of a limit (334-360): a cached `x` integrates to itself times x.
  `AntiderivativeRight` asks such an answer to be right with the wrapper held still, as
  the integrator reads it, and every other to be right.
* A quadratic fit is verified at one point only (2.5).
* `-2^2` is emitted for a power with a negative literal base; GLSL emits `--x`;
  infix operators of functions in MathML are never bracketed; LaTeX writes a
  power with base -2 and the negation of a power alike; the lexer panics inside a
  non-ASCII name; `1e999` is the number "inf".
* `kkg` is a unit; the facade admits unit symbols of 256 bytes and non-ASCII ones
  where the kernel asserts sixteen ASCII bytes.
* The facade's node count refuses a tree of exactly its budget
  (`S/pyfacade/geometry.rs` 80-136), and results of vector arithmetic are not
  counted again until a constructor takes them.
* A line parallel to a plane at a symbolic distance misses it, though the doc of
  `classify` says that symbolic answers are never collapsed to none
  (`S/geometry/intersection.rs` 66-70).
* `span` below the domain does not return (`S/geometry/nurbs.rs` 208-224; its callers in
  the crate clamp first); with an empty last interval it is not "the last non-empty span" (207),
  and the span term has no value there; NaN knots pass `check_shape`; a
  tessellation cuts the corners of a curve of degree one.
* `Binomial.quantile` and `sample` with more trials than the sum of masses admits raise
  RuntimeError where the doc of the class says ValueError (`S/pyfacade/stats.rs`
  389-390); a coefficient whose product overflows on the way is refused although its
  value fits (`S/probabilities/binomial.rs` 46-90).
* A C backend's BUFFER_TOO_SMALL is answered EvaluationFailed, which the registry calls fatal,
  where the comment on the buffer has the caller retry (`S/external/cpp_executor.rs` 52-53).
* A joined spline gives the end of a segment to that segment, not to the next
  (`S/geometry/curve.rs` 288-290; the values agree); `shift_variable` captures a
  coordinate named like the parameter.

### Fairness

`Evaluator` assumes weak fairness of its next-state relation: a
call runs on its caller's thread and waits for nothing, so the loop goes on while
it can. `ConstantRegistry` assumes weak fairness of every thread's steps inside a
call, not of starting one: the lock is held for one map access at a time and
no code that holds it waits for anything. The other specifications have no
fairness and no liveness property: their loops are bounded by counters that the
models keep, and a run that ends shows it.

## 4. Proofs

TLAPS checks eight modules with theorems. Constants are arbitrary, subject to the
named assumptions of the module, which TLC evaluates on every run.

**FrameStacks** -- lemmas only. A frame carries an auxiliary `below`, the nodes whose
values lie under its operands. `Chained` says that what each frame leaves on the value
stack is what the frame under it expects, `Expected` what is on it now;
`ChainPop`, `ChainReplace` and `ChainPush` say that the three things an evaluator does
to its stack of frames (finish a frame, put a child in a wrapper's place, push an
operator with its children) keep this. Most of the work is in `ChainPush`, where K
child frames replace one. `Metered` says that the turns a walk has taken and those its
frames still need add up to a total known beforehand (`MeterPop`, `MeterReplace`,
`MeterPush`). The two evaluators and the simplifier are proved from the same lemmas.

**EvaluatorProofs** -- `TypeCorrect`, `StackDiscipline`, `Refinement`, `CapIsExact`.
The property wanted, "the answer is the denotation", says nothing about a state with
frames pending, so it is strengthened. `StackInv` says: the frames are chained
(`Linked`); the value stack is what the top frame expects (`ValuesMatch`); combine
frames are operators (`FramesWellFormed`); and a pending node whose predecessors all
succeed, if it fails, fails the whole expression (`FirstFaultDecides`), which is what
makes the first error the right one. `MeaningAssumption` says that `Meaning` gives each
node what its rule makes of its operands. `Refinement` maps every step to one of
`Evaluation` or a stutter. For `CapIsExact` the invariant `CountInv` splits the frames
the root needs over the pending frames: what is still to be popped above frame i, for
every i, adds up to the total (`ElapsedAssumption` gives the partial sums at each node).
(this is `Metered` of FrameStacks). So an answer means that the total was popped and within the cap, and a refusal
that one more frame than the cap was needed.

**IntervalEvaluatorProofs** -- `IntervalTypes`, `Enclosure`. `CoverInv`: at every point of
the box, each interval on the value stack holds the value there of the node it stands
for. `FunctionAssumption` says that the interval function of an operator holds the
operator's value at all operands held, over the calls the expressions make;
`UnionAssumption` the same of the hull of two branches; `PointAssumption` that a point is
a valuation, in which a cache is worth what it wraps. These are statements about one
operator, and TLC evaluates them for the functions of `FloatFunctions`, every branch of
`pow_interval` among them; the theorem
lifts them to expressions of any size. The two powers that the code loses (section 3) have
no value in the valuations of `MCIntervals`, so that nothing is claimed of an expression
where an operand is one of them.

**SimplifierProofs** -- `TypeCorrect`, `TraversalIsFold`, `ValueIsPreserved`,
`ReportsAreHonest`, `TwoThirdsFit`. `Fold` is the recursive pass, given by what it makes of a node in
terms of its children (`FoldAssumption`). `FoldingInv`: the work stack is the `plan`,
frame by frame (`Matched`); the plan is chained; the output stack holds the foldings of
exactly the trees the plan expects there, and the change flag is raised if there was a
change in one of them (`Holds`); and the turns are metered. Splitting off `arity`
trees is therefore splitting off the node's own children, and an empty work stack means
one folded tree. What is assumed of the rules is said of one node whose children are
done: `HonestAssumption`, `ValueAssumption`, `WeightAssumption`; TLC evaluates the three
for the rules of `SimplifyRules` on each of the more than 5000 trees its runs meet. Lifting them to
whole trees is induction on the number of turns of a tree (`TreeInduction`, by the
least counterexample). The weight says which passes are cut short: collecting
`x + x + y + y` into `2 * x + 2 * y` adds nodes after the caps were checked, so
"at most `MAX_NODES` nodes" is not inductive over passes. `Weight` counts two turns a
node, but a number times a base, or a base to a power, no more than the two operands it
replaces, and a negation as the product that collecting may make of it. No rule raises
it and it bounds the turns of a pass, so an input whose weight is within `FrameLimit`
(`HasRoom`) is never cut short (`NeverCut`, from the meter: a pending frame is a turn to
come). Weight is at most three for a node, which gives `TwoThirdsFit`. Without `HasRoom`
the conclusion is false, as the run `SimplifierCutShort` shows, and of a pass that is cut
short nothing but the types is claimed.

**RootFindingProofs** -- `TypeCorrect`, `BracketNeverLost`, `BestEstimate`,
`Refinement`. `BracketHolds` is inductive together with the types only because
`fa` is the value at the lower end. `ToleranceAssumption` says that the product
of two values past the tolerance does not underflow. It is used where the code
decides by a product's sign, and with a tolerance below about 1e-162 the code
would not satisfy it. `SecantRemembers`, `NewtonStands` and
`Undecided` are needed for the refinement: what the other methods are judged by.

**SolverProofs** -- `TypeCorrect`, `BracketNeverLost`, `NoneOverlooked`, `Refinement`. The
invariant adds to `BracketHolds` that a call begins at its seed (`StartHolds`), that the
growing window is ordered and remembers the values at its ends (`WindowHolds`),
and that a loop has values at its points (`LoopHolds`). For Brent the argument is
that its worse end is past the tolerance whenever it takes a turn
(`BothOutside`, from |fb| <= |fa|), so that the product that decides which end to
replace does not underflow unless the new point is within tolerance, and then the
exchange makes it the answer (`OnRoot`). `StaysBetween` shows that no accepted
interpolation leaves the bracket. The same `ToleranceAssumption` is used.
For `NoneOverlooked` the invariant (`SearchInv`) follows both ends of the window: each is
at the reach of the last expansion at which its side was alive, a frozen side
has no value one expansion further, and all samples so far have the sign of the seed
(`SampledHolds`), so that a window that gives up has looked at every visible sample.

**FoundationProofs**, the registry -- `TypeCorrect`, `SingleOwner`, `NothingVanishes`,
`CountsAreExact`, `Shadowing`. The invariant adds `LookupAtFirst` (a running lookup is at
its only entry) to `OneOwner` and `PrefixRegistered`; the key lemma is that no step
removes a symbol. `CountsAreExact` rests on the running count being the number of good
entries before the one a call is at, whoever holds the lock in between. For any number
of threads, symbols and calls.

**FoundationProofs**, the integers -- `IntegersExact`, `OneSpellingEach`: for any base,
caps, numbers and operands. The invariant (`IntegerInv`) is only that the register holds
a number and that the last call returned what the code computes; the work is in the
algorithms. Each loop is shown to have a value at every turn (`Recursion`), and then its
loop invariant:

* carries: the digits done, plus the carry at the weight of the next position, are what
  has fallen to them (`CarriedSum`), so that a sum below the weight of its buffer leaves
  no carry (`CarriedExact`). This is what `debug_assert_eq!(carry, 0)` in `mag_mul` and
  `debug_assert_eq!(borrow, 0)` in `mag_sub` claim, for every operand;
* comparison: more significant digits are more (`LongerIsMore`), and as many are ordered
  by the top difference (`CmpDigitsRule`);
* product: after i rows the buffer holds the lowest i digits of one factor times the
  other (`RowsValue`);
* quotient: quotient times divisor plus remainder is the digits brought down
  (`LongDivisionValue`), with the remainder below the divisor, so that a trial digit is
  never the base (`SubtractionsValue`): `debug_assert!(digit < 256)`;
* power: after n products the value is exact and takes at most n times the digits, or n
  times the digits reach the cap (`Raised`).

`MagCmpRule`, `MagAddRule`, `MagSubRule`, `MagMulRule` and `MagDivRemRule` say what the
routines return, `AddRule` to `PowRule` what the signed operations do, `CheckedKept` what
each call does. Assumed: a base above one, an i64 of at least one digit and no more than
the cap, and a largest exponent that fits the digits of a `u32`.

**CriticalPointsProofs** -- `TypeCorrect`, `RootsHaveGrounds`, `NoRootTwice`,
`NoneLost`, `PiecesTileRange`, `LabelsAreRight`. The invariant: the remembered sample is
the one just before (`PrevIsLast`), which keeps brackets off gaps; roots are pairwise
more than the merging distance apart; the cuts and the pieces made so far are in order
(`CutOrder`, `Apiece`, `Disjoint`) and cover what lies left of the current cut
(`Covered`); everything shown by the samples scanned so far has its root, and a root
merged into another is within the merging distance of it. `LabelsAreRight` then argues
that a derivative whose sign at x is against the label changes sign between x and the
midpoint, that the first such change is seen by two neighbouring samples (induction
along the grid, by the least counterexample: lemma `LeastNumber`), that they
cannot both be evaluated without leaving a root, and that this root is inside the piece,
where there is none. Attempting this proof corrected the property: merged roots hide sign changes up to
two and a half steps into a piece, which four steps of scan were too few to show, and
nothing is owed of a function that is near zero at every sample. `RootsHaveGrounds` covers
what a bisection answers when its turns are used up: that point lies in a bracket with a
sign change, as narrow as the budget's halvings leave it (`Narrowed`). For any grid, any
derivative, and any configuration: budget, threshold and tolerance.

Only model-checked: liveness (`Terminates`, `CallsReturn`), which needs ENABLED;
`Converges` and `SpellingsMeet`, which are about what the rules make of whole trees,
by recursive operators over trees; Library, whose modules use recursive operators and
folds over terms and permutations, which no prover here expands;
and that particular constants (`Meaning`, `Elapsed`, the interval functions, the
rewrite rules, their weight) satisfy their assumptions, which TLC does on each instance.

## 5. Not modelled

* Floating point beyond sign, order and finiteness: rounding, accuracy, special
  functions. Values in the Library modules are exact rationals.
* `to_f64` and `from_binary_rational`; the LaTeX and MathML targets of
  `S/expression/emit.rs` and cube roots in shaders; case-insensitive function names.
* `rms_error`, the Gaussian window, more than two decimals of the Blackman-Harris
  coefficients, and the default configuration of 1024 samples of fourier.
* The final assertion of the facade's `simplify` (`S/pyfacade/core.rs` 950-970),
  `solve_with_method` and the interval class of its
  numerical module (their kernels are `Solver` and `FloatFunctions`), every `__repr__`.
* The series and continued fraction of erf, the log-gamma function, the accuracy of
  the normal quantile; lookup tables, which hold constants.
* A router of backends: the repository holds the backends and their registry and no
  code that tries them in turn. `try_fallback`, `config.rs` and `sdk.rs` are stubs.
* The length a NURBS tangent is divided by, and square roots that are not rational.
* Wording of errors, formatting, serialisation, telemetry.

## 6. Plan

Done, in order of importance: evaluator with proofs; simplifier; root finding
with proofs; registry and integers with proofs; critical points with proofs; solver
dispatch with proofs; the interval evaluator; precise intervals; and the callable
surface as sessions of calls: matrices and tensors, calculus, equations, fourier,
text, units, codecs, geometry, roots and critical points, statistics, backends.

Proved: every safety property of the evaluators, the root finders, the solver
dispatch, the registry, the exact integers and the critical points, both refinements,
and the simplifier's traversal. Left: the frames of `Calculus`, whose machine has the shape of `FrameStacks`; the series
bracket of `PreciseInterval` from a bound on the ratio of its terms; and that the rules of
`SimplifyRules` keep the assumptions of `Simplifier` one by one, for trees of any shape.
