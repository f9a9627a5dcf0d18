--------------------------- MODULE LibraryPromises ---------------------------
(***************************************************************************)
(* What a caller of the library may rely on, each promise against a         *)
(* reference computed another way: cofactor expansion for determinants,    *)
(* sets of index tuples for tensors, dual numbers for derivatives, inverse *)
(* directions for everything that is written and read back.                *)
(***************************************************************************)
EXTENDS Library

\* The last call made and its reply.
Made == session.calls[Len(answers)]
Got  == answers[Len(answers)]
Answered(kind) == answers # <<>> /\ Made.kind = kind
Fine  == Got.raised = "none"
Value == Got.value

Sgn(r) == IF r = Zero THEN 0 ELSE IF LtR(Zero, r) THEN 1 ELSE -1

-----------------------------------------------------------------------------
(* Matrices: expansion along the first row, without a permutation in sight. *)

Without(M, i, j) ==
  LET kept == SelectSeq([n \in DOMAIN M.cells |-> n],
                        LAMBDA n : (n - 1) \div M.cols # i /\ (n - 1) % M.cols # j)
  IN  Matrix(M.rows - 1, M.cols - 1, [k \in DOMAIN kept |-> M.cells[kept[k]]])

RECURSIVE Laplace(_)
Laplace(M) ==
  IF M.rows = 0 THEN One
  ELSE SumOf([j \in 1..M.cols |->
         LET share == IF Cell(M, 0, j - 1) = Zero THEN Zero
                      ELSE MulR(Cell(M, 0, j - 1), Laplace(Without(M, 0, j - 1)))
         IN  IF j % 2 = 1 THEN share ELSE NegR(share)])

Cells(M) == (0..(M.rows - 1)) \X (0..(M.cols - 1))
At2(M, ij) == M.cells[ij[1] * M.cols + ij[2] + 1]
DotOf(A, B, ij) == SumOf([k \in 1..A.cols |-> MulR(At2(A, <<ij[1], k - 1>>), At2(B, <<k - 1, ij[2]>>))])
IsProduct(C, A, B) ==
  C.rows = A.rows /\ C.cols = B.cols /\ \A ij \in Cells(C) : At2(C, ij) = DotOf(A, B, ij)
Scalar(n, s) == Matrix(n, n, [k \in 1..(n * n) |-> IF (k - 1) \div n = (k - 1) % n THEN s ELSE Zero])
Shifted(M, x) == [M EXCEPT !.cells = [k \in DOMAIN M.cells |->
                    IF (k - 1) \div M.cols = (k - 1) % M.cols THEN SubR(M.cells[k], x) ELSE M.cells[k]]]

ScanWidth(M) == DivR(ScanStep(M), Int2Rat(2 ^ ScanHalvings))

\* matrix.rs:578-580 and pyfacade/linalg.rs:563 say that a repeated eigenvalue appears
\* once.  One of even multiplicity changes no sign: it is seen by a sample that falls
\* on it, and otherwise not at all.
Overlooked(M, s) == s[2] % 2 = 0 /\ \A i \in 0..ScanSteps : ScanPoint(M, i) # s[1]

\* call.spectrum: the real eigenvalues, each with its multiplicity.  Nothing else is
\* listed; of those a step or more from the others, each that is not overlooked is
\* listed once.
SpectrumFound(M, spectrum, roots) ==
  LET Near(r, s, w) == LeR(AbsR(SubR(r, s)), w)
      values == {s[1] : s \in spectrum}
      Apart(s) == \A v \in values : v # s[1] => ~Near(v, s[1], ScanStep(M))
      Listed(s) == {r \in roots : Near(r, s[1], ScanWidth(M))}
  IN  /\ \A r \in roots : \E s \in spectrum : r \in Listed(s)
      /\ \A s \in spectrum :
           Apart(s) => Cardinality(Listed(s)) = IF Overlooked(M, s) THEN 0 ELSE 1

MatrixPromise(M, call) ==
  CASE call.op \in {"new", "from_rows"} ->
         \A ij \in Cells(Value) : At2(Value, ij) = call.lists[ij[1] + 1].values[ij[2] + 1]
    [] call.op = "identity"    -> Value = Scalar(call.rows, One)
    [] call.op = "zeros"       -> \A ij \in Cells(Value) : At2(Value, ij) = Zero
    [] call.op = "get"         -> Value = At2(M, <<call.row, call.col>>)
    [] call.op = "row"         -> \A j \in 1..M.cols : Value[j] = At2(M, <<call.row, j - 1>>)
    [] call.op = "to_rows"     -> FlattenSeq(Value) = M.cells
    [] call.op = "shape"       -> Value = <<M.rows, M.cols, M.rows = M.cols>>
    [] call.op = "transpose"   -> /\ Value.rows = M.cols /\ Value.cols = M.rows
                                  /\ \A ij \in Cells(M) : At2(Value, <<ij[2], ij[1]>>) = At2(M, ij)
    [] call.op = "add"         -> \A ij \in Cells(M) : SubR(At2(Value, ij), At2(M, ij)) = At2(call.other, ij)
    [] call.op = "sub"         -> \A ij \in Cells(M) : AddR(At2(Value, ij), At2(call.other, ij)) = At2(M, ij)
    [] call.op = "scalar_mul"  -> IsProduct(Value, Scalar(M.rows, call.by), M)
    [] call.op = "matmul"      -> /\ IsProduct(Value, M, call.other)
                                  /\ Value.rows = M.cols /\ M.rows = M.cols =>
                                       Laplace(Value) = MulR(Laplace(M), Laplace(call.other))
    [] call.op = "trace"       -> M.rows = 2 => Laplace(Shifted(M, One)) = AddR(SubR(One, Value), Laplace(M))
    [] call.op = "determinant" -> Value = Laplace(M)
    [] call.op = "minor"       -> Value = Without(M, call.row, call.col)
    [] call.op = "cofactor"    -> Laplace(Without(M, call.row, call.col)) =
                                    (IF (call.row + call.col) % 2 = 0 THEN Value ELSE NegR(Value))
    [] call.op = "adjugate"    -> IsProduct(Scalar(M.rows, Laplace(M)), M, Value)
    [] call.op = "inverse"     -> IsProduct(Scalar(M.rows, One), M, Value)
    [] call.op = "char_poly"   -> \A x \in call.points : Value[x] = Laplace(Shifted(M, x))
    [] call.op = "eigenvalues" -> SpectrumFound(M, call.spectrum, Value)

\* What may be refused: what has no answer, or is over a cap.
MatrixRefusable(M, call) ==
  LET square == M.rows = M.cols
      outside == call.row \notin 0..(M.rows - 1) \/ (call.op # "row" /\ call.col \notin 0..(M.cols - 1))
  IN  CASE call.op \in {"new", "from_rows", "zeros", "identity"} -> call.bad
        [] call.op \in {"get", "row"}    -> outside /\ Got.raised = "IndexError"
        [] call.op \in {"add", "sub"}    -> M.rows # call.other.rows \/ M.cols # call.other.cols
        [] call.op = "matmul"            -> M.cols # call.other.rows
        [] call.op = "trace"             -> ~square
        [] call.op = "minor"             -> ~square \/ outside
        [] call.op = "cofactor"          -> ~square \/ outside \/ M.rows > MaxOrder + 1
        [] call.op = "adjugate"          -> ~square \/ M.rows > MaxOrder + 1
        [] call.op = "inverse"           -> ~square \/ M.rows > MaxOrder \/ Laplace(M) = Zero
        [] call.op \in {"determinant", "char_poly", "eigenvalues"} -> ~square \/ M.rows > MaxOrder
        [] OTHER                         -> FALSE

\* Every answer about a matrix is the exact one -- the permutations of the
\* expansion are each met once with the right sign, an inverse inverts, the scan
\* finds what it can tell apart -- and only what has none is refused
\* (matrix.rs:356-791).
MatricesExact ==
  Answered("matrix") =>
    IF Fine THEN ~Made.bad /\ MatrixPromise(session.object, Made)
    ELSE MatrixRefusable(session.object, Made)

-----------------------------------------------------------------------------
(* Tensors: a cell stands where as many index tuples precede its own. *)

Indices(shape) == {ix \in [DOMAIN shape -> 0..4] : \A k \in DOMAIN shape : ix[k] < shape[k]}
Precedes(ix, jx) == \E k \in DOMAIN ix : ix[k] < jx[k] /\ \A l \in 1..(k - 1) : ix[l] = jx[l]
Place(shape, ix) == 1 + Cardinality({jx \in Indices(shape) : Precedes(jx, ix)})
Entry(t, ix) == t.cells[Place(t.shape, ix)]
Writable(t, ix) == ix \in Indices(t.shape)

\* Where an axis that is not used goes among those that are left.
Slot(axis, used) == 1 + Cardinality({c \in 0..(axis - 1) : c \notin Range(used)})
Follows(ox, shift, ix, used) ==
  \A k \in DOMAIN ix : k - 1 \notin Range(used) => ix[k] = ox[shift + Slot(k - 1, used)]

TermsOf(a, b, axesA, axesB, ox) ==
  LET left == Len(a.shape) - Len(axesA)
  IN  {<<Entry(a, ix), Entry(b, jx)>> :
         <<ix, jx>> \in {p \in Indices(a.shape) \X Indices(b.shape) :
                          /\ Follows(ox, 0, p[1], axesA) /\ Follows(ox, left, p[2], axesB)
                          /\ \A k \in DOMAIN axesA : p[1][axesA[k] + 1] = p[2][axesB[k] + 1]}}
\* A cell is the sum of exactly the terms it owes, each of them once.
SumsExactly(cell, owed) == Range(cell) = owed /\ Len(cell) = Cardinality(owed)

TensorPromise(t, call) ==
  CASE call.op \in {"new_tensor", "zeros_tensor"} ->
         Value.shape = call.shape /\ Len(Value.cells) = Cardinality(Indices(call.shape))
    [] call.op = "cell_count" -> Value = Cardinality(Indices(call.shape))
    [] call.op = "get_at"     -> Value = Entry(t, call.index)
    [] call.op = "cell"       -> \E ix \in Indices(t.shape) :
                                   Place(t.shape, ix) = call.flat + 1 /\ Value = Entry(t, ix)
    [] call.op = "strides"    -> \A ix \in Indices(t.shape), k \in DOMAIN t.shape :
                                   ix[k] + 1 < t.shape[k] =>
                                     Place(t.shape, [ix EXCEPT ![k] = @ + 1]) = Place(t.shape, ix) + Value[k]
    [] call.op = "reshape"    -> Value.shape = call.axes /\ Value.cells = t.cells
    [] call.op = "permute"    ->
         /\ Value.shape = [k \in DOMAIN t.shape |-> t.shape[call.axes[k] + 1]]
         /\ \A ix \in Indices(t.shape) :
              Entry(Value, [k \in DOMAIN ix |-> ix[call.axes[k] + 1]]) = Entry(t, ix)
    [] call.op = "hadamard"   ->
         \A ix \in Indices(t.shape) : Entry(Value, ix) = <<Entry(t, ix), Entry(call.other, ix)>>
    [] call.op = "contract"   ->
         \A ox \in Indices(Value.shape) :
           SumsExactly(Entry(Value, ox),
                       {Entry(t, ix) : ix \in {i \in Indices(t.shape) :
                          Follows(ox, 0, i, call.axes) /\ i[call.axes[1] + 1] = i[call.axes[2] + 1]}})
    [] call.op \in {"tensordot", "outer"} ->
         \A ox \in Indices(Value.shape) :
           SumsExactly(Entry(Value, ox), TermsOf(t, call.other, call.axes, call.others, ox))
    [] call.op = "set"        -> TRUE

\* What the object holds: at each index what was last written there.
Writes(ix) == {n \in DOMAIN answers : /\ session.calls[n].op = "set" /\ session.calls[n].index = ix
                                      /\ answers[n].raised = "none"}
HoldsWrites(t0, t) ==
  \A ix \in Indices(t0.shape) :
    Entry(t, ix) = IF Writes(ix) = {} THEN Entry(t0, ix) ELSE session.calls[Largest(Writes(ix))].cell

\* An odometer of any radix meets every index tuple once and in order, so a
\* contraction sums exactly the products it owes, a permutation moves every cell
\* and a write is read back where it was made and nowhere else; a refused write
\* leaves no trace (tensor.rs:253-642, pyfacade/linalg.rs:834-839).
ContractionsRight ==
  Answered("tensor") =>
    /\ Fine = ~Made.bad
    /\ Fine => TensorPromise(held, Made)
    /\ HoldsWrites(session.object, held)

\* Matrices and tensors share the walk over an array: a permutation or an index
\* tuple met twice, or not at all, shows in one or the other
\* (matrix.rs:356-791, tensor.rs:253-642).
ArraysRight == MatricesExact /\ ContractionsRight

-----------------------------------------------------------------------------
(* Derivatives and integrals, held against dual numbers. *)

Points == {Rat(1, 2), Int2Rat(2), Int2Rat(3)}
\* x is p and moves; every other name is 2 and stands.
Moving(x, p) == [v \in {"x", "y"} |-> IF v = x THEN Dual(p, One) ELSE Dual(Two, Zero)]
Resting(x, p) == [v \in {"x", "y"} |-> IF v = x THEN p ELSE Two]

HasSlope(dt, t, x) ==
  \A p \in Points :
    \E d \in {DualValue(t, Moving(x, p))}, v \in {ValueAt(dt, Resting(x, p))} :
      d.ok => v.ok /\ v.v = d.d
\* Below a cubic the second difference is the second derivative.
HasCurvature(ddt, t, x) ==
  \A p \in Points :
    LET F(r) == ValueAt(t, Resting(x, r)).v
    IN  ValueAt(ddt, Resting(x, p)).v =
          SubR(AddR(F(AddR(p, One)), F(SubR(p, One))), MulR(Two, F(p)))

\* Frames a derivative pops: one in, one out for each operator, bases only.
RECURSIVE FramesNeeded(_), Supported(_), ConstantExponents(_, _)
Entered(t) == IF t.name = "Power" THEN {t.kids[1]} ELSE {t.kids[k] : k \in DOMAIN t.kids}
FramesNeeded(t) ==
  IF Leaf(t) THEN 1
  ELSE IF t.name = "Power" THEN 2 + FramesNeeded(t.kids[1])
  ELSE FoldLeft(LAMBDA n, k : n + FramesNeeded(k), 2, t.kids)
Supported(t) == Leaf(t) \/ (Differentiable(t) /\ \A k \in Entered(t) : Supported(k))
ConstantExponents(t, x) ==
  /\ IsFn(t, "Power") => x \notin FreeSymbols(t.kids[2])
  /\ \A k \in DOMAIN t.kids : ConstantExponents(t.kids[k], x)

Answerable(t) == Supported(t) /\ FramesNeeded(t) <= DiffCap

\* The function each derivative of a call is asked of, with its variable.
Sloped(call) ==
  CASE call.op = "diff_sum"     -> Add(call.term, call.other)
    [] call.op = "diff_product" -> Mul(call.term, call.other)
    [] call.op = "diff_chain"   -> Fn(call.term.name, <<call.other>>)
    [] OTHER                    -> call.term
Derivatives(call) == IF call.op = "gradient" THEN Value ELSE <<Value>>

DerivativePromise(call) ==
  IF call.op = "differentiate_n" /\ call.order = 0 THEN Value = call.term
  ELSE IF call.op = "differentiate_n" /\ call.order > 1 THEN HasCurvature(Value, call.term, call.names[1])
  ELSE IF call.op = "diff_chain" /\ call.term.name \notin Unary THEN Value = Lit(0)
  ELSE /\ call.op = "gradient" => Len(Value) = Len(call.names)
       /\ \A k \in DOMAIN Derivatives(call) : HasSlope(Derivatives(call)[k], Sloped(call), call.names[k])

Operands(call) ==
  CASE call.op = "diff_chain" -> {Fn(call.term.name, <<call.other>>)}
    [] call.op \in {"diff_sum", "diff_product"} -> {call.term, call.other}
    [] OTHER -> {call.term}

\* Wherever the function has a slope the derivative has a value and it is that
\* slope, as long as no exponent moves; the machine's stacks leave what the rules
\* leave operand by operand; and a derivative is refused exactly when an operator has no rule or
\* its frames exceed the cap, to the frame (differentiation_iterative.rs:105-351,
\* calculus/differentiation.rs:30-90).
DerivativeRight ==
  Answered("calculus") /\ Made.op \in Differentiating =>
    /\ Made.op = "differentiate" /\ ~Made.bad => (Fine = Answerable(Made.term))
    /\ Made.op = "differentiate" /\ Fine => Done(Value) = Derived(Made.term, Made.names[1])
    /\ Made.bad => ~Fine
    /\ (/\ Fine /\ \A t \in Operands(Made) : Answerable(t) /\ ConstantExponents(t, Made.names[1]))
       => DerivativePromise(Made)

RECURSIVE Parts(_)
Parts(t) == {t} \cup UNION {Parts(t.kids[k]) : k \in DOMAIN t.kids}

\* The variable stands where the test for constant factors does not look: in a wrapper,
\* in a bound of a sum or product, or in the point of a limit (integration.rs:338-357).
Binds(t) == t.op \in {"Sum", "Product", "Limit"}
Hidden(t, x) ==
  \E u \in Parts(t) :
    \/ u.op = "CachedValue" /\ x \in FreeSymbols(u)
    \/ Binds(u) /\ \E k \in DOMAIN u.kids : k < Len(u.kids) /\ x \in FreeSymbols(u.kids[k])

\* No rule covers a sum, product or limit whose body reads the variable.
OutsideTheTable(t, x) ==
  ~Hidden(t, x) /\ \E u \in Parts(t) : Binds(u) /\ x \in FreeSymbols(u.kids[Len(u.kids)])

\* The term with what its wrappers hold kept as it is at one point: so the integrator
\* reads it.  Without a hidden variable it is the same function.
RECURSIVE HeldStill(_, _)
HeldStill(t, env) ==
  IF t.op = "CachedValue" /\ ValueAt(t, env).ok THEN Num(ValueAt(t, env).v)
  ELSE [t EXCEPT !.kids = [k \in DOMAIN t.kids |-> HeldStill(t.kids[k], env)]]

ValueOf(t) == ValueAt(t, [v \in {"x", "y"} |-> Two])
IntegralPromise(call) ==
  LET x == call.names[1]
  IN  CASE call.op = "integrate" ->
             /\ ~OutsideTheTable(call.term, x)
             /\ \A p \in Points :
                  \E d \in {DualValue(HeldStill(Value, Resting(x, p)), Moving(x, p))},
                     v \in {ValueAt(call.term, Resting(x, p))} :
                    d.ok /\ v.ok => d.d = v.v
        [] OTHER -> call.polynomial => ValueOf(Value).v = call.area

\* The slope of an antiderivative is the integrand, wherever the test for constant
\* factors looks: in functions, conditionals and the bodies of sums, products and
\* limits.  Where a wrapper hides the variable, it is so with the wrapper held still,
\* which makes the answer wrong of what moves.  An integral between limits is the area,
\* in either direction, whether a rule applied or Simpson's did, which is exact up to
\* cubics (integration.rs:39-360).
AntiderivativeRight ==
  Answered("calculus") /\ Made.op \notin Differentiating =>
    /\ Made.bad => ~Fine
    /\ Fine => IntegralPromise(Made)

-----------------------------------------------------------------------------
(* Roots and critical points, held against values of the function itself.  The object *)
(* names the places where it turns, each with what it is there, and where it bends.   *)

F(p) == ValueAt(session.object.term, [v \in {"x"} |-> p])
SlopeAt(p) == DualValue(session.object.term, [v \in {"x"} |-> Dual(p, One)])

Aside == Rat(1, 8)
Above(p, step) == Sgn(SubR(F(AddR(p, step)).v, F(p).v))
KindAgrees(p, kind, tight) ==
  /\ kind \in {"maximum", "minimum", "saddle"} => LeR(AbsR(SlopeAt(p).d), tight)
  /\ session.object.smooth /\ SlopeAt(p).d = Zero =>
       CASE kind = "minimum" -> Above(p, Aside) = 1 /\ Above(p, NegR(Aside)) = 1
         [] kind = "maximum" -> Above(p, Aside) = -1 /\ Above(p, NegR(Aside)) = -1
         [] kind = "saddle"  -> Above(p, Aside) * Above(p, NegR(Aside)) = -1
         [] OTHER            -> TRUE

PointHolds(point, call) ==
  /\ F(point.x).ok /\ point.y = F(point.x).v
  /\ SlopeAt(point.x).ok => point.derivatives[1].v = SlopeAt(point.x).d
  /\ KindAgrees(point.x, point.kind, call.limits.tol)

\* The turns, and the bends, are far enough apart for one hit each.
Stride(call) == DivR(SubR(call.hi, call.lo), Int2Rat(call.limits.budget))
Sparse(places, call) ==
  /\ session.object.smooth /\ LtR(call.lo, call.hi) /\ LeR(call.limits.slack, Stride(call))
  /\ \A p, q \in places : p = q \/ LtR(MulR(Int2Rat(3), Stride(call)), AbsR(SubR(p, q)))
Spanned(places, call) == {p \in places : LeR(call.lo, p) /\ LeR(p, call.hi)}
Turns == {turn.at : turn \in session.object.turns}
SamplePoints(call) == {AddR(call.lo, MulR(Stride(call), Int2Rat(k))) : k \in 0..call.limits.budget}

\* What is reported is in order, in the range and apart, and next to each place that
\* is owed there is one report.
ReportsEach(points, places, call) ==
  /\ \A k \in DOMAIN points : LeR(call.lo, points[k].x) /\ LeR(points[k].x, call.hi)
  /\ \A k \in 1..(Len(points) - 1) :
       LtR(MulR(Rat(3, 2), Stride(call)), SubR(points[k + 1].x, points[k].x))
  /\ Sparse(places, call) => \A p \in Spanned(places, call) :
       \E k \in DOMAIN points : LtR(AbsR(SubR(points[k].x, p)), Stride(call))

\* A turn that falls on a sample is reported as what it is.
LabelsEach(points, call) ==
  Sparse(Turns, call) => \A turn \in session.object.turns :
    turn.at \in SamplePoints(call) => \E k \in DOMAIN points : points[k].x = turn.at /\ points[k].kind = turn.kind

Curves(points, call) ==
  session.object.smooth => \A k \in DOMAIN points :
    SlopeAt(points[k].x).ok /\ \E bend \in session.object.bends : LtR(AbsR(SubR(points[k].x, bend)), Stride(call))

\* The pieces cover the range end to end; over each the function rises, or lies below
\* its chord, as the label says.  A piece is labelled by its middle alone: one that is
\* level there counts as falling, whatever it does elsewhere.
Tiles(pieces, call) ==
  \A p \in SamplePoints(call) \ {call.hi} : \E piece \in pieces : LeR(piece.lo, p) /\ LtR(p, piece.hi)
Rises(piece) == Sgn(SubR(F(piece.hi).v, F(piece.lo).v))
Sags(piece)  == Sgn(SubR(AddR(F(piece.hi).v, F(piece.lo).v), MulR(Two, F(Middle(<<piece.lo, piece.hi>>)).v)))
Level(t, piece) == DualValue(t, [v \in {"x"} |-> Dual(Middle(<<piece.lo, piece.hi>>), One)]).d = Zero
PiecesRight(pieces, call, Sense(_), t) ==
  /\ Tiles(pieces, call)
  /\ \A piece \in pieces : IF piece.up THEN Sense(piece) = 1 ELSE Level(t, piece) \/ Sense(piece) = -1

CriticalPromise(call) ==
  CASE call.op = "find_stationary_points" ->
         /\ \A k \in DOMAIN Value : PointHolds(Value[k], call)
         /\ ReportsEach(Value, Turns, call) /\ LabelsEach(Value, call)
    [] call.op = "find_extrema" ->
         LET kinds == {turn.kind : turn \in session.object.turns}
         IN  /\ \A k \in DOMAIN Value.maxima : PointHolds(Value.maxima[k], call) /\ Value.maxima[k].kind = "maximum"
             /\ \A k \in DOMAIN Value.minima : PointHolds(Value.minima[k], call) /\ Value.minima[k].kind = "minimum"
             /\ kinds \subseteq {"maximum", "minimum"} => LabelsEach(Value.maxima \o Value.minima, call)
    [] call.op = "find_inflection_points" ->
         /\ ReportsEach(Value, session.object.bends, call) /\ Curves(Value, call)
         /\ \A k \in DOMAIN Value : F(Value[k].x).ok /\ Value[k].y = F(Value[k].x).v
    [] call.op = "analyze_intervals" ->
         /\ Sparse(Turns, call) => PiecesRight(Value.monotonic, call, Rises, session.object.term)
         /\ Sparse(session.object.bends, call) =>
              PiecesRight(Value.concavity, call, Sags, Derived(session.object.term, "x").term)
    [] call.op = "analyze_point"  -> Value.x = call.lo /\ PointHolds(Value, call)
    [] call.op = "classify_point" -> KindAgrees(call.lo, Value, call.limits.tol)
    [] OTHER ->
         /\ F(Value.root).ok /\ LeR(AbsR(F(Value.root).v), call.limits.tol)
         /\ Value.iterations <= call.limits.budget
         /\ call.op = "find_root_bisection" => LeR(call.lo, Value.root) /\ LeR(Value.root, call.hi)

\* A root that is answered is one, and the answer says nothing rather than an estimate;
\* a point called an extremum is one, with its neighbours on the right side; where the
\* samples are close enough no turn and no bend is missing, and the pieces between
\* them rise and curve as they are labelled (numerical/critical_points.rs:213-566,
\* root_finding.rs:77-281, pyfacade/numerical.rs:934-1365).
AnalysisRight ==
  Answered("numerical") => Fine = ~Made.bad /\ (Fine => CriticalPromise(Made))

-----------------------------------------------------------------------------
(* Equations, spectra. *)

Branches == {b.expression : b \in Value}
ClosedPromise(call) ==
  /\ {b.re : b \in {c \in Branches : c.real}} = call.roots
  /\ \A b \in Branches : ~b.real =>      \* (re + i im) squares to the constant term
       /\ MulR(Two, b.re) = NegR(call.monic[1])
       /\ AddR(MulR(b.re, b.re), b.im2) = call.monic[2]

\* Where a sample next to a root has no value, the bracket is skipped.
Visible(call, r) ==
  \A k \in -SearchSteps..SearchSteps :
    LET p == MulR(SearchStep, Int2Rat(k))
    IN  LeR(AbsR(SubR(p, r)), SearchStep) =>
          ValueAt(Sub(call.lhs, call.rhs), [v \in {"x"} |-> p]).ok

\* call.poles: the poles at which the sign changes.  The scan cannot tell one between
\* two samples from a root.
ScanPromise(call) ==
  LET Near(r, s, w) == LeR(AbsR(SubR(r, s)), w)
      narrow == DivR(SearchStep, Int2Rat(2 ^ SearchHalvings))
      reals == {b.re : b \in Branches}
  IN  /\ \A r \in reals : \E s \in call.roots \cup call.poles : Near(r, s, narrow)
      /\ \A s \in call.roots :
           (Visible(call, s) /\ \A v \in call.roots : v # s => ~Near(v, s, MulR(Two, SearchStep)))
           => \E r \in reals : Near(r, s, narrow)

SatisfiedBy(call, xs) ==
  LET at == [v \in Range(call.names) |-> xs[CHOOSE k \in DOMAIN call.names : call.names[k] = v]]
  IN  \A k \in DOMAIN call.equations :
        ValueAt(Sub(call.equations[k][1], call.equations[k][2]), at).v = Zero

Horner(cs, p) == FoldRight(LAMBDA c, v : AddR(c, MulR(p, v)), cs, Zero)

\* A closed form gives all the roots and nothing else; a scan gives each root it
\* can tell from its neighbours, and nothing that is not near a root or near a pole at
\* which the sign changes, which it takes for one; a system with one
\* solution gets it and only a system without one is singular; a sum of terms is the
\* polynomial its names spell (equation_solver.rs:85-370, term_sum.rs:40-121).
EquationsSolved ==
  /\ Answered("analysis") =>
       IF ~Fine THEN Made.bad \/ (Made.op = "solve_system" /\ Laplace(Made.matrix) = Zero)
       ELSE /\ ~Made.bad
            /\ Made.op = "solve_system" => Laplace(Made.matrix) # Zero /\ SatisfiedBy(Made, Value[1])
            /\ Made.op # "solve_system" /\ Made.closed => ClosedPromise(Made)
            /\ Made.op # "solve_system" /\ ~Made.closed => ScanPromise(Made)
  /\ Answered("termsum") =>
       IF Fine THEN ~Made.bad /\ Value = Horner(Made.values, Made.inputs["x"]) ELSE Made.bad

\* equation_solver.rs:122-124 -- a non-linear system is "rejected with an error
\* rather than linearised silently".
SystemsSolved ==
  Answered("analysis") /\ Made.op = "solve_system" /\ Fine => SatisfiedBy(Made, Value[1])

\* A signal of one harmonic comes back from its transform at every abscissa when the
\* window is flat, a constant one keeps its mean under every window, and dropping by
\* the accuracy target takes a harmonic whole; a signal without a value at a sample is
\* refused, a window of weight zero there or not (fourier.rs:274-400); a refused
\* configuration leaves the one before it (pyfacade/analysis.rs:672-706).
SpectrumRight ==
  Answered("fourier") =>
    /\ Fine = ~Made.bad
    /\ Fine /\ Made.op = "transform" =>
         /\ Made.constant => Value.dc = Made.values[1]
         /\ held.window = "rectangular" /\ held.harmonics = 1 /\ held.threshold = Zero =>
              \A k \in 0..6 : EvaluateTransform(Value, k) = Made.values[k + 1]
         /\ \A h \in DOMAIN Value.harmonics :
              LET ab == Value.harmonics[h]
              IN  ab = <<Zero, Zero>> \/ ~Dropped(ab[1], ab[2], held.threshold)
    /\ Fine /\ Made.op = "empty" => \A k \in 0..6 : EvaluateTransform(Value, k) = Zero
    /\ Fine /\ Made.op = "config" => held.samples = Made.config.samples

-----------------------------------------------------------------------------
(* Text: read back by the parser, by a stack, or covered lexeme by lexeme. *)

Same(t, u) == \A p \in Points : ValueAt(t, Resting("x", p)) = ValueAt(u, Resting("x", p))

\* A sign that is part of a literal is read as applied to the whole power.
RECURSIVE NegativeBase(_)
NegativeBase(t) == \/ IsFn(t, "Power") /\ t.kids[1].op = "Number" /\ LtR(t.kids[1].value, Zero)
                   \/ \E k \in DOMAIN t.kids : NegativeBase(t.kids[k])

Word2 == [w \in {"+", "-", "*", "/", "^"} |->
            CASE w = "^" -> "Power" [] w \in DOMAIN SumTerms -> SumTerms[w] [] OTHER -> ProductTerms[w]]
RpnStep(operands, w, env) ==
  LET n == Len(operands)
      a == operands[n - 1]
      b == operands[n]
  IN  IF w \in DOMAIN Numerals THEN Append(operands, Dual(Numerals[w], Zero))
      ELSE IF w \in DOMAIN env THEN Append(operands, Dual(env[w], Zero))
      ELSE IF w \in DOMAIN Word2
      THEN Append(SubSeq(operands, 1, n - 2),
                  IF a.ok /\ b.ok THEN BinaryDual(Word2[w], a, b) ELSE NoValue)
      ELSE Append(SubSeq(operands, 1, n - 1),
                  IF b.ok THEN UnaryDual(IF w = "neg" THEN "Negate" ELSE CallTable[w][1], b) ELSE NoValue)
RpnValues(text, env) == FoldLeft(LAMBDA operands, w : RpnStep(operands, w, env), <<>>, text)

EmitPromise(t, call) ==
  CASE call.target = "EmlRpn" ->
         \A p \in Points : RpnValues(Value.text, Resting("x", p)) = <<ValueAt(t, Resting("x", p))>>
    [] OTHER ->
         \E back \in {ParseExpression([k \in DOMAIN Value.text |->
                        IF Value.text[k] = "log" THEN "ln" ELSE Value.text[k]])} :   \* GLSL's log
           back.error = "none" /\ Same(back.term, t)

Covering(lexemes, i) == {k \in DOMAIN lexemes : lexemes[k].from <= i /\ i <= lexemes[k].upto}
Foreign == {"L", "c", "m"}
LexPromise(s) ==
  CASE Value.error = "none" ->
         /\ \A i \in DOMAIN s : Cardinality(Covering(Value.lexemes, i)) = IF s[i] = " " THEN 0 ELSE 1
         /\ \A k \in DOMAIN Value.lexemes :
              s[Value.lexemes[k].from] \in CASE Value.lexemes[k].kind = "number" -> {"9", "."}
                                             [] Value.lexemes[k].kind = "name" -> Letters
                                             [] OTHER -> {"s", "o"}
    [] Value.error = "empty" -> \A i \in DOMAIN s : s[i] = " "
    [] Value.error = "bad number" -> "." \in Range(s)
    [] Value.error = "panic" -> Range(s) \cap Foreign # {}
    [] OTHER -> Range(s) \cap (Foreign \cup {"?"}) # {}

\* What is written can be read: a term emitted as text, shader source or postfix is
\* read back with the value it had, brackets and associativity included, unless a
\* power has a negative literal for its base; the lexer gives every byte to exactly
\* one lexeme; a parsed text means what its grammar says (parse.rs:147-537,
\* emit.rs:70-418).
TextReadsBack ==
  Answered("text") =>
    CASE Made.op = "emit" ->
           /\ (Value.error # "none") = Made.bad
           /\ (~Made.bad /\ ~(Made.target = "Text" /\ NegativeBase(held))) => EmitPromise(held, Made)
      [] Made.op = "lex"  -> LexPromise(Made.bytes)
      [] Made.op = "parse" -> IF Made.means.error = "none"
                              THEN Value.error = "none" /\ Same(Value.term, Made.means.term)
                              ELSE Value.error = Made.means.error
      [] Made.op = "free_variables" -> Value = FreeSymbols(held)

-----------------------------------------------------------------------------
(* Units. *)

KnownUnits == {BaseSymbols[i] : i \in Axes} \cup {DerivedUnits[k].symbol : k \in DOMAIN DerivedUnits}
\* Every way to read a symbol: the unit alone, or after one prefix.
UnitReadings(symbol) ==
  IF symbol \in KnownUnits THEN {<<0, symbol>>}
  ELSE {<<p.power, u>> : <<p, u>> \in {pu \in SIPrefixes \X KnownUnits : pu[1].symbol \o pu[2] = symbol}}
Symbol == session.object.symbol
ReadingOf(symbol) == CHOOSE r \in UnitReadings(symbol) : TRUE

TooFar(exps) == \E i \in Axes : exps[i] \notin -MaxExponent..MaxExponent

UnitPromise(call) ==
  LET unknown == UnitReadings(Symbol) = {}
  IN  CASE call.op \in {"split_symbol", "split_unit_symbol"} ->
             IF unknown THEN Value = Unsplit ELSE UnitReadings(Symbol) = {<<Value.power, Value.base>>}
        [] call.op = "scale_to_base" -> IF unknown THEN Value = None ELSE Value = <<1, ReadingOf(Symbol)[1]>>
        [] call.op = "is_base_unit"  -> Value = (Symbol \in Range(BaseSymbols))
        [] call.op = "is_compatible_with" ->
             Value = IF unknown \/ UnitReadings(call.other) = {} THEN "unknown"
                     ELSE IF OfUnit(ReadingOf(Symbol)[2]) = OfUnit(ReadingOf(call.other)[2]) THEN "yes" ELSE "no"
        [] call.op = "convert" ->
             /\ call.symbol = call.to => Value = call.value
             /\ Value[2] - call.value[2] = ReadingOf(call.symbol)[1] - ReadingOf(call.to)[1]
             /\ Value[1] = call.value[1]
        [] call.op = "dimension_symbol" ->
             IF Value = None THEN \A u \in KnownUnits \ Range(BaseSymbols) : OfUnit(u) # call.exps
             ELSE OfUnit(Value) = call.exps
        [] call.op = "powi"     -> IF Value = None THEN TooFar([i \in Axes |-> call.exps[i] * call.n])
                                   ELSE \A i \in Axes : Value[i] = call.exps[i] * call.n
        [] call.op = "nth_root" -> IF Value = None THEN call.n = 0 \/ \E i \in Axes :
                                          \A q \in -MaxExponent..MaxExponent : q * call.n # call.exps[i]
                                   ELSE PowerDim(Value, call.n) = call.exps
        [] call.op = "multiply" -> IF Value = None THEN TooFar([i \in Axes |-> call.exps[i] + call.by[i]])
                                   ELSE DivideDim(Value, call.by) = call.exps
        [] call.op = "divide"   -> IF Value = None THEN TooFar([i \in Axes |-> call.exps[i] - call.by[i]])
                                   ELSE MultiplyDim(Value, call.by) = call.exps
        [] call.op = "dimension_of" -> (Value = None) = (call.symbol \notin KnownUnits)
        [] OTHER                -> TRUE

\* A symbol has one reading, prefix and unit are what concatenating them says, and a
\* conversion moves by exactly the power between them, so that it can be undone; a
\* dimension that fits is not refused and one that does not is not truncated, and a
\* magnitude that is not finite is refused (unit.rs:132-251, 443-706).
UnitsReadBack ==
  Answered("unit") => Fine = ~Made.bad /\ (Fine => UnitPromise(Made))

-----------------------------------------------------------------------------
(* Expressions, integers and variables. *)

RECURSIVE Unwrapped(_)
Unwrapped(t) ==
  IF t.op = "CachedValue" THEN Unwrapped(t.kids[1])
  ELSE [t EXCEPT !.kids = [k \in DOMAIN t.kids |-> Unwrapped(t.kids[k])]]

BytesValue(n) == (IF n.negative THEN -1 ELSE 1) * ValueOfBytes(n.bytes)
DigitsValue(text) ==
  FoldLeft(LAMBDA v, d : 10 * v + (IF d = "-" THEN 0 ELSE DigitValue(d)), 0, text)
  * (IF text[1] = "-" THEN -1 ELSE 1)

\* Every function is one the reference has a value for, with the operands it takes.
RECURSIVE Sensible(_)
Sensible(t) ==
  /\ t.op = "Function" => Len(t.kids) = IF t.name \in {"Add", "Subtract", "Multiply", "Divide", "Power"} THEN 2
                                        ELSE IF t.name \in {"Log", "Gamma"} THEN 0 ELSE 1
  /\ t.name # "nan" /\ \A k \in DOMAIN t.kids : Sensible(t.kids[k])
ExactAt(t, env) == IF Sensible(t) THEN ValueAt(t, env) ELSE NoValue

\* A float is the exact value; where there is none it is NaN, unless a condition
\* or a power did not look at the operand that had none.
FloatPromise(t, env) ==
  \E d \in {ExactAt(t, env)} :
    IF d.ok THEN ~Value.nan /\ Value.v = d.v
    ELSE Value.nan \/ (\E u \in Parts(t) : u.op = "Conditional" \/ IsFn(u, "Power"))

ExpressionPromise(t, call) ==
  CASE call.op = "binary" -> IF call.reflected THEN Same(Value, Fn(call.name, <<call.other, t>>))
                             ELSE Same(Value, Fn(call.name, <<t, call.other>>))
    [] call.op = "unary"    -> Same(Value, Fn(call.name, <<call.other>>))
    [] call.op = "neg"      -> Same(Value, Sub(Lit(0), t))
    [] call.op \in {"number", "variable", "constant"} -> FreeSymbols(Value) = call.names
    [] call.op = "evaluate" -> FloatPromise(t, call.env)
    [] call.op = "to_latex" ->
         \A u \in call.rivals : Latex(u) = Value /\ ~NegativeBase(u) /\ ~NegativeBase(t) => Same(u, t)
    [] call.op = "to_compact"   -> FromCompact(Value) = Gave(Unwrapped(t))
    [] call.op = "from_compact" -> ToCompact(Value) = call.node
    [] call.op = "children"     -> \A k \in DOMAIN Value : Nodes(Value[k]) < Nodes(t)
    [] call.op = "is_constant"  ->
         Value = (FreeSymbols(t) = {} /\ \A u \in Parts(t) : u.op \notin {"Sum", "Product", "Limit"})

\* A missing name is told from a value that does not exist.
ExpressionRefusal(t, call) ==
  IF call.op # "evaluate" \/ call.bad THEN call.bad
  ELSE /\ ~ExactAt(t, call.env).ok
       /\ Got.raised = "KeyError" => ~(FreeSymbols(t) \subseteq DOMAIN call.env)
       /\ FreeSymbols(t) \subseteq DOMAIN call.env =>
            Got.raised = IF \E u \in Parts(t) : u.op = "Function" /\ u.kids = <<>> THEN "PanicException"
                         ELSE "RuntimeError"

\* The binding in force: the last one that was accepted.
Accepted == {n \in DOMAIN answers : /\ session.calls[n].op \in {"new", "set_binding"}
                                    /\ answers[n].raised = "none"}
BindingInForce == session.calls[Largest(Accepted)]
VariableKept ==
  /\ Made.op = "to_expression" => FreeSymbols(Value) = {held.name}
  /\ Made.op = "is_unbound" => Value = (BindingInForce.class = "None")
  /\ Made.op = "binding" => IF BindingInForce.class = "None" THEN Is(Value, "None")
                            ELSE Content(Value) = BindingInForce.binding
  /\ held.name = session.calls[1].name

\* The compact form and the decimal string give back what was put in; LaTeX that two
\* terms share is of terms with one value; operands keep their sides; a variable
\* keeps its last accepted binding (pyfacade/core.rs:111-836, 885-1229, 1262-1425).
CodecReadsBack ==
  /\ Answered("expression") =>
       IF Fine THEN ExpressionPromise(session.object, Made) ELSE ExpressionRefusal(session.object, Made)
  /\ Answered("integer") =>
       IF ~Fine THEN Made.bad
       ELSE IF Made.op \in {"new", "from_str"} THEN BytesValue(Value) = Made.means
       ELSE DigitsValue(Value) = BytesValue(held) /\ FromDecimalString(Value) = Gave(held)
  /\ Answered("variable") => VariableKept

\* Whatever is written can be read: text, shader source, postfix, LaTeX, the compact
\* form, decimal strings (emit.rs:70-418, parse.rs:147-537, pyfacade/core.rs:111-836).
WritingReadsBack == TextReadsBack /\ CodecReadsBack

-----------------------------------------------------------------------------
(* Geometry: vectors by the identities of an inner product, hits put back    *)
(* into what they are hits of, curves by another construction.              *)

Worth(v, env)  == FoldLeft(LAMBDA ws, t : Append(ws, ValueAt(t, env).v), <<>>, v)
HasWorth(v, env) == \A k \in DOMAIN v : ValueAt(v[k], env).ok
Nameless(v) == \A k \in DOMAIN v : FreeSymbols(v[k]) = {}

Inner(p, q) == SumOf([k \in 1..3 |-> MulR(p[k], q[k])])
Length2(p)  == Inner(p, p)
Minus(p, q) == [k \in DOMAIN p |-> SubR(p[k], q[k])]
Plus(p, q)  == [k \in DOMAIN p |-> AddR(p[k], q[k])]
\* Equality in the inequality of Cauchy and Schwarz.
Aligned(p, q) == MulR(Inner(p, q), Inner(p, q)) = MulR(Length2(p), Length2(q))
IsMultiple(q, p, s) == Aligned(q, p) /\ Inner(q, p) = MulR(s, Length2(p)) /\
                       Length2(q) = MulR(MulR(s, s), Length2(p))

VectorPromise(call, env) ==
  IF call.op \in {"Vector", "from_sequence", "zero"}
  THEN held[call.to] = [k \in 1..3 |-> IF call.op = "zero" THEN Lit(0) ELSE call.args[k].term]
  ELSE \E c \in {Worth(held[call.to], env)}, a \in {Worth(held[call.self], env)} :
         IF call.op = "neg" THEN Plus(c, a) = <<Zero, Zero, Zero>>
         ELSE IF call.op = "scale" THEN IsMultiple(c, a, ValueAt(call.arg.term, env).v)
         ELSE \E b \in {Worth(held[call.other], env)} :
                CASE call.op = "add"   -> Minus(c, a) = b
                  [] call.op = "sub"   -> Plus(c, b) = a
                  [] call.op = "cross" ->
                       /\ Inner(c, a) = Zero /\ Inner(c, b) = Zero
                       /\ AddR(Length2(c), MulR(Inner(a, b), Inner(a, b))) = MulR(Length2(a), Length2(b))
                       /\ Laplace(Matrix(3, 3, a \o b \o c)) = Length2(c)

NumberPromise(call, env) ==
  \E v \in {ValueAt(Value, env)}, a \in {Worth(held[call.self], env)} :
    CASE call.op = "magnitude_squared" -> v.v = Length2(a)
      [] call.op = "magnitude" -> v.ok /\ LeR(Zero, v.v) /\ MulR(v.v, v.v) = Length2(a)
      [] call.op = "dot"       -> \E b \in {Worth(held[call.other], env)} :
           MulR(Int2Rat(4), v.v) = SubR(Length2(Plus(a, b)), Length2(Minus(a, b)))

\* Lines, planes and spheres under env, as numbers.
LineUnder(l, env)   == [o |-> Worth(l.origin, env), d |-> Worth(l.direction, env)]
OnLine(p, line)     == Aligned(Minus(p, line.o), line.d)
PlaneUnder(p, env)  == [n |-> Worth(p.normal, env), h |-> ValueAt(p.offset, env).v]
Side(p, plane)      == SubR(Inner(plane.n, p), plane.h)
IsLineClosed(l)     == Nameless(l.origin) /\ Nameless(l.direction)
IsPlaneClosed(p)    == Nameless(p.normal) /\ FreeSymbols(p.offset) = {}

LinePlanePromise(l, p, hits, env) ==
  \E line \in {LineUnder(l, env)}, plane \in {PlaneUnder(p, env)} :
  LET start == Side(line.o, plane)
      next  == Side(Plus(line.o, line.d), plane)
  IN  /\ start # next => hits.kind = "point" /\ HasWorth(hits.points[1], env)
      /\ hits.kind = "point" /\ HasWorth(hits.points[1], env) =>
           \E q \in {Worth(hits.points[1], env)} : Side(q, plane) = Zero /\ OnLine(q, line)
      /\ IsLineClosed(l) /\ IsPlaneClosed(p) =>
           hits.kind = IF start # next THEN "point" ELSE IF start = Zero THEN "continuous" ELSE "none"

\* How far the line passes from the sphere, up to a positive factor.
Beyond(line, oc, r) ==
  SubR(SubR(MulR(Length2(oc), Length2(line.d)), MulR(Inner(oc, line.d), Inner(oc, line.d))),
       MulR(MulR(r, r), Length2(line.d)))

\* At: the hits that are numbers, by their place in the list; beyond: a sign.
HitsRight(line, centre, r, at, beyond) ==
  /\ \A k \in DOMAIN at : Length2(Minus(at[k], centre)) = MulR(r, r) /\ OnLine(at[k], line)
  /\ Length2(line.d) # Zero =>
       CASE beyond < 0 -> /\ DOMAIN at = {1, 2}
                          /\ LtR(Inner(Minus(at[1], line.o), line.d), Inner(Minus(at[2], line.o), line.d))
         [] beyond > 0 -> DOMAIN at = {}
         [] beyond = 0 -> DOMAIN at # {}

LineSpherePromise(l, s, hits, env) ==
  \E line \in {LineUnder(l, env)}, centre \in {Worth(s.centre, env)}, r \in {ValueAt(s.radius, env).v} :
    \E beyond \in {Sgn(Beyond(line, Minus(centre, line.o), r))} :
      /\ HitsRight(line, centre, r, [k \in {k \in DOMAIN hits.points : HasWorth(hits.points[k], env)} |->
                                      Worth(hits.points[k], env)], beyond)
      /\ IsLineClosed(l) /\ Nameless(s.centre) /\ FreeSymbols(s.radius) = {} =>
           Len(hits.points) = IF Length2(line.d) = Zero THEN 0 ELSE 1 - beyond

PlanePlanePromise(p, q, met, env) ==
  \E P \in {PlaneUnder(p, env)}, Q \in {PlaneUnder(q, env)} :
    /\ ~Aligned(P.n, Q.n) =>
         /\ met # <<>>
         /\ \E line \in {LineUnder(met[1], env)} : \A plane \in {P, Q} :
              /\ Side(line.o, plane) = Zero /\ Side(Plus(line.o, line.d), plane) = Zero
              /\ Length2(line.d) # Zero
    /\ IsPlaneClosed(p) /\ IsPlaneClosed(q) => (met = <<>>) = Aligned(P.n, Q.n)

\* A zero direction or normal has no answer.
ClosestPromise(l, at, foot, env) ==
  \E line \in {LineUnder(l, env)} :
    IF Length2(line.d) = Zero THEN ~HasWorth(foot, env)
    ELSE HasWorth(foot, env) /\ \E q \in {Worth(foot, env)} :
           OnLine(q, line) /\ Inner(Minus(Worth(at, env), q), line.d) = Zero
DistancePromise(p, at, env) ==
  \E plane \in {PlaneUnder(p, env)}, v \in {ValueAt(Value, env)} :
    IF Length2(plane.n) = Zero THEN ~v.ok
    ELSE v.ok /\ \E side \in {Side(Worth(at, env), plane)} :
           Sgn(v.v) = Sgn(side) /\ MulR(MulR(v.v, v.v), Length2(plane.n)) = MulR(side, side)

PrimitivePromise(call, env) ==
  LET self == held[call.self]
      other == held[call.other]
      made == held[call.to]
  IN  CASE call.op = "line_plane"  -> LinePlanePromise(self, other, made, env)
        [] call.op = "line_sphere" -> LineSpherePromise(self, other, made, env)
        [] call.op = "plane_plane" -> PlanePlanePromise(self, other, made, env)
        [] call.op = "at"          -> IsMultiple(Minus(Worth(made, env), Worth(self.origin, env)),
                                                 Worth(self.direction, env), ValueAt(call.arg.term, env).v)
        [] call.op \in {"closest_point", "closest_param"} ->
             ClosestPromise(self, other, IF call.op = "closest_point" THEN made ELSE LineAt(self, Value), env)
        [] call.op = "signed_distance" -> DistancePromise(self, other, env)
        [] call.op = "point"           -> (Value = <<>>) = (self.kind \in {"none", "continuous"})
        [] call.op = "truth"           -> Value = (self.points # <<>> \/ self.kind = "continuous")
        [] call.op = "component"       -> Value = (self \o self)[call.index + 4]
        [] call.op = "evaluate"        -> HasWorth(self, call.env) /\ Value = Worth(self, call.env)
        [] OTHER                       -> TRUE

CurveOps == {"bezier", "catmull_rom", "through", "nurbs", "clamped", "polyline", "arc",
             "curve_at", "span_expression", "tangent", "to_polyline"}

\* A vector, a distance, a foot or a hit is where the geometry of the numbers puts it,
\* under every binding of the names it was left in; hits come near to far; and a
\* line and a sphere or two planes are said to miss or to touch only when they do
\* (geometry/vector.rs:46-103, plane.rs:43-49, intersection.rs:108-263).
IntersectionsRight ==
  Answered("geometry") /\ Made.op \notin CurveOps =>
    /\ Fine = ~Made.bad
    /\ Fine => \A env \in Made.envs :
         IF Made.op \in MakesVector THEN VectorPromise(Made, env)
         ELSE IF Made.op \in {"dot", "magnitude", "magnitude_squared"} THEN NumberPromise(Made, env)
         ELSE PrimitivePromise(Made, env)

-----------------------------------------------------------------------------
(* Curves. *)

Lerp(p, q, t) == [k \in DOMAIN p |-> AddR(MulR(SubR(One, t), p[k]), MulR(t, q[k]))]
RECURSIVE Casteljau(_, _)
Casteljau(points, t) ==
  IF Len(points) = 1 THEN points[1]
  ELSE Casteljau([i \in 1..(Len(points) - 1) |-> Lerp(points[i], points[i + 1], t)], t)

Flat(points) == [i \in DOMAIN points |-> Worth(points[i], <<>>)]

\* The parabola through three points at three knots, and two of them blended.
Parabola(u, v, t) ==
  LET Share(i, j) == DivR(SubR(t, u[j]), SubR(u[i], u[j]))
      Part(i, j, l) == MulR(v[i], MulR(Share(i, j), Share(i, l)))
  IN  SumOf(<<Part(1, 2, 3), Part(2, 1, 3), Part(3, 1, 2)>>)
KnotGap(p, q, spacing) ==
  LET distance == SquareRoot(SumOf([k \in DOMAIN p |-> PowR(SubR(p[k], q[k]), 2)]))
  IN  CASE spacing = "uniform" -> One [] spacing = "chordal" -> distance
        [] spacing = "centripetal" -> SquareRoot(distance)
\* Empty where two points meet and leave no knot interval.
Spline(p, spacing, s) ==
  LET g == [k \in 1..3 |-> KnotGap(p[k], p[k + 1], spacing)]
      u == [k \in 1..4 |-> SumOf(SubSeq(g, 1, k - 1))]
      t == AddR(u[2], MulR(s, g[2]))
      Near(k) == Parabola(SubSeq(u, 1, 3), [i \in 1..3 |-> p[i][k]], t)
      Far(k)  == Parabola(SubSeq(u, 2, 4), [i \in 1..3 |-> p[i + 1][k]], t)
  IN  IF Zero \in Range(g) THEN <<>> ELSE [k \in DOMAIN p[1] |-> Lerp(<<Near(k)>>, <<Far(k)>>, s)[1]]

\* Two points more, each the mirror image of the second through the end.
Extended(p) ==
  LET Mirrored(a, b) == Lerp(a, b, Int2Rat(-1))
  IN  <<Mirrored(p[1], p[2])>> \o p \o <<Mirrored(p[Len(p)], p[Len(p) - 1])>>
Piece(p, t) == CHOOSE i \in 1..(Len(p) - 1) : /\ i = Len(p) - 1 \/ LeR(t, Int2Rat(i))
                                              /\ i = 1 \/ LtR(Int2Rat(i - 1), t)

CurveReference(call, t) ==
  LET p == Flat(call.points)
  IN  CASE call.op = "bezier"      -> Casteljau(p, t)
        [] call.op = "catmull_rom" -> Spline(p, call.spacing, t)
        [] call.op = "through"     -> Spline(SubSeq(Extended(p), Piece(p, t), Piece(p, t) + 3), call.spacing,
                                             SubR(t, Int2Rat(Piece(p, t) - 1)))

Instants == {Int2Rat(-1), Zero, Rat(1, 2), One, Rat(4, 3), Two}
CurvePromise(call) ==
  IF Value.error # "none" THEN call.bad
  ELSE \A t \in Instants :
         \E env \in {[x \in {"t"} |-> t]}, p \in {CurveReference(call, t)} :
           IF p = <<>> THEN ~HasWorth(Value.axes, env)
           ELSE HasWorth(Value.axes, env) /\ Worth(Value.axes, env) = p

\* Cox and de Boor's basis over all the knots, the last interval closed.
RECURSIVE BasisAt(_, _, _, _)
BasisAt(u, i, p, t) ==
  LET Part(n, j) == IF u[j + p] = u[j] THEN Zero
                    ELSE DivR(MulR(n, BasisAt(u, j, p - 1, t)), SubR(u[j + p], u[j]))
  IN  IF p > 0 THEN AddR(Part(SubR(t, u[i]), i), Part(SubR(u[i + p + 1], t), i + 1))
      ELSE IF LtR(u[i], u[i + 1]) /\ LeR(u[i], t) /\ (LtR(t, u[i + 1]) \/ (t = u[i + 1] /\ t = MaxR(Range(u))))
           THEN One ELSE Zero
\* Its slope, from the basis one degree lower.
BasisSlope(u, i, p, t) ==
  LET Part(j) == IF u[j + p] = u[j] THEN Zero ELSE DivR(BasisAt(u, j, p - 1, t), SubR(u[j + p], u[j]))
  IN  MulR(Int2Rat(p), SubR(Part(i), Part(i + 1)))

Homogeneous(c, Of(_)) == [k \in 1..4 |-> SumOf([i \in DOMAIN c.points |-> MulR(Of(i), c.points[i][k])])]
OnCurve(c, t) == Cartesian(Homogeneous(c, LAMBDA i : BasisAt(c.knots, i, c.degree, t)))
\* The quotient rule, without the square of the weight.
Heading(c, t) ==
  LET h == Homogeneous(c, LAMBDA i : BasisAt(c.knots, i, c.degree, t))
      g == Homogeneous(c, LAMBDA i : BasisSlope(c.knots, i, c.degree, t))
  IN  [k \in 1..3 |-> SubR(MulR(g[k], h[4]), MulR(h[k], g[4]))]

\* A direction, scaled by the size of its first part that is not zero.
Pointed(v) ==
  IF Range(v) = {Zero} THEN v
  ELSE LET k == CHOOSE k \in DOMAIN v : v[k] # Zero /\ \A j \in 1..(k - 1) : v[j] = Zero
       IN  [j \in DOMAIN v |-> DivR(v[j], AbsR(v[k]))]

\* The middle of a piece of a curve without corners is off its chord by no more than
\* the tolerance.
StaysClose(c, samples, tolerance) ==
  LET n == Len(samples) - 1
      ends == Domain(c)
      Halfway(i) == OnCurve(c, Lerp(<<ends[1]>>, <<ends[2]>>, Rat(2 * i - 1, 2 * n))[1])
  IN  \A i \in 1..n :
        \E m \in {Minus(Halfway(i), samples[i])}, d \in {Minus(samples[i + 1], samples[i])} :
          LeR(SubR(MulR(Length2(m), Length2(d)), MulR(Inner(m, d), Inner(m, d))),
              MulR(MulR(tolerance, tolerance), Length2(d)))

NurbsPromise(call) ==
  LET c == held[call.self]
      t == ClampedTo(Domain(c), call.t)
      env == [x \in {"t"} |-> t]
  IN  CASE call.op = "curve_at"        -> Value = OnCurve(c, t)
        [] call.op = "span_expression" -> HasWorth(Value, env) /\ Worth(Value, env) = OnCurve(c, t)
        [] call.op = "tangent"         -> Pointed(Value) = Pointed(Heading(c, t))
        [] call.op = "to_polyline"     ->
             /\ Value[1] = OnCurve(c, Domain(c)[1]) /\ Value[Len(Value)] = OnCurve(c, Domain(c)[2])
             /\ c.degree > 1 /\ Len(Value) <= MaxSegments => StaysClose(c, Value, call.tolerance)
        [] call.op = "arc"             ->
             \A i \in 0..4 : Length2(Minus(OnCurve(held[call.to], Rat(i, 4)), call.points[1])) = MulR(call.radius, call.radius)
        [] OTHER                       -> TRUE

\* A curve is the same curve however it is computed: Bernstein's sum and repeated
\* interpolation, the pyramid of a spline and its parabolas (so it meets its points),
\* de Boor's triangle, the term of a span and the basis over all knots, on either
\* side of a knot; an arc is round and a tessellation stays within its tolerance
\* (geometry/curve.rs:105-324, nurbs.rs:158-349).
CurvesRight ==
  Answered("geometry") /\ Made.op \in CurveOps =>
    /\ Fine => IF Made.op \in {"bezier", "catmull_rom", "through"} THEN CurvePromise(Made) ELSE NurbsPromise(Made)
    /\ Made.op \notin {"bezier", "catmull_rom", "through"} => Fine = ~Made.bad

\* Points and curves, by what can be computed of them another way
\* (geometry/intersection.rs, curve.rs, nurbs.rs).
GeometryRight == IntersectionsRight /\ CurvesRight

-----------------------------------------------------------------------------
(* Statistics: subsets of trials, the error function itself, and averages   *)
(* over tuples of distinct points (the unbiased estimators).                *)

Trials(d) == IF d.kind = "binomial" THEN d.n ELSE 1
Chance(d, k) ==
  FoldLeft(MulR, Int2Rat(Cardinality(kSubset(k, 1..Trials(d)))),
           [i \in 1..Trials(d) |-> IF i <= k THEN d.p ELSE SubR(One, d.p)])
Outcomes(d) == [i \in 1..(Trials(d) + 1) |-> i - 1]
Expectation(d, Of(_)) ==
  SumOf([i \in 1..(Trials(d) + 1) |-> MulR(Of(Int2Rat(i - 1)), Chance(d, i - 1))])
Law(d, x) ==
  IF d.kind = "normal" THEN MulR(Half, AddR(One, ErfSeries(DivR(SubR(x, d.mean), d.std_dev))))
  ELSE Expectation(d, LAMBDA k : IF LeR(k, x) THEN One ELSE Zero)

\* Between the slopes of the law on either side: it bends one way only off the mean.
SlopeOfLaw(d, a, b) == DivR(SubR(Law(d, b), Law(d, a)), SubR(b, a))
DensityRight(d, x, y) ==
  IF d.kind = "normal"
  THEN LET h == MulR(Half, AbsR(SubR(x, d.mean)))
           slopes == {SlopeOfLaw(d, x, AddR(x, h)), SlopeOfLaw(d, SubR(x, h), x)}
       IN  x # d.mean => LtR(MinR(slopes), y) /\ LtR(y, MaxR(slopes))
  ELSE y = IF x[2] = 1 /\ x[1] \in 0..Trials(d) THEN Chance(d, x[1]) ELSE Zero

VarianceRight(d, v) ==
  IF d.kind = "normal" THEN v = MulR(d.std_dev, d.std_dev)
  ELSE v = Expectation(d, LAMBDA k : MulR(SubR(k, Mean(d)), SubR(k, Mean(d))))

\* The least x with that much of the law below it, but for the tolerance above it.
WithinTolerance(x) == MulR(QuantileTolerance, AddR(One, AbsR(x)))
IsQuantile(Of(_), x, p) == LeR(p, Of(x)) /\ LtR(Of(SubR(x, WithinTolerance(x))), p)
Inside(z) == SubR(Law(StandardNormal, z), Law(StandardNormal, NegR(z)))

\* Over a whole period every state is visited once; each draw is where the law says.
Period == 2 ^ WordBits - 1
AsTheLaw(d, draws) ==
  \A x \in Range(draws) :
    LET seen == Int2Rat(Cardinality({i \in DOMAIN draws : LeR(draws[i], x)}))
        Expected(y) == MulR(Int2Rat(Period), Law(d, y))
    IN  LeR(seen, AddR(Expected(x), Two)) /\ LeR(SubR(Expected(SubR(x, WithinTolerance(x))), Two), seen)

\* The same seed gives the same draws; no seed and zero are the default one.
SameStream(a, b) == a = b \/ {a, b} \subseteq {<<>>, <<0>>, <<DefaultSeed>>}
Repeatable(call, draws) ==
  \A k \in DOMAIN answers :
    session.calls[k].op = "sample" /\ answers[k].raised = "none" /\ SameStream(session.calls[k].seed, call.seed)
    => IsPrefix(draws, answers[k].value) \/ IsPrefix(answers[k].value, draws)

Tuples(n, k) == {t \in [1..k -> 1..n] : \A i, j \in 1..k : t[i] = t[j] => i = j}
Average(S, Of(_)) == DivR(FoldSet(LAMBDA t, acc : AddR(Of(t), acc), Zero, S), Int2Rat(Cardinality(S)))
Products(q, t, factors) == FoldLeft(LAMBDA acc, i : MulR(acc, q[t[i]]), One, factors)
Cumulant(q, k) ==
  Average(Tuples(Len(q), k), LAMBDA t :
    LET Of(weight, factors) == MulR(Int2Rat(weight), Products(q, t, factors))
    IN  CASE k = 1 -> Of(1, <<1>>)
          [] k = 2 -> SubR(Of(1, <<1, 1>>), Of(1, <<1, 2>>))
          [] k = 3 -> Totalled(<<Of(1, <<1, 1, 1>>), Of(-3, <<1, 1, 2>>), Of(2, <<1, 2, 3>>)>>)
          [] k = 4 -> Totalled(<<Of(1, <<1, 1, 1, 1>>), Of(-4, <<1, 1, 1, 2>>), Of(-3, <<1, 1, 2, 2>>),
                                 Of(12, <<1, 1, 2, 3>>), Of(-6, <<1, 2, 3, 4>>)>>))
MomentRight(op, q, m) ==
  CASE op = "sample_mean"     -> m = Cumulant(q, 1)
    [] op = "sample_variance" -> m = Cumulant(q, 2)
    [] op = "sample_std_dev"  -> LeR(Zero, m) /\ MulR(m, m) = Cumulant(q, 2)
    [] op = "sample_skewness" -> /\ Sgn(m) = Sgn(Cumulant(q, 3))
                                 /\ MulR(MulR(m, m), PowR(Cumulant(q, 2), 3)) = PowR(Cumulant(q, 3), 2)
    [] op = "sample_kurtosis" -> MulR(m, PowR(Cumulant(q, 2), 2)) = Cumulant(q, 4)

\* The half-width in standard errors leaves the level inside.
AroundTheMean(q, i) ==
  LET half == MulR(Half, SubR(i.upper, i.lower))
      error == SquareRoot(DivR(Cumulant(q, 2), Int2Rat(Len(q))))
  IN  /\ AddR(i.lower, half) = Cumulant(q, 1)
      /\ IF error = Zero THEN half = Zero ELSE IsQuantile(Inside, DivR(half, error), i.level)

AtNumber(call) == call.x.is = "number"
DistributionPromise(d, call) ==
  CASE call.op \in {"pdf", "pmf"} -> IF AtNumber(call) THEN DensityRight(d, call.x.v, Value) ELSE Value = Zero
    [] call.op = "cdf"      -> Value = IF AtNumber(call) THEN Law(d, call.x.v) ELSE IF call.x.is = "inf" THEN One ELSE Zero
    [] call.op = "quantile" -> IsQuantile(LAMBDA x : Law(d, x), Value, call.p)
    [] call.op = "sample"   -> /\ Len(Value) = call.n /\ Repeatable(call, Value)
                               /\ call.n = Period => AsTheLaw(d, Value)
    [] call.op = "mean"     -> IF d.kind = "normal" THEN Law(d, Value) = Half ELSE Value = Expectation(d, LAMBDA k : k)
    [] call.op = "variance" -> VarianceRight(d, Value)
    [] call.op = "std_dev"  -> LeR(Zero, Value) /\ VarianceRight(d, MulR(Value, Value))

\* Calls that only keep what they are given.
AsGiven == {"Normal", "standard", "Binomial", "Bernoulli", "distribution_from_json", "ConfidenceInterval"}

StatisticPromise(call) ==
  CASE call.op = "normal_confidence_interval" -> AroundTheMean(call.data.values, Value)
    [] call.op = "normal_critical_value" -> LtR(Zero, Value) /\ IsQuantile(Inside, Value, call.level)
    [] call.op = "erf"      -> Value = IF AtNumber(call) THEN ErfSeries(call.x.v) ELSE Int2Rat(IF call.x.is = "inf" THEN 1 ELSE -1)
    [] call.op = "erfc"     -> Value = IF AtNumber(call) THEN SubR(One, ErfSeries(call.x.v)) ELSE Int2Rat(IF call.x.is = "inf" THEN 0 ELSE 2)
    [] call.op = "binomial_coefficient" -> Value = Int2Rat(Cardinality(kSubset(call.k, 1..call.n)))
    [] call.op \in Moments  -> MomentRight(call.op, call.data.values, Value)
    [] call.op = "width"    -> AddR(held.lower, Value) = held.upper
    [] call.op = "midpoint" -> SubR(Value, held.lower) = SubR(held.upper, Value)
    [] call.op = "contains" -> Value = LeR(Zero, MulR(SubR(call.x.v, held.lower), SubR(held.upper, call.x.v)))
    [] OTHER                -> DistributionPromise(held, call)

\* A mass is a count of subsets of trials however large the coefficient, a density the
\* slope of its law, a quantile the start of a plateau and never its end; one seed is one
\* stream, whose period follows the law; the moments are unbiased and an interval holds
\* its level (probabilities/binomial.rs:46-240, quantile_function.rs:61-116,
\* statistical_sampler.rs:55-121, statistical_moment.rs:42-170, pyfacade/stats.rs:191-887).
\* call.why: the exception, "none" where there should be no complaint.
StatisticsRight ==
  Answered("statistics") =>
    /\ Got.raised = Made.why
    /\ Fine /\ Made.op \notin AsGiven => StatisticPromise(Made)

-----------------------------------------------------------------------------
(* Backends. *)

FallThrough == {"BackendUnavailable", "OperatorUnsupported"}

Before(op) == {i \in DOMAIN answers : session.calls[i].op = op}
\* The n-th backend registered, with the room its registration asked for.
BackendOf(n) == LET i == CHOOSE i \in Before("register") : Cardinality({j \in Before("register") : j <= i}) = n
                IN  session.calls[i]
Capable(asked, does) == does.size <= asked.bytes \/ does.size = 1

AskPromise(asked, does) ==
  LET c == asked.backend.style = "c"
      declines == IF c THEN does.code = UNSUPPORTED /\ Capable(asked, does) ELSE does.raised \in FallThrough
      serves   == IF c THEN does.code = OK /\ does.is = "expression" /\ Capable(asked, does) ELSE does.raised = "none"
  IN  /\ (Got.raised \in FallThrough) = (~asked.backend.bound \/ declines)
      /\ Fine = (asked.backend.bound /\ serves)
      /\ Fine => Value = does.text

\* What was recorded after the last reset.
Tally(what) ==
  Cardinality({i \in Before("record") : session.calls[i].what = what /\ \A j \in Before("reset") : j < i})
RatioPromise ==
  LET successes == Tally("success")
      attempts == successes + Tally("failure")
  IN  IF attempts = 0 THEN Value = NoRatio
      ELSE IF attempts <= MaxTally THEN Value = Rat(successes, attempts)
      ELSE LeR(Zero, Value) /\ LeR(Value, One)

\* The next backend is tried exactly when this one is not bound or says it has not
\* the operator; any other failure ends the request, an answer that does not fit the
\* buffer or does not parse included, and a value is the one this call wrote.  The
\* ratio is of the calls since the last reset, and a ratio when the counters are full
\* (external/registry.rs:44-56, cpp_executor.rs:95-160, fallback.rs:97-138).
BackendsRight ==
  Answered("backend") =>
    CASE Made.op = "ask" -> AskPromise(BackendOf(Made.n), Made.does)
      [] Made.op = "register" -> Value = Cardinality(Before("register"))
      [] OTHER -> RatioPromise
=============================================================================
