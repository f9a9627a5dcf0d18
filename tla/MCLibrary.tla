----------------------------- MODULE MCLibrary -----------------------------
(***************************************************************************)
(* Sessions of each family: small matrices with every operation, tensors    *)
(* of several radices, terms around the cap of the derivative machine,      *)
(* equations with known roots, every prefixed unit, every short lexeme.     *)
(***************************************************************************)
EXTENDS LibraryPromises

S(object, calls) == [object |-> object, calls |-> calls]

MCElementary(f, r) ==
  CASE f = "Sin" -> AddR(MulR(r, Rat(1, 2)), Rat(1, 3))
    [] f = "Cos" -> SubR(Int2Rat(5), r)
    [] f = "Exp" -> AddR(r, Two)
    [] f = "Ln"  -> IF r = One THEN Zero ELSE SubR(r, Rat(1, 4))
    [] OTHER     -> MulR(r, r)

MCSpellings == [s \in {"auto", "Algebraic", "NUMERIC", "hybrid", "bogus", "Rectangular", "hann",
                       "Hamming", "Blackman", "Blackman-Harris", "flat"} |->
  CASE s = "Algebraic" -> "algebraic" [] s = "NUMERIC" -> "numeric"
    [] s = "Rectangular" -> "rectangular" [] s = "Hamming" -> "hamming" [] s = "Blackman" -> "blackman"
    [] s = "Blackman-Harris" -> "blackmanharris" [] OTHER -> s]
MCMalformed == {"", "a b"}
MCCallTable == [n \in {"sin", "sqrt", "exp", "ln", "abs", "pow", "floor"} |->
  CASE n = "sin" -> <<"Sin", 1>> [] n = "sqrt" -> <<"Sqrt", 1>> [] n = "exp" -> <<"Exp", 1>>
    [] n = "ln" -> <<"Ln", 1>> [] n = "abs" -> <<"Abs", 1>> [] n = "pow" -> <<"Power", 2>>
    [] n = "floor" -> <<"Floor", 1>>]
MCNumerals == [n \in {"0", "1", "2", "3", "8", "-2"} |->
  Int2Rat(CASE n = "0" -> 0 [] n = "1" -> 1 [] n = "2" -> 2 [] n = "3" -> 3 [] n = "8" -> 8 [] OTHER -> -2)]

-----------------------------------------------------------------------------
(* Matrices. *)

Ints(q) == [k \in DOMAIN q |-> Int2Rat(q[k])]
M2(q) == Matrix(2, 2, Ints(q))
M3(q) == Matrix(3, 3, Ints(q))
Empty == Matrix(0, 0, <<>>)
Wide == Matrix(2, 3, Ints(<<1, 2, 3, 4, 5, 6>>))
Four == Matrix(4, 4, Ints(<<1, 2, 0, 1, 0, 1, 3, 1, 2, 0, 1, 1, 1, 1, 0, 2>>))
Five == Matrix(5, 5, Ints(<<1, 2, 0, 1, 0, 0, 1, 3, 0, 1, 2, 0, 1, 1, 0, 1, 1, 0, 2, 3, 0, 0, 1, 0, 2>>))
Square == {M2(<<1, 2, 3, 4>>), M2(<<1, 2, 2, 4>>), M2(<<0, 1, 1, 0>>), M3(<<2, -1, 0, 1, 3, 2, 0, 1, 1>>),
           M3(<<1, 2, 3, 4, 5, 6, 7, 8, 9>>), M3(<<0, 0, 2, 3, 0, 0, 0, 5, 0>>), Four,
           Matrix(1, 1, <<Rat(5, 2)>>), Matrix(1, 1, <<Zero>>), Empty,
           Matrix(2, 2, <<Rat(1, 2), Rat(1, 3), Rat(-1, 2), Two>>)}

Mat(op) == [kind |-> "matrix", op |-> op, bad |-> FALSE, row |-> 0, col |-> 0]
AtCell(op, i, j) == [Mat(op) EXCEPT !.row = i, !.col = j]
With(op, B) == Mat(op) @@ [other |-> B]
Readings3 == {Zero, Int2Rat(2), Rat(-3, 2)}

Plainly == <<Mat("determinant"), Mat("inverse"), Mat("adjugate"), Mat("trace"), Mat("transpose"),
             Mat("shape"), Mat("to_rows")>>
Variants(M) == <<AtCell("minor", 0, 0), AtCell("minor", M.rows - 1, 0), AtCell("minor", 0, M.rows),
                 AtCell("cofactor", 0, 1), AtCell("cofactor", 1, 1), AtCell("get", 1, 0),
                 AtCell("get", 0, M.cols), AtCell("row", 1, 0), AtCell("row", M.rows, 0),
                 With("add", M), With("add", Wide), With("sub", Transpose(M)), With("matmul", M),
                 With("matmul", Wide), Mat("scalar_mul") @@ [by |-> Rat(-2, 3)],
                 Mat("char_poly") @@ [points |-> Readings3, var |-> "t"]>>

\* Each real eigenvalue with its multiplicity.
Spectra == {
  <<M2(<<2, 1, 1, 2>>), {<<One, 1>>, <<Int2Rat(3), 1>>}>>,
  <<M2(<<0, -1, 1, 0>>), {}>>,
  <<M2(<<1, 1, 0, 1>>), {<<One, 2>>}>>,      \* between two samples of the scan
  <<M2(<<3, 0, 0, 3>>), {<<Int2Rat(3), 2>>}>>,      \* on one
  <<M3(<<1, 0, 0, 0, 1, 0, 0, 0, 3>>), {<<One, 2>>, <<Int2Rat(3), 1>>}>>,
  <<M3(<<-1, 0, 0, 0, 2, 1, 0, 0, 2>>), {<<Int2Rat(-1), 1>>, <<Two, 2>>}>>,
  <<M3(<<2, 0, 0, 0, 3, 0, 0, 0, -1>>), {<<Two, 1>>, <<Int2Rat(3), 1>>, <<Int2Rat(-1), 1>>}>>,
  <<M3(<<1, 1, 0, 0, 1, 1, 0, 0, 1>>), {<<One, 3>>}>>,
  <<M3(<<0, 0, 1, 1, 0, 0, 0, 1, 0>>), {<<One, 1>>}>>,
  <<Matrix(2, 2, <<Rat(1, 3), Zero, One, Rat(-5, 3)>>), {<<Rat(1, 3), 1>>, <<Rat(-5, 3), 1>>}>>,
  <<Matrix(1, 1, <<Rat(5, 2)>>), {<<Rat(5, 2), 1>>}>>,
  <<Empty, {}>>, <<Wide, {}>>, <<Five, {}>> }

List(q) == [values |-> Ints(q), classes |-> {"int"}]
Made3(op, lists, bad) ==
  [Mat(op) EXCEPT !.bad = bad] @@
  [lists |-> lists, rows |-> Len(lists), cols |-> 2,
   cells |-> [values |-> FlattenSeq([k \in DOMAIN lists |-> lists[k].values]),
              classes |-> UNION {lists[k].classes : k \in DOMAIN lists}]]
TextRow == [values |-> Ints(<<1, 2>>), classes |-> {"int", "str"}]
Rows32 == <<List(<<1, 2>>), List(<<3, 4>>), List(<<5, 6>>)>>
Sized(op, r, c, bad) == [Mat(op) EXCEPT !.bad = bad] @@ [rows |-> r, cols |-> c]

MatrixSessions ==
  {S(M, Plainly) : M \in Square \cup {Wide, Five}} \cup {S(M, Variants(M)) : M \in Square \cup {Wide}}
  \cup {S(p[1], <<Mat("eigenvalues") @@ [spectrum |-> p[2]]>>) : p \in Spectra}
  \cup {S(Empty, <<Made3("new", Rows32, FALSE), Made3("from_rows", Rows32, FALSE), Made3("new", <<>>, FALSE),
                   Made3("from_rows", Append(Rows32, List(<<7>>)), TRUE), Made3("new", Append(Rows32, List(<<7>>)), TRUE),
                   Made3("from_rows", <<TextRow>>, TRUE), Made3("new", <<TextRow>>, TRUE),
                   Sized("zeros", 2, 3, FALSE), Sized("identity", 3, 3, FALSE),
                   Sized("zeros", 8, 8, TRUE), Sized("identity", 8, 8, TRUE)>>)}

-----------------------------------------------------------------------------
(* Tensors: a's cells are 1, 2, ... and b's 101, 102, ... *)

Tens(shape, from) == Tensor(shape, [n \in 1..Product(shape) |-> from + n])
Ten(op) == [kind |-> "tensor", op |-> op, bad |-> FALSE, axes |-> <<>>, others |-> <<>>]
TenBad(c) == [c EXCEPT !.bad = TRUE]
Along(op, axes) == [Ten(op) EXCEPT !.axes = axes]
Dotted(b, axes, others) == [Ten("tensordot") EXCEPT !.axes = axes, !.others = others] @@ [other |-> b]
Reads(shape) == Ten("strides") @@ [index |-> <<>>]
PutAt(index, v) == Ten("set") @@ [index |-> index, cell |-> v]
GetFrom(index) == Ten("get_at") @@ [index |-> index]
FlatCell(n) == Ten("cell") @@ [flat |-> n]
NewTensor(op, shape, count, bad) ==
  [Ten(op) EXCEPT !.bad = bad] @@ [shape |-> shape, cells |-> [values |-> [n \in 1..count |-> n], classes |-> {"int"}]]

T23 == Tens(<<2, 3>>, 0)
T33 == Tens(<<3, 3>>, 0)
T232 == Tens(<<2, 3, 2>>, 0)
T2222 == Tens(<<2, 2, 2, 2>>, 0)
B32 == Tens(<<3, 2>>, 100)
B23 == Tens(<<2, 3>>, 100)
B322 == Tens(<<3, 2, 2>>, 100)
B2 == Tens(<<2>>, 100)
Point0 == Tens(<<>>, 100)

TensorSessions == {
  S(T23, <<Along("permute", <<1, 0>>), Along("permute", <<0, 1>>), TenBad(Along("permute", <<0, 0>>)),
           TenBad(Along("permute", <<0>>)), TenBad(Along("contract", <<0, 1>>)), Reads(<<>>),
           Along("reshape", <<6>>), Along("reshape", <<1, 3, 2>>), TenBad(Along("reshape", <<4>>)),
           TenBad(Along("reshape", <<-1, -6>>)), TenBad(Along("reshape", <<1, 1, 1, 2, 3>>))>>),
  S(T23, <<Dotted(B32, <<1>>, <<0>>), Dotted(B32, <<0>>, <<1>>), Dotted(B32, <<1, 0>>, <<0, 1>>),
           Dotted(B322, <<1>>, <<0>>), Dotted(B322, <<0, 1>>, <<2, 0>>), Dotted(Point0, <<>>, <<>>),
           TenBad(Dotted(B32, <<1>>, <<1>>)), TenBad(Dotted(B32, <<1, 1>>, <<0, 0>>)),
           TenBad(Dotted(B32, <<1>>, <<0, 1>>)), TenBad(Dotted(B32, <<2>>, <<0>>))>>),
  S(T23, <<Ten("hadamard") @@ [other |-> B23], TenBad(Ten("hadamard") @@ [other |-> B32]),
           Ten("outer") @@ [other |-> B2], Ten("outer") @@ [other |-> Point0],
           TenBad(Ten("outer") @@ [other |-> T2222])>>),
  S(T33, <<Along("contract", <<0, 1>>), TenBad(Along("contract", <<1, 1>>)), TenBad(Along("contract", <<0, 2>>))>>),
  S(T232, <<Along("contract", <<0, 2>>), Along("contract", <<2, 0>>), TenBad(Along("contract", <<0, 1>>)),
            Along("permute", <<2, 0, 1>>), Along("permute", <<1, 2, 0>>), Reads(<<>>),
            Dotted(B32, <<1>>, <<0>>), Dotted(B2, <<0>>, <<0>>), Dotted(B2, <<2>>, <<0>>)>>),
  S(T2222, <<Along("contract", <<1, 3>>), Along("contract", <<0, 1>>), Along("permute", <<3, 1, 0, 2>>),
             Dotted(T2222, <<1, 3>>, <<2, 0>>)>>),
  S(Tens(<<2, 0>>, 0), <<Along("permute", <<1, 0>>), Dotted(Tens(<<0, 2>>, 100), <<1>>, <<0>>), Reads(<<>>)>>),
  S(Point0, <<Ten("outer") @@ [other |-> T23], Along("permute", <<>>), GetFrom(<<>>), Along("reshape", <<1>>)>>),
  S(T23, <<PutAt(<<0, 1>>, 50), GetFrom(<<0, 1>>), PutAt(<<1, 1>>, 51), TenBad(PutAt(<<1, 3>>, 52)),
           TenBad(PutAt(<<2, 0>>, 53)), TenBad(PutAt(<<1>>, 54)), TenBad(PutAt(<<-1, 1>>, 55)), PutAt(<<0, 1>>, 56),
           TenBad(GetFrom(<<0, 3>>)), TenBad(GetFrom(<<0, -1>>)), FlatCell(1), TenBad(FlatCell(6)), GetFrom(<<0, 1>>)>>),
  S(Point0, <<NewTensor("new_tensor", <<2, 2>>, 4, FALSE), NewTensor("new_tensor", <<2, 2>>, 3, TRUE),
              NewTensor("zeros_tensor", <<2, 0, 3>>, 0, FALSE), NewTensor("zeros_tensor", <<6, 6, 0>>, 0, TRUE),
              NewTensor("cell_count", <<4, 5>>, 0, FALSE), NewTensor("cell_count", <<1, 1, 1, 1, 1, 1>>, 0, TRUE),
              NewTensor("cell_count", <<2, -2>>, 0, TRUE)>>) }

-----------------------------------------------------------------------------
(* Derivatives and integrals. *)

X == Var("x")
Y == Var("y")
Sq(t) == Mul(t, t)
F1(f, t) == Fn(f, <<t>>)
Cube == Mul(X, Sq(X))
Quadratic == Add(Sub(Sq(X), Mul(Lit(3), X)), Lit(2))
Tower == F1("Sin", F1("Exp", F1("Ln", X)))

Slopes == {
  X, Y, Lit(7), Add(X, Y), Sub(Lit(1), X), Sq(X), Cube, Quadratic, Mul(X, Y), Div(X, Y), Div(Y, X),
  Div(Sq(X), Add(X, Lit(1))), Pow(X, Lit(3)), Pow(X, Lit(-2)), Pow(Sq(X), Lit(2)), Pow(X, Y), Neg(X),
  F1("Sqrt", Mul(Lit(2), X)), F1("Exp", Sq(X)), F1("Ln", X), F1("Sin", Neg(X)), F1("Cos", Add(X, X)),
  F1("Tan", X), Tower, Mul(F1("Sin", X), F1("Cos", X)), Sub(X, Sub(X, Mul(Lit(2), X))),
  \* refused: no rule, or a frame too many
  F1("Abs", X), Fn("Add", <<X, X, X>>), Cond(X, X, Y), Cached(X), Mul(X, F1("Floor", X)),
  Mul(Sq(X), Sq(X)), Mul(Sq(X), Neg(Sq(X))), Mul(Sq(X), Mul(X, Sq(X))), F1("Sin", Tower) }

Calc(op, t) ==
  [kind |-> "calculus", op |-> op, bad |-> FALSE, term |-> t, names |-> <<"x">>, namesAs |-> {"list"}, alien |-> {},
   classes |-> {"Expression"}, finite |-> TRUE, order |-> 0, other |-> Lit(0),
   lo |-> Lit(0), hi |-> Lit(0), polynomial |-> FALSE, area |-> Zero]
Refuse3(call) == [call EXCEPT !.bad = TRUE]
Nth(t, n) == [Calc("differentiate_n", t) EXCEPT !.order = n]
Gradient(t, names) == [Calc("gradient", t) EXCEPT !.names = names]
Pair(op, t, u) == [Calc(op, t) EXCEPT !.other = u]
Between(op, t, a, b, area) ==
  [Calc(op, t) EXCEPT !.lo = Lit(a), !.hi = Lit(b), !.polynomial = TRUE, !.area = area]

DerivativeCalls ==
  {Calc("differentiate", t) : t \in Slopes}
  \cup {Nth(t, n) : t \in {X, Sq(X), Neg(X)}, n \in 0..2} \cup {Nth(Pow(X, Lit(3)), 1)}
  \cup {Refuse3(Nth(X, 9)), Refuse3(Gradient(X, <<>>)), Refuse3(Gradient(X, <<"x", "a b">>)),
        Refuse3([Gradient(X, <<"x">>) EXCEPT !.namesAs = {"str"}]),
        Refuse3([Gradient(X, <<"x", "y", "">>) EXCEPT !.alien = {2}]),
        Refuse3([Calc("differentiate", X) EXCEPT !.names = <<"">>]),
        Refuse3([Calc("differentiate", X) EXCEPT !.classes = {"str"}]),
        Refuse3([Calc("diff_chain", X) EXCEPT !.other = X])}
  \cup {Gradient(t, <<"x", "y">>) : t \in {Mul(X, Y), Div(X, Y), Sub(Sq(Y), X), F1("Abs", X)}}
  \cup {Pair(op, t, u) : op \in {"diff_sum", "diff_product"}, t \in {Sq(X), F1("Exp", X)}, u \in {Neg(X), Y, F1("Abs", X)}}
  \cup {Pair("diff_chain", F1(f, Y), Sq(X)) : f \in {"Sin", "Sqrt", "Ln", "Negate"}}
  \cup {Pair("diff_chain", Add(X, X), Sq(X))}

Integrands == {
  Lit(3), Y, X, Add(X, Lit(1)), Sub(Sq(Y), X), Neg(X), Mul(Lit(3), X), Mul(X, Y), Div(X, Y), Div(Lit(2), X),
  Pow(X, Lit(2)), Pow(X, Lit(-1)), Pow(X, Lit(-3)), Pow(X, Neg(Lit(2))), Pow(Lit(2), X), Term("Function", "Pow", Int2Rat(3), <<X>>),
  F1("Exp", X), F1("Sin", X), F1("Cos", X), F1("Sqrt", Mul(Lit(1), X)),
  \* no rule
  Mul(X, X), Div(Y, Add(X, Lit(1))), Pow(X, X), Pow(Lit(1), X), F1("Ln", X), Cond(X, X, Y) }

\* What the test for constant factors sees, and what it does not.
SeenFactors == {
  Mul(Cached(Y), X), Div(Sq(Y), Cached(Lit(2))), Pow(X, Cached(Lit(2))), Mul(Cond(Y, Lit(3), Y), X),
  Mul(Cond(Lit(1), X, Y), X), Mul(Sub(Cached(Y), Neg(X)), X),
  Cached(X), Mul(Cached(X), X), Mul(X, Add(Cached(Sq(X)), Y)), Div(X, Cached(Add(X, Lit(1)))), Div(Cached(X), X), Pow(Cached(X), X) }
Bodies ==
  {Mul(b, X) : b \in {SumOver("k", Lit(1), Y, X), Term("Product", "k", Zero, <<Lit(1), Lit(2), X>>), Term("Limit", "t", One, <<Lit(0), X>>)}}
  \cup {Mul(b, Y) : b \in {SumOver("k", Lit(1), X, Y), Term("Product", "k", Zero, <<Lit(1), Lit(2), Y>>), Term("Limit", "t", One, <<X, Y>>)}}

IntegralCalls ==
  {Calc("integrate", t) : t \in Integrands \cup SeenFactors \cup Bodies}
  \cup {Between("integrate_definite", Add(X, Lit(1)), 0, 2, Int2Rat(4)),
        Between("integrate_definite", Pow(X, Lit(2)), 2, -1, Int2Rat(-3)),
        Between("integrate_definite", Mul(X, X), 3, 0, Int2Rat(-9)),
        Between("integrate_definite", Mul(X, Sq(X)), -2, 2, Zero),
        Between("integrate_definite", Mul(Lit(4), Cube), 0, 2, Int2Rat(16)),
        Between("integrate_numeric", Cube, 0, 2, Int2Rat(4)),
        Between("integrate_numeric", Quadratic, 2, 1, Rat(1, 6)),
        Between("integrate_numeric", Quadratic, 1, 1, Zero),
        Refuse3(Between("integrate_numeric", Div(Lit(1), X), -1, 1, Zero)),
        Refuse3([Between("integrate_definite", X, 0, 1, Zero) EXCEPT !.finite = FALSE]),
        Refuse3([Between("integrate_definite", Mul(X, X), 0, 1, Zero) EXCEPT !.hi = Y]),
        Refuse3([Between("integrate_numeric", X, 0, 1, Zero) EXCEPT !.finite = FALSE])}

\* A refused call between two others finds the machine as it left it.
CalculusSessions ==
  {S(Nothing, <<c>>) : c \in DerivativeCalls \cup IntegralCalls}
  \cup {S(Nothing, <<Calc("differentiate", F1("Abs", X)), Calc("differentiate", Mul(Mul(Sq(X), Sq(X)), Mul(X, Sq(X)))),
                       Calc("differentiate", Sq(X))>>)}

-----------------------------------------------------------------------------
(* Roots and critical points. *)

MCNudge == Rat(1, 16)
Limits(tol, budget) == [tol |-> tol, flat |-> Rat(1, 64), slack |-> Rat(1, 64), budget |-> budget]
Tight(budget) == Limits(Rat(1, 64), budget)
Search(op, lo, hi, limits) ==
  [kind |-> "numerical", op |-> op, bad |-> FALSE, names |-> <<"x">>, classes |-> {"Expression"},
   finite |-> TRUE, lo |-> lo, hi |-> hi, limits |-> limits]
Fails(call) == [call EXCEPT !.bad = TRUE]

Studied(term, turns, bends) == [term |-> term, turns |-> turns, bends |-> bends, smooth |-> TRUE]
Rough(term) == [term |-> term, turns |-> {}, bends |-> {}, smooth |-> FALSE]
Turn(at, kind) == [at |-> at, kind |-> kind]

SquareAt(r) == Studied(Sq(Sub(X, Num(r))), {Turn(r, "minimum")}, {})
Swing == Studied(Sub(Mul(Lit(3), X), Cube), {Turn(NegR(One), "minimum"), Turn(One, "maximum")}, {Zero})
\* It bends at the roots of 1/3, here the nearest fifty-second.
TwoWells == Studied(Sub(Mul(Sq(X), Sq(X)), Mul(Lit(2), Sq(X))),
                  {Turn(NegR(One), "minimum"), Turn(Zero, "maximum"), Turn(One, "minimum")},
                  {Rat(-15, 26), Rat(15, 26)})
Smooth == {
  SquareAt(Zero), SquareAt(Rat(1, 4)), SquareAt(Rat(1, 3)), Swing, Studied(Neg(Sq(X)), {Turn(Zero, "maximum")}, {}),
  Studied(Cube, {}, {Zero}), Studied(Pow(X, Lit(3)), {}, {Zero}), Studied(Mul(Sq(X), Sq(X)), {Turn(Zero, "inconclusive")}, {}),
  Studied(Lit(5), {}, {}), Studied(Add(Mul(Lit(2), X), Lit(1)), {}, {}) }

Ranges == {<<Int2Rat(-2), Two>>, <<Int2Rat(-3), Int2Rat(3)>>, <<NegR(One), Two>>, <<Rat(-3, 2), Rat(5, 2)>>}
SearchOps == <<"find_stationary_points", "find_extrema", "find_inflection_points", "analyze_intervals">>
Searches(r, limits) == [k \in DOMAIN SearchOps |-> Search(SearchOps[k], r[1], r[2], limits)]

WellBehaved ==
  {S(c, Searches(r, Tight(n))) : c \in Smooth, r \in Ranges, n \in {4, 6}}
  \cup {S(c, Searches(<<NegR(One), One>>, Tight(n))) : c \in Smooth \cup {TwoWells}, n \in {1, 2}}
  \cup {S(c, Searches(<<Zero, Zero>>, Tight(4))) : c \in {SquareAt(Zero), Swing}}
  \cup {S(c, Searches(<<Int2Rat(-2), Two>>, Limits(One, 4))) : c \in {Swing, SquareAt(Rat(1, 3)), TwoWells}}
  \cup {S(c, <<Search("analyze_point", p, p, Tight(4)), Search("classify_point", p, p, Tight(4))>>) :
          c \in Smooth, p \in {Zero, One, Rat(1, 4), Rat(-5, 4)}}

\* Where a derivative has a value the function may not, and a pole can lie in a bracket.
Hyperbola == Rough(Div(Lit(1), X))
Logarithm == Rough(Add(F1("Ln", X), X))
Unruly(c, r, n, doomed) ==
  S(c, [k \in 1..4 |-> [Searches(r, Tight(n))[k] EXCEPT !.bad = SearchOps[k] \in doomed]])
UnrulySessions == {
  Unruly(Hyperbola, <<Int2Rat(-2), Int2Rat(4)>>, 2, {}), Unruly(Hyperbola, <<Int2Rat(-2), Two>>, 4, {}),
  Unruly(Hyperbola, <<Zero, Two>>, 4, Range(SearchOps)), Unruly(Logarithm, <<Rat(1, 2), Two>>, 2, {}),
  Unruly(Logarithm, <<Int2Rat(-2), Two>>, 4, Range(SearchOps) \ {"find_inflection_points"}),
  Unruly(Rough(F1("Abs", X)), <<Zero, Two>>, 4, Range(SearchOps)), Unruly(Rough(Mul(X, Y)), <<Zero, Two>>, 4, Range(SearchOps)) }

Loose == Rat(1, 16)
Bisect(lo, hi, n) == Search("find_root_bisection", lo, hi, Limits(Loose, n))
Secant(lo, hi, n) == Search("find_root_secant", lo, hi, Limits(Loose, n))
Newton(p, n) == Search("find_root_newton_raphson", p, p, Limits(Rat(1, 64), n))
RootSessions == {
  S(Rough(Sub(X, Num(Rat(1, 4)))), <<Bisect(NegR(One), One, 3), Fails(Bisect(NegR(One), One, 2)), Bisect(Rat(1, 4), One, 1),
     Bisect(Zero, Rat(1, 4), 1), Fails(Bisect(One, Two, 8)), Fails(Bisect(One, One, 8)), Bisect(Rat(1, 4), Rat(1, 4), 1), Newton(Two, 2)>>),
  S(Rough(Sub(Sq(X), Lit(2))), <<Bisect(One, Two, 6), Fails(Bisect(Int2Rat(-2), Two, 8)), Newton(One, 3), Fails(Newton(One, 2)),
     Fails(Newton(Zero, 8)), Secant(One, Two, 4), Secant(One, Two, 2), Fails(Secant(One, Two, 1)),
     Fails(Secant(NegR(One), One, 4)), Secant(Two, One, 4)>>),
  S(Hyperbola, <<Fails(Bisect(NegR(One), One, 8)), Fails(Bisect(NegR(One), Two, 4)), Fails(Secant(One, Two, 3)), Fails(Newton(Zero, 2))>>),
  S(Rough(Add(Lit(1), Div(Lit(1), X))), <<Fails(Secant(Two, Rat(-2, 3), 4)), Fails(Secant(Zero, One, 4)), Secant(NegR(One), One, 1)>>),
  S(Rough(F1("Abs", X)), <<Fails(Newton(One, 4)), Secant(One, Two, 2), Fails(Search("classify_point", One, One, Tight(4)))>>) }

Everything == <<Bisect(NegR(One), One, 3), Newton(One, 3), Secant(NegR(One), One, 3)>>
              \o Searches(<<NegR(One), One>>, Tight(4)) \o <<Search("analyze_point", One, One, Tight(4))>>
Misused(call) == {
  [call EXCEPT !.names = <<"">>], [call EXCEPT !.classes = {"bool"}], [call EXCEPT !.finite = FALSE],
  [call EXCEPT !.limits.tol = Zero], [call EXCEPT !.limits.budget = 0], [call EXCEPT !.limits.budget = MaxIterations + 1] }
MisuseSessions ==
  {S(Swing, <<Fails(c), Search("classify_point", One, One, Tight(4))>>) : c \in UNION {Misused(Everything[k]) : k \in DOMAIN Everything}}
  \cup {S(Swing, <<Fails(Search(op, One, Zero, Tight(4)))>>) : op \in Range(SearchOps) \cup {"find_root_bisection"}}
  \cup {S(Swing, <<Fails(Secant(One, One, 3))>>)}

CriticalSessions == WellBehaved \cup UnrulySessions \cup RootSessions \cup MisuseSessions

-----------------------------------------------------------------------------
(* Equations. *)

NoMatrix == M2(<<1, 0, 0, 1>>)
Eq(op, lhs, rhs, strategy, roots) ==
  [kind |-> "analysis", op |-> op, bad |-> FALSE, lhs |-> lhs, rhs |-> rhs, names |-> <<"x">>, strategy |-> strategy,
   classes |-> {"Expression"}, closed |-> TRUE, roots |-> roots, poles |-> {}, monic |-> <<Zero, Zero>>]
Solve(t, roots) == Eq("solve", t, Lit(0), "auto", {Int2Rat(r) : r \in roots})
Scan(t, roots) == [Eq("solve", t, Lit(0), "NUMERIC", roots) EXCEPT !.closed = FALSE]
Poles(t, roots, poles) == [Scan(t, roots) EXCEPT !.poles = poles]
RefuseEq(c) == [c EXCEPT !.bad = TRUE]
Cubic(a) == Mul(Sub(X, Num(a)), Add(Sq(X), Lit(1)))
Thirds == Mul(X, Mul(Sub(X, Lit(3)), Add(X, Lit(3))))

System(equations, names, matrix) ==
  [kind |-> "analysis", op |-> "solve_system", bad |-> FALSE, equations |-> equations, names |-> names,
   strategy |-> "auto", listAs |-> {"list"}, classes |-> {"Expression"}, matrix |-> matrix]
Z == Var("z")
Sum3 == Add(X, Add(Y, Z))

EquationCalls == {
  Solve(Quadratic, {1, 2}), Solve(Sub(Sq(X), Mul(Lit(2), X)), {0, 2}), Solve(Sq(X), {0}),
  Solve(Sub(Mul(Lit(3), X), Lit(6)), {2}), Solve(Sub(Add(X, Lit(1)), X), {}),
  Solve(Add(Sq(Add(X, Lit(1))), Mul(Lit(4), Add(X, Lit(2)))), {-3}),
  [Solve(Add(Mul(Lit(2), Sq(X)), Lit(4)), {}) EXCEPT !.monic = <<Zero, Two>>],
  [Solve(Add(Sub(Sq(X), Mul(Lit(2), X)), Lit(5)), {}) EXCEPT !.monic = <<Int2Rat(-2), Int2Rat(5)>>],
  Eq("solve_equation", Sq(X), Lit(4), "Algebraic", {Two, Int2Rat(-2)}),
  Eq("solve_equation", Mul(Lit(2), X), Add(X, Lit(3)), "hybrid", {Int2Rat(3)}),
  Scan(Quadratic, {One, Two}), Scan(Cubic(Rat(5, 2)), {Rat(5, 2)}), Scan(Sub(Cube, Num(Rat(1, 27))), {Rat(1, 3)}),
  [Scan(Thirds, {Int2Rat(-3), Zero, Int2Rat(3)}) EXCEPT !.strategy = "auto"],
  Poles(Div(Lit(1), Sub(Mul(Lit(2), X), Lit(1))), {}, {Rat(1, 2)}), Scan(Add(Sq(X), Lit(1)), {}),
  Poles(Div(Sub(X, Num(Rat(1, 3))), X), {Rat(1, 3)}, {Zero}),
  Poles(Div(Lit(1), Sub(Mul(Lit(3), X), Lit(1))), {}, {Rat(1, 3)}),
  Poles(Div(Add(X, Lit(1)), Sub(Lit(7), Mul(Lit(3), X))), {Int2Rat(-1)}, {Rat(7, 3)}),
  Scan(Div(Lit(1), Sq(Sub(Mul(Lit(3), X), Lit(1)))), {}),
  RefuseEq(Solve(Sub(X, X), {})), RefuseEq([Solve(Thirds, {}) EXCEPT !.strategy = "Algebraic"]),
  RefuseEq([Solve(X, {}) EXCEPT !.strategy = "bogus"]), RefuseEq([Solve(X, {}) EXCEPT !.strategy = "hann"]),
  RefuseEq([Solve(X, {}) EXCEPT !.names = <<"a b">>]), RefuseEq([Solve(X, {}) EXCEPT !.classes = {"str"}]),
  System(<<<<Add(X, Y), Lit(3)>>, <<Sub(X, Y), Lit(1)>>>>, <<"x", "y">>, M2(<<1, 1, 1, -1>>)),
  System(<<<<Y, Lit(1)>>, <<Mul(Lit(2), X), Lit(5)>>>>, <<"x", "y">>, M2(<<0, 1, 2, 0>>)),
  System(<<<<Add(X, Y), Lit(1)>>, <<Mul(Lit(2), Add(Y, X)), Lit(2)>>>>, <<"x", "y">>, M2(<<1, 1, 2, 2>>)),
  System(<<<<Sub(Sum3, Y), Lit(4)>>, <<Sum3, Lit(6)>>, <<Add(Mul(Lit(3), Y), Neg(Z)), Lit(3)>>>>, <<"x", "y", "z">>,
         M3(<<1, 0, 1, 1, 1, 1, 0, 3, -1>>)),
  System(<<<<Add(Y, Z), Lit(2)>>, <<Add(X, Z), Lit(3)>>, <<Sub(Y, X), Lit(-1)>>>>, <<"x", "y", "z">>,
         M3(<<0, 1, 1, 1, 0, 1, -1, 1, 0>>)),
  RefuseEq(System(<<<<Sq(X), Y>>, <<Y, Lit(1)>>>>, <<"x", "y">>, NoMatrix)),
  RefuseEq(System(<<<<F1("Sqrt", X), Y>>, <<Y, Lit(1)>>>>, <<"x", "y">>, NoMatrix)),
  RefuseEq(System(<<<<X, Lit(1)>>>>, <<"x", "y">>, NoMatrix)), RefuseEq(System(<<>>, <<>>, NoMatrix)),
  RefuseEq(System(<<<<X, Lit(1)>>>>, <<"">>, NoMatrix)) }

\* A product of two unknowns is affine along each axis.
CrossedSystems == {S(Nothing, <<c>>) : c \in {d \in EquationCalls : d.op = "solve_system"} \cup {
  System(<<<<Add(Mul(X, Y), X), Lit(2)>>, <<Y, Lit(1)>>>>, <<"x", "y">>, NoMatrix)}}

CoefficientValues == <<Two, Int2Rat(-1), Rat(1, 2)>>
Coefficients(names) == [v \in Range(names) |-> CoefficientValues[CHOOSE k \in DOMAIN names : names[k] = v]]
SumCall(op, names, pairs, coefficients, bad) ==
  [kind |-> "termsum", op |-> op, bad |-> bad, var |-> "x", names |-> names, pairs |-> pairs,
   inputs |-> [v \in {"x", "c1"} |-> Int2Rat(3)], coefficients |-> coefficients, values |-> SubSeq(CoefficientValues, 1, Len(names))]
ABC == <<"c0", "c1", "c2">>
SumCalls == {
  SumCall("polynomial", ABC, <<>>, Coefficients(ABC), FALSE), SumCall("polynomial", <<"c0">>, <<>>, Coefficients(ABC), FALSE),
  SumCall("polynomial", ABC, <<>>, Coefficients(<<"c0", "c1">>), TRUE), SumCall("polynomial", <<"c0", "x">>, <<>>, Coefficients(<<"c0", "x">>), TRUE),
  SumCall("pairs", <<>>, <<>>, Coefficients(ABC), FALSE), SumCall("pairs", <<>>, <<<<"c0", X>>, <<"c0", Sq(X)>>>>, Coefficients(ABC), TRUE),
  SumCall("pairs", ABC, <<<<"c0", Lit(1)>>, <<"c1", X>>, <<"c2", Mul(X, X)>>>>, Coefficients(ABC), FALSE),
  SumCall("pairs", <<"c0">>, <<<<"c0", Div(Lit(1), Sub(X, Lit(3)))>>>>, Coefficients(ABC), TRUE) }

EquationSessions == {S(Nothing, <<c>>) : c \in EquationCalls \cup SumCalls}

-----------------------------------------------------------------------------
(* Transforms: one signal of each kind under each window. *)

Signal(a0, a1, b1) ==
  [k \in 1..7 |-> AddR(a0, AddR(MulR(a1, CosSixth(k - 1)), MulR(MulR(Rat(3, 4), b1), SinSixth(k - 1))))]
Config(window, harmonics, threshold) ==
  [samples |-> 6, harmonics |-> harmonics, range |-> "up", accuracy |-> "none", window |-> window, threshold |-> threshold]
Four3(op) == [kind |-> "fourier", op |-> op, bad |-> FALSE]
Configure(c, bad) == [Four3("config") EXCEPT !.bad = bad] @@ [config |-> c]
Transform(values, constant) ==
  Four3("transform") @@ [values |-> values, constant |-> constant, names |-> <<"t">>, classes |-> {"Expression"}]
\* A pole at the k-th abscissa.
PoleAtSample(c, k) == [c EXCEPT !.values[k] = NoSample, !.bad = TRUE]
NoConfig == Config("none", 1, Zero)

Good == {Config(w, h, t) : w \in {"Rectangular", "hann", "Hamming", "Blackman", "Blackman-Harris"}, h \in 1..2, t \in {Zero, One}}
Bad == {[Config("hann", 1, Zero) EXCEPT !.samples = 1], [Config("hann", 1, Zero) EXCEPT !.samples = 99], Config("hann", 0, Zero),
        Config("hann", 99, Zero), [Config("hann", 1, Zero) EXCEPT !.range = "down"], Config("flat", 1, Zero),
        [Config("hann", 1, Zero) EXCEPT !.accuracy = "inf"]}
FourierSessions ==
  {S(NoConfig, <<Configure(c, FALSE), Transform(Signal(Two, Zero, Zero), TRUE), Four3("empty"),
                 Transform(Signal(One, Two, Int2Rat(-1)), FALSE), Transform(Signal(Zero, Rat(1, 2), Zero), FALSE)>>) : c \in Good}
  \cup {S(NoConfig, <<Configure(c, FALSE), PoleAtSample(Transform(Signal(One, Two, One), FALSE), k), Four3("empty")>>) :
          c \in Good, k \in {1, 4, 7}}
  \cup {S(NoConfig, <<Configure(Config("Rectangular", 1, Zero), FALSE), Configure(c, TRUE),
                      Transform(Signal(One, Two, One), FALSE),
                      [Transform(Signal(One, Two, One), FALSE) EXCEPT !.bad = TRUE, !.names = <<"">>],
                      [Transform(Signal(One, Two, One), FALSE) EXCEPT !.bad = TRUE, !.classes = {"str"}]>>) : c \in Bad}

-----------------------------------------------------------------------------
(* Text: every operator under every operator, in each target. *)

Shallow == {X, Lit(2), Lit(-2), Neg(X), Pow(X, Lit(2))} \cup {Fn(f, <<X, Lit(2)>>) : f \in DOMAIN InfixSign}
Deep == {Fn(f, <<a, b>>) : f \in DOMAIN InfixSign \cup {"Power"}, a \in Shallow, b \in Shallow}
        \cup {Neg(a) : a \in Shallow} \cup {F1(f, a) : f \in {"Sin", "Ln", "Exp"}, a \in {Neg(X), Add(X, Lit(2))}}
Emitting(t, bad) == [k \in 1..3 |-> [kind |-> "text", op |-> "emit", bad |-> bad, target |-> <<"Text", "Glsl", "EmlRpn">>[k]]]
Names == [kind |-> "text", op |-> "free_variables"]
Lexing(s) == [kind |-> "text", op |-> "lex", bytes |-> s]
Parsing(tokens, means) == [kind |-> "text", op |-> "parse", tokens |-> tokens, means |-> means]
Readable(tokens, t) == Parsing(tokens, [error |-> "none", term |-> t])
Unreadable(tokens, e) == Parsing(tokens, [error |-> e])

Sentences == {
  Readable(<<"x", "-", "2", "-", "x">>, Sub(Sub(X, Lit(2)), X)), Readable(<<"2", "^", "3", "^", "2">>, Lit(512)),
  Readable(<<"-", "x", "^", "2">>, Neg(Sq(X))), Readable(<<"x", "^", "-", "2">>, Div(Lit(1), Sq(X))),
  Readable(<<"x", "/", "2", "*", "x">>, Mul(Div(X, Lit(2)), X)), Readable(<<"8", "%", "3", "*", "x">>, Add(X, X)),
  Readable(<<"x", "+", "2", "*", "x">>, Mul(Lit(3), X)), Readable(<<"(", "x", "+", "2", ")", "*", "x">>, Add(Sq(X), Add(X, X))),
  Readable(<<"+", "-", "+", "x">>, Neg(X)), Readable(<<"pow", "(", "x", ",", "2", ")">>, Sq(X)),
  Readable(<<"3", "*", "sqrt", "(", "2", "*", "x", ")", "-", "y">>, Sub(Mul(Lit(3), F1("Sqrt", Add(X, X))), Y)),
  Readable(<<"-", "2", "^", "2">>, Lit(-4)), Readable(<<"floor", "(", "x", ")", "^", "2">>, Sq(F1("Floor", X))),
  Unreadable(<<>>, "empty"), Unreadable(<<"x", "+">>, "unexpected end"), Unreadable(<<"(", "x">>, "unexpected end"),
  Unreadable(<<"x", ")">>, "trailing input"), Unreadable(<<"x", "x">>, "trailing input"), Unreadable(<<"*", "x">>, "expected"),
  Unreadable(<<"sin", "(", ")">>, "expected"), Unreadable(<<"sin", "(", "x", "2">>, "expected"), Unreadable(<<"(", "x", ",", "x", ")">>, "expected"),
  Unreadable(<<"foo", "(", "x", ")">>, "unknown function"), Unreadable(<<"pow", "(", "x", ")">>, "wrong arity"),
  Unreadable(<<"sin", "(", "x", ",", "2", ")">>, "wrong arity"), Unreadable(<<"x", "^">>, "unexpected end") }

\* Bytes of text: a character outside ASCII is two bytes, the first an "L".
Text8(s) == \A i \in DOMAIN s : (s[i] = "L" => i < Len(s) /\ s[i + 1] \in {"c", "m"})
                                /\ (s[i] \in {"c", "m"} => i > 1 /\ s[i - 1] = "L")
Strings == {s \in UNION {[1..n -> {"9", ".", "e", "s", "o", "a", " ", "?", "L", "c", "m"}] : n \in 0..3} : Text8(s)}
           \cup [1..4 -> {"9", ".", "e", "s"}]

TextSessions ==
  {S(t, Emitting(t, FALSE) \o <<Names>>) : t \in Shallow \cup Deep}
  \cup {S(t, Emitting(t, TRUE)) : t \in {F1("Tan", X), Add(X, F1("Tan", X)), Cond(X, X, Y), Neg(Cached(X))}}
  \cup {S(Nothing, <<Lexing(s)>>) : s \in Strings} \cup {S(Nothing, <<c>>) : c \in Sentences}

-----------------------------------------------------------------------------
(* Units: every prefix before every unit. *)

UnitOp(op) == [kind |-> "unit", op |-> op, bad |-> FALSE]
BadUnit(c) == [c EXCEPT !.bad = TRUE]
Beside(other) == UnitOp("is_compatible_with") @@ [other |-> other]
Named1(op, symbol) == UnitOp(op) @@ [symbol |-> symbol]
Conv(n, p, from, to) == UnitOp("convert") @@ [value |-> <<n, p>>, symbol |-> from, to |-> to]
Endless(c) == BadUnit([c EXCEPT !.value = NonFinite])
Dim7(a, b, c) == <<a, b, c, 0, 0, 0, 0>>
OfDim(op, a, b) == UnitOp(op) @@ [exps |-> a, by |-> b]
Powered(op, a, n) == UnitOp(op) @@ [exps |-> a, n |-> n]
Symbolic(exps) == UnitOp("dimension_symbol") @@ [exps |-> exps]
km == <<"k", "m">>
hPa == <<"h", "P", "a">>
Unknown == {<<"x">>, <<"k">>, <<"k", "k", "m">>, <<"d", "a">>, <<"m", "m", "m">>, <<"c">>}

SymbolCalls(symbol) ==
  <<UnitOp("split_symbol"), UnitOp("scale_to_base"), UnitOp("is_base_unit"), Beside(km), Beside(<<"k", "J">>), Beside(<<"x">>)>>
Measured(symbol) ==
  <<UnitOp("dimension_exponents"), UnitOp("is_dimensionless"), Conv(3, 0, symbol, symbol)>>
  \o [k \in 1..2 |-> Named1(<<"new_unit", "split_unit_symbol">>[k], symbol)]
Conversions == <<
  Conv(5, 0, km, <<"m">>), Conv(5, 3, <<"m">>, km), Conv(7, 0, hPa, <<"k", "P", "a">>), Conv(2, 0, <<"d", "a", "m">>, <<"d", "m">>),
  Conv(1, 248, <<"Q", "m">>, <<"q", "m">>), BadUnit(Conv(1, 249, <<"Q", "m">>, <<"q", "m">>)), Conv(1, 300, <<"q", "m">>, <<"Q", "m">>),
  Conv(1, 308, <<"Q", "s">>, <<"Q", "s">>), Conv(4, 0, <<"J">>, <<"k", "J">>), Conv(4, 0, <<"H", "z">>, <<"B", "q">>),
  BadUnit(Conv(1, 0, km, <<"s">>)), BadUnit(Conv(1, 0, km, <<"x">>)), BadUnit(Conv(1, 0, <<>>, km)), BadUnit(Conv(1, 0, km, <<"m", " ">>)),
  Endless(Conv(1, 0, km, <<"m">>)), Endless(Conv(1, 0, km, km)), Endless(Conv(1, 0, km, <<"x">>)) >>
Algebra == <<
  OfDim("multiply", Dim7(1, -2, 30), Dim7(0, 1, 2)), OfDim("multiply", Dim7(1, -2, 30), Dim7(0, 1, 3)), OfDim("divide", Dim7(1, -20, 0), Dim7(1, 12, 3)),
  OfDim("divide", Dim7(1, -20, 0), Dim7(1, 13, 3)), Powered("powi", Dim7(1, -4, 8), 4), Powered("powi", Dim7(1, -4, 8), 5),
  Powered("powi", Dim7(1, -4, 8), -4), Powered("powi", Dim7(1, 0, 0), 0), Powered("nth_root", Dim7(4, -6, 32), 2),
  Powered("nth_root", Dim7(4, -5, 0), 2), Powered("nth_root", Dim7(4, -6, 2), -2), Powered("nth_root", Dim7(4, 0, 0), 0), Powered("nth_root", Dim7(0, -7, 0), 3) >>
Lookups == <<
  Symbolic(Dim7(1, 1, -2)), Symbolic(Dim7(0, 0, -1)), Symbolic(Dim7(1, 0, 0)), Symbolic(Dim7(0, 0, 0)), Symbolic(Dim7(5, 0, 0)), Symbolic(Dim7(32, 0, 0)),
  BadUnit(Symbolic(Dim7(33, 0, 0))), BadUnit(Symbolic(<<1, 2>>)), Named1("prefix_power", <<"d", "a">>), Named1("prefix_power", <<"x">>),
  Named1("dimension_of", <<"N">>), Named1("dimension_of", <<"m", "o", "l">>), Named1("dimension_of", <<"k", "N">>), Named1("si_lookup", <<"K">>), Named1("si_lookup", <<"N">>),
  BadUnit(Named1("new_unit", <<>>)), BadUnit(Named1("new_unit", <<"m", " ">>)), BadUnit(Named1("dimension_of", [k \in 1..9 |-> "m"])) >>

UnitSessions ==
  {S([symbol |-> p.symbol \o u], SymbolCalls(p.symbol \o u)) : p \in SIPrefixes, u \in KnownUnits}
  \cup {S([symbol |-> u], SymbolCalls(u) \o Measured(u)) : u \in KnownUnits}
  \cup {S([symbol |-> u], SymbolCalls(u) \o <<BadUnit(UnitOp("is_dimensionless"))>>) : u \in Unknown}
  \cup {S([symbol |-> <<"m">>], calls) : calls \in {Conversions, Algebra, Lookups}}

-----------------------------------------------------------------------------
(* Expressions, integers, variables. *)

Do(op) == [kind |-> "expression", op |-> op, bad |-> FALSE]
BadDo(c) == [c EXCEPT !.bad = TRUE]
Applied2(f, class, other, reflected) == Do("binary") @@ [name |-> f, class |-> class, other |-> other, reflected |-> reflected]
Applied1(f, class, other) == Do("unary") @@ [name |-> f, class |-> class, other |-> other]
Atomic(op, class, name, names) == Do(op) @@ [class |-> class, name |-> name, value |-> Absent, other |-> Lit(1), names |-> names]
Builders ==
  [n \in 1..5 |-> Applied2(<<"Add", "Subtract", "Multiply", "Divide", "Power">>[n], "int", Lit(2), n % 2 = 0)]
  \o [n \in 1..5 |-> Applied2(<<"Add", "Subtract", "Multiply", "Divide", "Power">>[n], "bool", Lit(1), n % 2 = 1)]
  \o [n \in 1..6 |-> Applied1(<<"Sin", "Cos", "Tan", "Exp", "Ln", "Sqrt">>[n], "Expression", Y)]
  \o <<BadDo(Applied2("Add", "str", X, FALSE)), BadDo(Applied1("Sin", "list", X)), Do("neg"), Atomic("number", "int", "", {}),
       BadDo(Atomic("number", "bool", "", {})), Atomic("variable", "str", "q", {"q"}), Atomic("constant", "str", "pi", {})>>

Valued(env) == Do("evaluate") @@ [env |-> env, keys |-> {"str"}, values |-> {"float", "int"}]
AtXY == [v \in {"x", "y"} |-> IF v = "x" THEN Rat(3, 2) ELSE Int2Rat(-1)]
AtX == [v \in {"x"} |-> Two]
Misbound == <<BadDo([Valued(AtX) EXCEPT !.keys = {"str", "int"}]), BadDo([Valued(AtX) EXCEPT !.values = {"str"}])>>
Pi == Term("Constant", "pi", Rat(22, 7), <<>>)
Unvalued == Term("Constant", "tau", Absent, <<>>)
NotNumber == Term("Number", "nan", Zero, <<>>)
LimitAt(x, at, side, body) == Term("Limit", x, side, <<at, body>>)
Missing == F1("Ln", Var("z"))
Evaluations ==
  {Sub(X, Y), Div(Y, Sub(X, Lit(2))), Add(Div(X, Lit(0)), Y), Add(Y, Div(X, Lit(0))), Cond(X, Lit(1), Y), Cond(Sub(X, X), Y, Lit(4)),
   F1("Ln", Y), F1("Sqrt", Y), Add(F1("Sqrt", Y), X), Cond(F1("Ln", Y), X, Lit(3)), Pow(F1("Ln", Lit(-2)), X), Div(F1("Ln", Lit(-2)), Lit(0)),
   Pow(Y, X), Pow(Div(X, Lit(3)), Lit(-2)), F1("Abs", Y), F1("Floor", Neg(X)), F1("Log", X), F1("Gamma", X), Fn("Subtract", <<X>>), Fn("Negate", <<X, Y>>),
   Fn("Add", <<Fn("Sin", <<>>), Missing>>), Add(SumOver("k", Missing, X, Y), Missing), Add(Missing, LimitAt("x", Y, One, X)),
   Mul(Missing, Div(X, Lit(0))), Mul(Div(X, Lit(0)), Missing), Cached(Mul(X, X)), F1("Sin", X), F1("Tan", X)}

Written2 == {F1("Sqrt", Sq(X)), F1("Abs", Neg(X)), Lit(12), Lit(-12), Pow(Pow(X, Lit(2)), Lit(3)), Mul(Mul(X, Lit(2)), X), Neg(Neg(X)),
             Fn("Subtract", <<X, Lit(2), Add(X, Lit(2))>>), Fn("Add", <<X, Y, Neg(X)>>), Sub(Sub(X, X), Lit(2)), F1("Ln", X), F1("Floor", Div(X, Lit(2)))} \cup
            Shallow \cup {Fn(f, <<a, b>>) : f \in DOMAIN InfixSign \cup {"Power"}, a \in Shallow \ {Lit(2)}, b \in {X, Lit(2), Neg(X), Sub(X, Lit(2)), Mul(X, Lit(2))}}
            \cup {Neg(a) : a \in Shallow}
Rendering == Do("to_latex") @@ [rivals |-> {t \in Written2 : t.op # "Function" \/ Len(t.kids) < 3}]
Odd == {Fn("Divide", <<X>>), Fn("Sin", <<X, Y>>), Fn("Gamma", <<>>), Fn("Min", <<X, Y>>), Fn("Log10", <<X>>), F1("Cbrt", X), F1("Exp", X), Pi, Unvalued,
        NotNumber, Term("Number", "inf", Int2Rat(-1), <<>>)}

Stored == {Lit(0), Lit(-300), X, Pi, Unvalued, Add(X, Mul(Lit(2), Y)), Cond(X, Lit(1), Neg(Y)), SumOver("k", Lit(1), X, Sq(Var("k"))),
           Term("Product", "k", Zero, <<Lit(1), X, Y>>), LimitAt("x", Lit(0), One, F1("Sin", X)), Cached(Add(Cached(X), Lit(1))),
           NotNumber, Term("Number", "inf", Int2Rat(-1), <<>>), Neg(Term("Number", "inf", One, <<>>)), Fn("Add", <<>>)}
          \cup {Fn(f, <<X>>) : f \in DOMAIN function_tag}
Untagged == {F1("Min", X), Add(X, F1("Min", Y)), Term("Function", "Pow", Two, <<X>>)}

T1(s) == Item("text", s)
Leaf1(n) == PyList(<<T1("num"), Item("numeral", n)>>)
NX == PyList(<<T1("var"), T1("x")>>)
NTwo == Leaf1(<<"-", "1", "2">>)
F3 == Item("float", Int2Rat(3))
Applying(tag, args) == PyList(<<T1("fn"), T1(tag)>> \o args)
Nodes2 == {NX, NTwo, Leaf1(<<"0">>), Leaf1(<<"NaN">>), Leaf1(<<"-Inf">>), PyList(<<T1("if"), NX, NX, NTwo>>), PyList(<<T1("sum"), T1("k"), NX, NTwo, NX>>),
           PyList(<<T1("limit"), T1("x"), NX, NX, Item("flag", One)>>), PyList(<<T1("const"), T1("pi"), F3>>), PyList(<<T1("const"), T1("pi"), Item("None", Absent)>>)}
          \cup {Applying(tag, args) : tag \in DOMAIN function_from_tag, args \in {<<>>, <<NX, NTwo>>}}
Broken == {T1("x"), F3, PyList(<<>>), PyList(<<NX>>), PyList(<<F3, NX>>), PyList(<<T1("zzz")>>), PyList(<<T1("num")>>), Leaf1(<<"1", "x">>), Leaf1(<<>>), Leaf1(<<"-">>),
           PyList(<<T1("num"), F3>>), PyList(<<T1("var"), F3>>), PyList(<<T1("fn")>>), PyList(<<T1("fn"), F3>>), Applying("nope", <<NX>>), Applying("nope", <<F3>>),
           PyList(<<T1("if"), NX, NX>>), PyList(<<T1("sum"), T1("k"), NX, NX>>), Applying("add", <<NX, Leaf1(<<"x">>), F3>>), Applying("add", <<F3, Leaf1(<<"x">>)>>),
           PyList(<<T1("limit"), T1("x"), NX, NX, F3>>), PyList(<<T1("const"), T1("pi"), T1("x")>>), PyList(<<T1("if"), NX, PyList(<<T1("zzz")>>), NX>>)}
Noded(node) == Do("from_compact") @@ [node |-> node]

Int1(op) == [kind |-> "integer", op |-> op, bad |-> FALSE, class |-> "int", text |-> <<>>, means |-> 0]
Texted(s) == [Int1("from_str") EXCEPT !.text = s]
Meaning(s, n) == [Texted(s) EXCEPT !.means = n]
Bytes3 == {<<0>>, <<5>>, <<9>>, <<10>>, <<255>>, <<0, 1>>, <<255, 255>>, <<0, 0, 1>>, <<16, 39>>, <<64, 66, 15>>, <<255, 255, 255>>, <<159, 134, 1>>}
Integers2 == {Finite(n, b) : n \in BOOLEAN, b \in Bytes3} \ {Finite(TRUE, <<0>>)}
Texts == {Meaning(<<"0">>, 0), Meaning(<<"-", "0">>, 0), Meaning(<<" ", "4", "2", " ">>, 42), Meaning(<<"+", "7">>, 7), Meaning(<<"0", "0", "9">>, 9),
          Meaning(<<"2", "5", "6">>, 256), Meaning(<<"-", "6", "5", "5", "3", "6">>, -65536), Meaning(<<"1", "6", "7", "7", "7", "2", "1", "5">>, 16777215),
          [Meaning(<<"-", "1", "2">>, -12) EXCEPT !.op = "new"], BadDo([Texted(<<"T", "r", "u", "e">>) EXCEPT !.op = "new", !.class = "bool"]),
          BadDo([Texted(<<"1", ".", "0">>) EXCEPT !.op = "new", !.class = "float"]),
          BadDo(Texted(<<>>)), BadDo(Texted(<<" ">>)), BadDo(Texted(<<"-">>)), BadDo(Texted(<<"1", " ", "2">>)), BadDo(Texted(<<"1", "x">>)), BadDo(Texted(<<"-", "+", "1">>))}

Bound(op, class) == [kind |-> "variable", op |-> op, class |-> class, name |-> "v", binding |-> IF class = "Expression" THEN Add(X, Y) ELSE Rat(5, 2)]
Asks(op) == [kind |-> "variable", op |-> op]
Rebound == <<Asks("is_unbound"), Bound("set_binding", "int"), Asks("binding"), Bound("set_binding", "str"), Asks("binding"), Asks("name"), Bound("set_binding", "None"),
             Asks("is_unbound"), Bound("set_binding", "Expression"), Bound("set_binding", "list"), Asks("binding"), Asks("to_expression")>>

CoreSessions ==
  {S(t, <<Rendering>>) : t \in Written2 \cup Odd} \cup {S(t, <<Do("to_compact"), Do("children"), Do("is_constant")>>) : t \in Stored}
  \cup {S(t, <<BadDo(Do("to_compact"))>>) : t \in Untagged}
  \cup {S(Nothing, <<Noded(n)>>) : n \in Nodes2} \cup {S(Nothing, <<BadDo(Noded(n))>>) : n \in Broken}
  \cup {S(i, <<Int1("to_string")>>) : i \in Integers2} \cup {S(Finite(FALSE, <<7>>), <<c, Int1("value")>>) : c \in Texts}
  \cup {S(X, Builders), S(X, Misbound)} \cup {S(t, <<Valued(AtXY), Valued(AtX)>>) : t \in Evaluations}
  \cup {S(Nothing, <<Bound("new", class)>> \o Rebound) : class \in {"None", "float", "Expression"}}

-----------------------------------------------------------------------------
(* Geometry. *)

LineOf(o, d)  == [origin |-> o, direction |-> d]
PlaneOf(n, h) == [normal |-> n, offset |-> h]
SphereAt(c, r) == [centre |-> c, radius |-> r]
V(a, b, c) == <<Lit(a), Lit(b), Lit(c)>>
Origin3 == V(0, 0, 0)
Workspace == [u |-> Origin3, v |-> Origin3, w |-> Origin3, line |-> LineOf(Origin3, Origin3), met |-> <<>>,
              plane |-> PlaneOf(Origin3, Lit(0)), plane2 |-> PlaneOf(Origin3, Lit(0)), sphere |-> SphereAt(Origin3, Lit(0)),
              hits |-> NoHit, curve |-> [degree |-> 0, points |-> <<>>, knots |-> <<>>]]
G(op, self, other, to) ==
  [kind |-> "geometry", op |-> op, self |-> self, other |-> other, to |-> to, bad |-> FALSE, envs |-> {<<>>}]
Under(envs, calls) == [k \in DOMAIN calls |-> [calls[k] EXCEPT !.envs = envs]]
XY(a, b) == [n \in {"x", "y"} |-> Int2Rat(IF n = "x" THEN a ELSE b)]
Bindings2 == {XY(3, 2), XY(0, -1), XY(5, 1)}

Arg(class, t) == [class |-> class, term |-> t]
Taking(call, arg) == call @@ [arg |-> arg]

Vectors == {V(1, 2, 3), V(-2, 0, 1), V(0, 0, 0), V(2, 4, 6), <<X, Lit(1), Y>>}
VectorCalls == Under(Bindings2,
  <<G("dot", "u", "v", "w"), G("add", "u", "v", "w"), G("sub", "u", "v", "w"), G("cross", "u", "v", "w"),
    G("neg", "u", "u", "w"), Taking(G("scale", "v", "v", "w"), Arg("int", Lit(-3))),
    Taking(G("scale", "v", "v", "w"), Arg("Expression", Add(X, Lit(1))))>>)

RECURSIVE Chain(_)
Chain(n) == IF n = 0 THEN Lit(0) ELSE Add(Chain(n - 1), Lit(1))
FromArgs(op, classes, t) ==
  G(op, "u", "u", "w") @@ [args |-> [k \in DOMAIN classes |-> Arg(classes[k], IF classes[k] = "Expression" THEN t ELSE Lit(k))]]
Spelled(v, env, as) == G("evaluate", "u", "u", "w") @@ [env |-> env, envAs |-> as]
Indexed(i) == G("component", "u", "u", "w") @@ [index |-> i]
VectorsByHand == <<
  FromArgs("Vector", <<"int", "float", "Expression">>, X), FromArgs("from_sequence", <<"int", "int", "int">>, X),
  FromArgs("Vector", <<"Expression", "int", "int">>, Chain(14)),
  BadDo(FromArgs("Vector", <<"int", "Expression", "int">>, Neg(Chain(14)))),
  BadDo(FromArgs("Vector", <<"int", "bool", "Expression">>, Chain(20))), BadDo(FromArgs("Vector", <<"nonfinite", "int", "str">>, X)),
  BadDo(FromArgs("from_sequence", <<"int", "int">>, X)), BadDo(FromArgs("from_sequence", <<"int", "str", "int">>, X)),
  G("zero", "u", "u", "w"), Indexed(-3), Indexed(2), BadDo(Indexed(3)), BadDo(Indexed(-4)),
  BadDo(Taking(G("scale", "u", "u", "w"), Arg("bool", Lit(1)))), BadDo(Spelled("u", <<>>, {})), BadDo(FromArgs("from_sequence", <<"int", "int", "int", "int">>, X)),
  Spelled("u", XY(3, 2), {"int"}), BadDo(Spelled("u", [n \in {"x", "y"} \cup {"z" \o ToString(k) : k \in 1..29} |-> One], {"float"})),
  Spelled("u", XY(3, 2), {"float"}), BadDo(Spelled("u", XY(3, 2), {"float", "str"})), BadDo(Spelled("u", [n \in {"x"} |-> One], {"float"})) >>
\* A product of products is too large to make a line of.
Growing == << G("cross", "u", "v", "w"), G("cross", "w", "v", "u"), G("cross", "u", "v", "w"),
              G("Line", "v", "u", "line"), BadDo(G("Line", "v", "w", "line")), BadDo(Taking(G("Plane", "w", "w", "plane"), Arg("int", Lit(1)))),
              BadDo(Taking(G("Sphere", "w", "w", "sphere"), Arg("int", Lit(1)))), Taking(G("at", "line", "line", "w"), Arg("int", Lit(1))) >>

Lines == {LineOf(V(-3, 0, 0), V(1, 0, 0)), LineOf(V(1, 1, 0), V(0, 0, -2)), LineOf(V(0, 1, 2), V(0, 0, 0)), LineOf(V(3, 1, 0), V(0, -2, 0)),
          LineOf(V(1, 2, 2), V(1, -1, 2)), LineOf(<<X, Lit(0), Lit(1)>>, V(0, 0, 2)), LineOf(V(1, 0, 1), <<Y, Lit(2), Lit(0)>>)}
Planes == {PlaneOf(V(1, 0, 0), Lit(1)), PlaneOf(V(0, 0, 2), Lit(0)), PlaneOf(V(2, 0, 0), Lit(2)), PlaneOf(V(0, 0, 0), Lit(0)),
           PlaneOf(V(1, -2, 3), Lit(-4)), PlaneOf(<<Lit(0), X, Lit(1)>>, Y)}
Circles == {SphereAt(V(0, 0, 0), Lit(3)), SphereAt(V(0, 0, 0), Lit(1)), SphereAt(V(-3, 4, 0), Lit(4)), SphereAt(V(0, 0, 1), Lit(5)), SphereAt(V(0, 0, 0), X)}
\* Only discriminants whose roots are rational.
RationalPairs == {<<l, s>> \in {l \in Lines : l.direction # V(1, -1, 2)} \X Circles :
  \A env \in Bindings2 :
    \E d \in {ValueAt(Sub(Mul(DotV(SubV(l.origin, s.centre), l.direction), DotV(SubV(l.origin, s.centre), l.direction)),
                          Mul(Norm2(l.direction), Sub(Norm2(SubV(l.origin, s.centre)), Mul(s.radius, s.radius)))), env).v} :
      ~LtR(Zero, d) \/ SquareRoot(MulR(Int2Rat(4), d)) # Zero}
OnSpheres == Under(Bindings2, <<G("line_sphere", "line", "sphere", "hits"), G("point", "hits", "hits", "w"), G("truth", "hits", "hits", "w"), G("radius_squared", "sphere", "sphere", "w")>>)
OnLines == Under(Bindings2, <<G("line_plane", "line", "plane", "hits"), G("point", "hits", "hits", "w"), G("truth", "hits", "hits", "w"), Taking(G("at", "line", "line", "w"), Arg("int", Lit(-2))),
                              G("closest_point", "line", "u", "w"), G("closest_param", "line", "u", "w")>>)
OnPlanes == Under(Bindings2, <<G("plane_plane", "plane", "plane2", "met")>>)
Distances == Under(Bindings2, <<G("signed_distance", "plane", "u", "w"), G("magnitude", "v", "v", "w"), G("magnitude_squared", "v", "v", "w"), G("components", "v", "v", "w")>>)
PrimitiveSessions ==
  {S([Workspace EXCEPT !.line = l, !.plane = p, !.u = V(1, 3, -2)], OnLines) : l \in Lines, p \in Planes}
  \cup {S([Workspace EXCEPT !.line = ls[1], !.sphere = ls[2]], OnSpheres) : ls \in RationalPairs}
  \cup {S([Workspace EXCEPT !.plane = p, !.plane2 = q], OnPlanes) : p, q \in Planes}
  \cup {S([Workspace EXCEPT !.plane = PlaneOf(n, Lit(2)), !.v = n, !.u = p], Distances) :
          n \in {V(0, 0, 0), V(0, -3, 4), V(2, 3, 6)}, p \in {V(0, 0, 0), V(1, -2, 1), <<X, Y, Lit(1)>>}}
  \cup {S([Workspace EXCEPT !.u = V(1, 0, 0)],
          <<Taking(G("Sphere", "u", "u", "sphere"), Arg("float", Lit(2))), BadDo(Taking(G("Sphere", "u", "u", "sphere"), Arg("int", Lit(-1)))),
            Taking(G("Sphere", "u", "u", "sphere"), Arg("Expression", Neg(X))), Taking(G("Plane", "u", "u", "plane"), Arg("int", Lit(1))),
            BadDo(Taking(G("Plane", "u", "u", "plane"), Arg("str", Lit(1)))), G("Line", "u", "u", "line"),
            Under(Bindings2, <<G("line_plane", "line", "plane", "hits")>>)[1]>>)}

Spots(q) == [i \in DOMAIN q |-> [k \in DOMAIN q[i] |-> Lit(q[i][k])]]
Drawn(op, q, spacing) == G(op, "u", "u", "w") @@ [points |-> Spots(q), spacing |-> spacing]
Spacings == {"uniform", "chordal", "centripetal"}
Ragged == <<<<0, 1>>, <<2>>>>
CurveSessions ==
  {S(Workspace, <<Drawn("bezier", q, "")>>) : q \in {<<<<3>>>>, <<<<0, 1>>, <<2, 5>>>>, <<<<0>>, <<6>>, <<-3>>, <<3>>>>, <<<<1, 0, 2>>, <<0, 4, 1>>, <<2, 2, -2>>>>, <<<<1>>, <<0>>, <<2>>, <<0>>, <<5>>>>}}
  \cup {S(Workspace, <<BadDo(Drawn("bezier", q, ""))>>) : q \in {<<>>, Ragged, <<<<>>, <<>>>>, [i \in 1..6 |-> <<i>>]}}
  \cup {S(Workspace, <<Drawn("catmull_rom", q, s), BadDo(Drawn("catmull_rom", Ragged \o Ragged, s))>>) : s \in Spacings,
          q \in {<<<<0>>, <<1>>, <<5>>, <<6>>>>, <<<<4, 0>>, <<0, 0>>, <<0, 4>>, <<0, 3>>>>, <<<<1>>, <<2>>, <<2>>, <<3>>>>}}
  \cup {S(Workspace, <<Drawn("through", q, s), BadDo(Drawn("through", <<<<1>>>>, s)), BadDo(Drawn("through", Ragged, s))>>) : s \in Spacings,
          q \in {<<<<0>>, <<4>>>>, <<<<0>>, <<1>>, <<5>>>>, <<<<0>>, <<1>>, <<5>>, <<4>>>>}}

Rats(q) == [i \in DOMAIN q |-> Int2Rat(q[i])]
Shape(op, degree, q, weights, knots) ==
  G(op, "u", "u", "curve") @@ [degree |-> degree, points |-> [i \in DOMAIN q |-> Rats(q[i])], weights |-> Rats(weights), knots |-> Rats(knots)]
Arc(radius, c, s) == G("arc", "u", "u", "curve") @@ [points |-> <<Rats(<<1, 0, 2>>)>>, radius |-> radius, half |-> <<c, s>>]
AtT(op, t) == G(op, "curve", "curve", "w") @@ [t |-> t]
PolylineAt(tolerance) == G("to_polyline", "curve", "curve", "w") @@ [tolerance |-> tolerance, t |-> Zero]
Instants2 == {Int2Rat(-1), Zero, Rat(1, 2), One, Rat(3, 2), Two, Int2Rat(5)}
Corners == <<<<0, 0, 0>>, <<3, 4, 0>>, <<6, 0, 0>>, <<6, 0, 2>>>>
Made4 == {Shape("clamped", d, Corners, w, <<>>) : d \in 1..3, w \in {<<1, 1, 1, 1>>, <<1, 2, 2, 3>>}}
         \cup {Shape("polyline", 1, Corners, <<>>, <<>>), Shape("nurbs", 2, Corners, <<1, 1, 2, 1>>, <<0, 1, 2, 3, 4, 5, 6>>),
               Shape("nurbs", 2, Append(Corners, <<2, 2, 0>>), <<1, 2, 1, 1, 1>>, <<0, 0, 0, 1, 1, 2, 2, 2>>),
               Shape("nurbs", 1, Corners, <<1, 1, 1, 1>>, <<0, 0, 1, 1, 2, 2>>),
               Arc(One, Rat(4, 5), Rat(3, 5)), Arc(Two, Rat(3, 5), Rat(4, 5))}
Unmade == {Shape("nurbs", 0, Corners, <<1, 1, 1, 1>>, <<0, 1, 2, 3, 4>>), Shape("nurbs", 2, Corners, <<1, 1, 1>>, <<0, 0, 0, 1, 2, 2, 2>>),
           Shape("nurbs", 2, Corners, <<1, 1, 1, 1>>, <<0, 0, 0, 1, 2, 2>>), Shape("nurbs", 2, Corners, <<1, 1, 1, 1>>, <<0, 0, 1, 0, 2, 2, 2>>),
           Shape("clamped", 4, Corners, <<1, 1, 1, 1>>, <<>>), Shape("clamped", 2, Corners, <<1, 0, 1, 1>>, <<>>),
           Arc(Zero, Rat(4, 5), Rat(3, 5)), Arc(One, Zero, One), Arc(One, Rat(4, 5), Zero)}
\* The last interval is empty: only points are asked for.
Doubled == Shape("nurbs", 1, <<<<0, 0, 0>>, <<3, 4, 0>>, <<6, 0, 0>>>>, <<1, 1, 1>>, <<0, 0, 1, 1, 1>>)
NurbsSessions ==
  {S(Workspace, <<m, AtT("curve_at", t), AtT("span_expression", t), AtT("tangent", t)>>) : m \in Made4, t \in Instants2}
  \cup {S(Workspace, <<m, PolylineAt(t), BadDo(PolylineAt(Zero))>>) : m \in {Shape("polyline", 1, Corners, <<>>, <<>>), Shape("clamped", 2, SubSeq(Corners, 1, 3), <<1, 1, 1>>, <<>>)},
          t \in {One, Rat(1, 2), Int2Rat(8), Rat(1, 9)}}
  \cup {S(Workspace, <<BadDo(m)>>) : m \in Unmade} \cup {S(Workspace, <<Doubled, AtT("curve_at", t)>>) : t \in Instants2}

VectorSessions ==
  {S([Workspace EXCEPT !.u = a, !.v = b], VectorCalls) : a, b \in Vectors}
  \cup {S([Workspace EXCEPT !.u = <<X, Lit(1), Y>>], VectorsByHand), S([Workspace EXCEPT !.u = V(1, 2, 3), !.v = V(-2, 0, 1)], Growing)}

GeometrySessions ==
  VectorSessions \cup PrimitiveSessions \cup CurveSessions \cup NurbsSessions

-----------------------------------------------------------------------------
(* Distributions under a law with exact values, every regime of the masses, *)
(* a generator of four bits over its whole period, samples with rational    *)
(* deviations.                                                              *)

MCErfSeries(x) == DivR(x, AddR(One, AbsR(x)))
MCErfcTail(x)  == DivR(One, AddR(One, x))
MCBell(z)      == DivR(Half, PowR(AddR(One, AbsR(z)), 2))
MCErfBranch == Int2Rat(3)
MCQuantileTolerance == Rat(1, 16)
MCXorShifts == <<1, 3, 2>>

AtReal(r) == [is |-> "number", v |-> r]
NotNumbers == {[is |-> w, v |-> Zero] : w \in {"nan", "inf", "-inf"}}
Stat(op) == [kind |-> "statistics", op |-> op, why |-> "none", finite |-> TRUE]
Because(call, why) == [call EXCEPT !.why = why]
ReadingAt(op, x) == Because(Stat(op) @@ [x |-> x], IF x.is = "nan" THEN "ValueError" ELSE "none")
Quantile(p) == Stat("quantile") @@ [p |-> p]
DrawnFrom(n, seed) == Stat("sample") @@ [n |-> n, seed |-> seed]
Levelled(op, level) == Stat(op) @@ [level |-> level]
Makes(op, spec) == Stat(op) @@ [spec |-> spec]
Infinitely(call) == [Because(call, "ValueError") EXCEPT !.finite = FALSE]
Json(text, spec) == Makes("distribution_from_json", spec) @@ [text |-> text]

Normals == {StandardNormal, NormalLaw(Int2Rat(10), Two), NormalLaw(Int2Rat(-3), Half), NormalLaw(Int2Rat(-20), One)}
Counts == {BinomialLaw(5, Half), BinomialLaw(8, Rat(1, 3)), BinomialLaw(0, Half), BinomialLaw(4, Zero), BinomialLaw(4, One),
           BinomialLaw(3, Rat(4, 5)), BernoulliLaw(Zero), BernoulliLaw(One), BernoulliLaw(Rat(3, 10)), BernoulliLaw(Half)}
Large == BinomialLaw(12, Half)
FarBelow == NormalLaw(Int2Rat(-1000), One)
ReadAt(d) ==
  IF d.kind = "normal" THEN {AddR(d.mean, MulR(d.std_dev, z)) : z \in {Zero, Half, One, Two, Int2Rat(3), Int2Rat(7), Int2Rat(-3), Rat(-5, 2)}}
  ELSE {Int2Rat(k) : k \in (-1)..(Trials(d) + 1)} \cup {Half, Rat(7, 3), Rat(-1, 2)}
Chances == {Rat(1, 20), Rat(1, 4), Half, Rat(3, 4), Rat(9, 10)}
\* The levels of the plateaus of Binomial(5, 1/2).
Plateaus == {Rat(k, 32) : k \in {1, 6, 16, 26, 31}}
Seeds == {<<>>, <<0>>, <<9>>, <<1>>, <<15>>}

Summary(d) == <<Stat("mean"), Stat("variance")>> \o
  (IF d.kind = "normal" \/ SquareRoot(Variance(d)) # Zero \/ Variance(d) = Zero THEN <<Stat("std_dev")>> ELSE <<>>)
Streams(d) == <<DrawnFrom(4, <<>>), DrawnFrom(15, <<0>>), DrawnFrom(7, <<9>>), DrawnFrom(15, <<1>>), DrawnFrom(3, <<1>>), DrawnFrom(15, <<12>>),
                DrawnFrom(0, <<2>>), Because(DrawnFrom(16, <<1>>), "ValueError")>>
DistributionSessions ==
  {S(d, <<ReadingAt("pdf", AtReal(x)), ReadingAt("cdf", AtReal(x))>>) : d \in Normals, x \in UNION {ReadAt(e) : e \in Normals}}
  \cup UNION {{S(d, <<ReadingAt("pmf", AtReal(x)), ReadingAt("cdf", AtReal(x))>>) : x \in ReadAt(d)} : d \in Counts}
  \cup {S(d, <<Quantile(p)>>) : d \in Normals \cup Counts, p \in Chances \cup Plateaus}
  \cup {S(d, Summary(d)) : d \in Normals \cup Counts}
  \cup {S(d, Streams(d)) : d \in {StandardNormal, BinomialLaw(5, Half), BernoulliLaw(Rat(3, 10)), NormalLaw(Int2Rat(10), Two)}}
  \cup {S(d, <<ReadingAt("pdf", x), ReadingAt("cdf", x), Because(Quantile(Zero), "ValueError"), Because(Quantile(One), "ValueError"),
               Infinitely(Quantile(Half))>>) : d \in {StandardNormal, BinomialLaw(5, Half), BernoulliLaw(Half)}, x \in NotNumbers}
  \cup {S(Large, <<ReadingAt("pmf", AtReal(Int2Rat(k))), Because(ReadingAt("cdf", AtReal(Int2Rat(k))), "ValueError")>>) : k \in {0, 4, 5, 6, 7, 11}}
  \cup {S(Large, <<ReadingAt("cdf", AtReal(Int2Rat(-1))), ReadingAt("cdf", AtReal(Int2Rat(12))), DrawnFrom(0, <<>>),
                   Because(Quantile(Half), "RuntimeError"), Because(DrawnFrom(1, <<>>), "RuntimeError")>>),
        S(FarBelow, <<Because(Quantile(Half), "RuntimeError"), Because(DrawnFrom(2, <<3>>), "RuntimeError"), ReadingAt("cdf", AtReal(Int2Rat(-1000)))>>)}

MakerSessions == {
  S(Nothing, <<Makes("Normal", NormalLaw(One, Two)), ReadingAt("cdf", AtReal(Two)), Infinitely(Makes("Normal", StandardNormal)),
               Because(Makes("Normal", NormalLaw(Zero, Zero)), "ValueError"), ReadingAt("pdf", AtReal(Two)), Stat("standard"), Stat("variance")>>),
  S(Nothing, <<Makes("Binomial", BinomialLaw(3, Half)), Because(Makes("Binomial", BinomialLaw(2, Rat(3, 2))), "ValueError"),
               ReadingAt("pmf", AtReal(Two)), Makes("Bernoulli", BernoulliLaw(Zero)), Because(Makes("Bernoulli", BernoulliLaw(Rat(-1, 2))), "ValueError"),
               ReadingAt("pmf", AtReal(Zero))>>),
  S(Nothing, <<Json("spec", BernoulliLaw(Half)), Stat("mean"), Because(Json("spec", BernoulliLaw(Two)), "ValueError"), Stat("variance")>>
             \o SetToSeq({Because(Json(t, StandardNormal), "ValueError") : t \in {"empty", "long", "malformed"}})) }

Choosing(n, k, fine) == Because(Stat("binomial_coefficient") @@ [n |-> n, k |-> k], IF fine THEN "none" ELSE "ValueError")
SpecialSessions ==
  {S(Nothing, <<ReadingAt("erf", x), ReadingAt("erfc", x)>>) : x \in NotNumbers \cup {AtReal(r) : r \in {Zero, Half, Rat(-5, 2), Int2Rat(3), Int2Rat(-3), Int2Rat(6), Int2Rat(-6)}}}
  \cup {S(Nothing, <<Choosing(5, 1, TRUE), Choosing(4, 2, TRUE), Choosing(4, 5, TRUE), Choosing(0, 0, TRUE), Choosing(19, 18, TRUE),
                     Choosing(20, 1, FALSE), Choosing(8, 4, FALSE), Choosing(12, 6, FALSE), Choosing(14, 7, FALSE)>>)}

Data(q) == [as |-> "list", classes |-> {"int", "float"}, finite |-> TRUE, values |-> Ints(q)]
About(op, data) == Stat(op) @@ [data |-> data]
MomentNames == <<"sample_mean", "sample_variance", "sample_std_dev", "sample_skewness", "sample_kurtosis">>
\* The first k moments have an answer.
MomentsOf(data, k, why) == [i \in DOMAIN MomentNames |-> Because(About(MomentNames[i], data), IF i <= k THEN "none" ELSE why)]
Even4 == {<<0, 0, 0, 1>>, <<0, 0, 2, 3>>, <<0, 1, 3, 3>>, <<0, 2, 3, 6>>, <<0, 0, 4, 6>>}
Even5 == {<<0, 0, 1, 2, 2>>, <<0, 1, 1, 3, 5>>, <<0, 2, 4, 4, 5>>, <<0, 3, 3, 7, 7>>, <<-5, -3, -1, -1, 0>>}
Refusals == {[Data(<<1, 2, 3, 4>>) EXCEPT !.as = "str"], [Data(<<1, 2, 3, 4>>) EXCEPT !.as = "set"], [Data(<<1, 2, 3, 4>>) EXCEPT !.classes = {"int", "bool"}]}
MomentSessions ==
  {S(Nothing, MomentsOf(Data(q), 5, "none")) : q \in Even4 \cup Even5}
  \cup {S(Nothing, MomentsOf(Data(q), 4, "ValueError")) : q \in {<<0, 1, 2>>, <<0, 2, 4>>}}
  \cup {S(Nothing, MomentsOf(d, 0, "TypeError")) : d \in Refusals}
  \cup {S(Nothing, MomentsOf(d, 0, "ValueError")) : d \in {Data(<<>>), Data([k \in 1..31 |-> k]), [Data(<<1, 2, 3, 4>>) EXCEPT !.finite = FALSE]}}
  \cup {S(Nothing, MomentsOf(Data(<<7>>), 1, "ValueError")), S(Nothing, MomentsOf(Data(<<2, 2, 2, 2>>), 3, "ValueError"))}

IntervalCall(lo, hi, level) == Makes("ConfidenceInterval", IntervalOf(lo, hi, level))
FromData(q, level) == About("normal_confidence_interval", Data(q)) @@ [level |-> level]
IntervalSessions ==
  {S(Nothing, <<FromData(q, level), Stat("width"), Stat("midpoint"), Levelled("normal_critical_value", level)>>) :
     q \in {<<0, 0, 0, 1>>, <<3, 3>>, <<0, 2>>, <<0, 0, 4, 6>>, <<7, 7, 7>>}, level \in {Rat(1, 10), Half, Rat(9, 10), Rat(1, 100)}}
  \cup {S(Nothing, <<IntervalCall(NegR(One), Int2Rat(4), Half), Stat("width"), Stat("midpoint"), ReadingAt("contains", AtReal(Zero)), ReadingAt("contains", AtReal(Int2Rat(4))),
                     ReadingAt("contains", AtReal(Int2Rat(5))), Because(IntervalCall(Two, One, Half), "ValueError"), Because(IntervalCall(One, Two, One), "ValueError"),
                     Infinitely(IntervalCall(One, Two, Half)), ReadingAt("contains", AtReal(Int2Rat(-2)))>>
                   \o SetToSeq({Because(ReadingAt("contains", x), "ValueError") : x \in NotNumbers}))}
  \cup {S(Nothing, <<Because(FromData(<<1>>, Half), "ValueError"), Because(FromData(<<1, 2>>, One), "ValueError"),
                     Because(Levelled("normal_critical_value", Zero), "ValueError"),
                     Because([FromData(<<1, 2>>, Half) EXCEPT !.data.as = "str"], "TypeError")>>)}

StatisticsSessions == DistributionSessions \cup MakerSessions \cup SpecialSessions \cup MomentSessions \cup IntervalSessions

-----------------------------------------------------------------------------
(* Backends of both kinds asked in every way, with every code; counters to  *)
(* their limit and past it, over a reset.                                  *)

BackendDo(op) == [kind |-> "backend", op |-> op]
Adds(style, bound, bytes) ==
  BackendDo("register") @@ [backend |-> [name |-> style, style |-> style, bound |-> bound, room |-> 64], bytes |-> bytes]
AsksOf(n, does) == BackendDo("ask") @@ [n |-> n, does |-> does]
Recording(what) == BackendDo("record") @@ [what |-> what]

\* The last five write nothing, among them a function that says it had no room.
CFunctions ==
  {[code |-> c, is |-> k, text |-> "2x", size |-> z] : c \in {0, 1, 3, -1}, k \in {"expression", "message"}, z \in {2, 9}}
  \cup {[code |-> c, is |-> "message", text |-> "", size |-> 1] : c \in {0, 1, 2, 3, 7}}
HandlersInRust == {[raised |-> e, text |-> "3y"] : e \in {"none", "BackendUnavailable", "OperatorUnsupported", "EvaluationFailed"}}

BackendSessions ==
  {S([backends |-> <<>>, stats |-> NoTally],
     <<Adds("rust", TRUE, 1), Adds("c", TRUE, bytes), Adds("c", bound, 8), Adds("rust", bound, 8),
       AsksOf(2, c), AsksOf(1, r), AsksOf(3, c), AsksOf(4, r), AsksOf(2, c)>>) :
     bytes \in {0, 8}, bound \in BOOLEAN, c \in CFunctions, r \in HandlersInRust}
  \cup {S([backends |-> <<>>, stats |-> NoTally],
           [k \in DOMAIN whats |-> Recording(whats[k])] \o <<BackendDo("reset"), Recording(after), Recording("success")>>) :
           whats \in UNION {[1..n -> {"success", "failure", "fallback"}] : n \in {2, 5}}, after \in {"failure", "fallback"}}

-----------------------------------------------------------------------------
(* Closed expressions over every operator, with brackets of their values:   *)
(* each loop, cancellation, even powers around zero, domain errors.         *)

T(op)     == [op |-> op, val |-> Zero]
N(n, d)   == [op |-> "num", val |-> <<n, d>>]

\* About v / 1000000, to six digits; or exactly v.
Case(prog, v, far) ==
  [prog |-> prog, truth |-> <<Rat(v - 1, 1000000), Rat(v + 1, 1000000)>>, far |-> far]

Applied(op, n, d, v) == Case(<<N(n, d), T(op)>>, v, FALSE)
RootOf(n) == <<N(n, 1), T("sqrt")>>

Expressions ==
  { Applied("exp", 1, 1, 2718282), Applied("exp", -1, 1, 367879), Applied("exp", 1, 2, 1648721),
    Applied("exp", 0, 1, 1000000), Applied("ln", 2, 1, 693147), Applied("ln", 3, 1, 1098612),
    Applied("ln", 1, 2, -693147), Applied("ln", 1, 1, 0), Applied("ln", 0, 1, 0),
    Applied("sin", 1, 1, 841471), Applied("sin", 2, 1, 909297), Applied("sin", -1, 2, -479426),
    Applied("cos", 1, 1, 540302), Applied("cos", 2, 1, -416147), Applied("cos", 0, 1, 1000000),
    Applied("sqrt", 2, 1, 1414214), Applied("sqrt", 1, 2, 707107), Applied("sqrt", 0, 1, 0),
    Applied("sqrt", -1, 1, 0), Applied("neg", 1, 3, -333333),
    Case(<<T("pi")>>, 3141593, FALSE),
    Case(<<T("pi"), N(3, 1), T("sub")>>, 141593, FALSE),
    Case(<<T("pi"), T("cos")>>, -1000000, FALSE),
    Case(<<T("pi"), N(2, 1), T("div"), T("sin")>>, 1000000, FALSE),
    Case(RootOf(2) \o <<T("exp")>>, 4113250, FALSE),
    Case(RootOf(2) \o <<T("ln")>>, 346574, FALSE),
    Case(RootOf(2) \o RootOf(3) \o <<T("mul")>>, 2449490, FALSE),
    Case(RootOf(2) \o RootOf(2) \o <<T("sub")>>, 0, FALSE),
    Case(<<N(1, 1)>> \o RootOf(2) \o RootOf(2) \o <<T("sub"), T("div")>>, 0, FALSE),
    Case(<<N(1, 1)>> \o RootOf(2) \o <<N(1, 1), T("add"), T("div")>>, 414214, FALSE),
    Case(RootOf(2) \o <<N(3, 2), T("sub"), N(2, 1), T("pow")>>, 7359, FALSE),
    Case(RootOf(2) \o <<N(3, 2), T("sub"), N(-2, 1), T("pow")>>, 135882251, FALSE),
    Case(RootOf(2) \o <<N(-2, 1), T("pow")>>, 500000, FALSE),
    Case(RootOf(2) \o <<N(3, 1), T("pow")>>, 2828427, FALSE),
    Case(RootOf(2) \o <<N(0, 1), T("pow")>>, 1000000, FALSE),
    Case(RootOf(2) \o <<N(1, 2), T("pow")>>, 1189207, FALSE),
    Case(<<N(2, 1), N(5, 1), T("pow")>>, 32000000, FALSE),
    Case(<<N(2000, 1)>> \o RootOf(2) \o <<T("mul"), N(2828, 1), T("sub")>>, 427125, FALSE),
    Case(<<N(1, 2), T("exp"), T("sqrt")>>, 1284025, FALSE),
    Case(<<N(19, 1), T("ln")>>, 2944439, TRUE) }

MCJobs ==
  {[prog |-> c.prog, truth |-> c.truth, far |-> c.far, bits |-> b] : c \in Expressions, b \in 0..2}

\* Logarithms only, from both sides of the limit of the series.
Logarithms ==
  { Applied("ln", 5, 1, 1609438), Applied("ln", 1, 5, -1609438),
    Case(<<N(9, 1), T("ln")>>, 2197225, TRUE), Case(<<N(19, 2), T("ln")>>, 2251292, TRUE) }

MCLogarithmJobs ==
  {[prog |-> c.prog, truth |-> c.truth, far |-> c.far, bits |-> b] : c \in Logarithms, b \in 0..1}

PreciseSessions == {S(j, <<[kind |-> "precise"]>>) : j \in Jobs}
LogarithmSessions == {S(j, <<[kind |-> "precise"]>>) : j \in MCLogarithmJobs}

MCSessions == MatrixSessions \cup TensorSessions \cup CalculusSessions \cup CriticalSessions \cup EquationSessions \cup FourierSessions
              \cup TextSessions \cup UnitSessions \cup CoreSessions \cup GeometrySessions \cup StatisticsSessions \cup BackendSessions \cup PreciseSessions
=============================================================================
