---------------------------- MODULE MCSimplifier ----------------------------
(***************************************************************************)
(* Trees of up to three levels, chosen so that every rule meets the result *)
(* of every other.                                                         *)
(***************************************************************************)
EXTENDS SimplifyRules

MCCached == [s \in {"c", "p"} |-> IF s = "c" THEN <<2, 1>> ELSE <<22, 7>>]
MCBindings == [{"x", "y"} -> {-1, 0, 2}]

Atoms == {Num(0), Num(1), Num(2), Const("c"), Var("x"), Var("y")}
Args(S, T) == {<<a, b>> : a \in S, b \in T}
Unary(fs, S)  == {Fn(f, <<a>>) : f \in fs, a \in S}
Over(fs, argss) == {Fn(f, args) : f \in fs, args \in argss}

Commutative == {"Add", "Multiply"}
Ordered     == {"Subtract", "Divide", "Power"}

\* Every operator over atoms.
Flat ==
  Over(Commutative \cup Ordered, Args(Atoms, Atoms))
  \cup Over(Commutative, {<<a, b, d>> : a, b, d \in {Num(1), Num(-1), Var("x"), Var("y"), Const("p")}})
  \cup Unary({"Negate", "Sin", "Cos", "Ln"}, Atoms)
  \cup Over({"Min"}, {<<Var("x"), Var("y")>>})

\* Operands for a second level.
Inner ==
  Over(Commutative, Args({Num(2), Var("x")}, {Num(2), Var("x"), Var("y")}))
  \cup Over({"Power"}, Args({Var("x")}, {Num(1), Num(2)}))
  \cup Over({"Divide"}, {<<Num(1), Var("x")>>})
  \cup Over({"Subtract", "Min"}, {<<Var("x"), Var("x")>>})
  \cup Unary({"Negate", "Sin"}, {Var("x"), Num(0)})
  \cup {Cond(Var("x"), Var("y"), Num(1))}

Nested ==
  Over(Commutative \cup Ordered, Args(Inner, Inner))
  \cup Over(Commutative \cup Ordered, Args(Inner, Atoms) \cup Args(Atoms, Inner))
  \cup Over(Commutative, {<<a, b, d>> : a \in Inner, b \in {Var("x"), Num(2)}, d \in {Var("x"), Num(-1)}})
  \cup Unary({"Negate", "Sin", "Cos", "Ln"}, Inner)

\* Squares of sines and cosines, written as powers and as products.
Squares ==
  LET s == Fn("Sin", <<Var("x")>>)
      k == Fn("Cos", <<Var("x")>>)
      l == Fn("Cos", <<Var("y")>>)
  IN  {Fn("Power", <<s, Num(2)>>), Fn("Multiply", <<k, k>>), Fn("Power", <<k, Num(2)>>),
       Fn("Power", <<l, Num(2)>>), Num(1), Var("x")}

Trigonometric ==
  Over({"Add"}, {<<a, b>> : a, b \in Squares} \cup {<<a, b, d>> : a, b, d \in Squares})
  \cup Over({"Add"}, {<<a, b, a, b>> : a, b \in Squares})

\* A collection in every operand: the tree grows before it shrinks.
Growing ==
  LET x == Var("x")
      y == Var("y")
      g == Fn("Add", <<x, x, y, y>>)
  IN {g, Fn("Multiply", <<x, x, y, y>>), Fn("Negate", <<g>>), Fn("Multiply", <<g, x, x>>),
      Fn("Cos", <<Fn("Add", <<g, Fn("Multiply", <<x, x, y>>), Num(1)>>)>>)}

\* Numbers that refuse to be combined.
Dimensioned ==
  LET S == {Quantity(5, "m"), Quantity(3, "s"), NaN, Num(0), Var("x")}
  IN Over(Commutative \cup Ordered, Args(S, S))
     \cup Over(Commutative, {<<a, b, d>> : a, b, d \in S})
     \cup Unary({"Negate", "Sin"}, S)

MCInputs == Flat \cup Nested \cup Trigonometric \cup Growing \cup Dimensioned

MCStub == Num(0)

\* Twice is enough: TreeAssumption and FoldAssumption check it.
MCTrees == WithResults(WithResults(MCInputs \cup {MCStub}))

\* A negation in a sum that collects something else, nested to use MaxNodes up: the
\* collection makes every negation but the innermost a product, and adds a node.
Negations ==
  FoldLeft(LAMBDA t, i : Fn("Add", <<Fn("Negate", <<t>>), Var("x"), Var("x")>>), Var("y"),
           <<1, 2, 3, 4>>)

MCOvergrown == {Negations}

RECURSIVE Closure(_)
Closure(trees) ==
  LET more == trees \cup WithResults(trees) IN IF more = trees THEN trees ELSE Closure(more)

MCOvergrownTrees == Closure(MCOvergrown \cup {MCStub})
=============================================================================
