------------------------------- MODULE Terms -------------------------------
(***************************************************************************)
(* Expressions as the symbolic operations see them (expression/mod.rs): a   *)
(* term, the names it reads, its exact value, and its derivative computed  *)
(* on dual numbers, the reference the calculus modules are held against.   *)
(*                                                                         *)
(* A term is [op, name, value, kids]: a Number has a rational value, a     *)
(* Variable or Constant a name, a Function a name and its arguments, a     *)
(* Conditional three kids, a CachedValue one, and a Sum (or Product) binds *)
(* its name in kids[3], between kids[1] and kids[2].                       *)
(***************************************************************************)
EXTENDS Rationals, Sequences, FiniteSets, SequencesExt

CONSTANT Elementary(_, _)      \* Elementary(f, r): f at r where no algebra fixes it

Term(op, name, value, kids) == [op |-> op, name |-> name, value |-> value, kids |-> kids]
Num(r)        == Term("Number", "", r, <<>>)
Lit(n)        == Num(Int2Rat(n))
Var(x)        == Term("Variable", x, Zero, <<>>)
Fn(f, args)   == Term("Function", f, Zero, args)
Cond(c, a, b) == Term("Conditional", "", Zero, <<c, a, b>>)
Cached(t)     == Term("CachedValue", "", Zero, <<t>>)
SumOver(x, lo, hi, body) == Term("Sum", x, Zero, <<lo, hi, body>>)

Add(a, b) == Fn("Add", <<a, b>>)
Sub(a, b) == Fn("Subtract", <<a, b>>)
Mul(a, b) == Fn("Multiply", <<a, b>>)
Div(a, b) == Fn("Divide", <<a, b>>)
Pow(a, b) == Fn("Power", <<a, b>>)
Neg(a)    == Fn("Negate", <<a>>)
IsFn(t, f) == t.op = "Function" /\ t.name = f

RECURSIVE Nodes(_), FreeSymbols(_), Substitute(_, _, _)
Nodes(t) == FoldLeft(LAMBDA n, k : n + Nodes(k), 1, t.kids)

\* free_symbols: a bound name is free in the bounds and not in the body, the last kid.
FreeSymbols(t) ==
  LET Of(k) == FreeSymbols(t.kids[k])
      bound == IF t.op \in {"Sum", "Product", "Limit"} THEN {t.name} ELSE {}
  IN  IF t.op = "Variable" THEN {t.name}
      ELSE UNION {IF k = Len(t.kids) THEN Of(k) \ bound ELSE Of(k) : k \in DOMAIN t.kids}

\* Only arguments of functions are rewritten; any other form is kept whole.
Substitute(t, x, v) ==
  IF t.op = "Variable" /\ t.name = x THEN v
  ELSE IF t.op = "Function"
       THEN [t EXCEPT !.kids = [k \in DOMAIN t.kids |-> Substitute(t.kids[k], x, v)]]
  ELSE t

-----------------------------------------------------------------------------
(***************************************************************************)
(* Dual numbers: [v, d] is v + d e with e e = 0, and NoValue where the      *)
(* point is outside the domain.  The rules are those of the numbers, not   *)
(* of the terms, so they know nothing of the code's rewriting.             *)
(***************************************************************************)
NoValue   == [v |-> Zero, d |-> Zero, ok |-> FALSE]
Dual(v, d) == [v |-> v, d |-> d, ok |-> TRUE]
Two == Int2Rat(2)

\* Zero unless both parts are squares.
SquareRoot(r) ==
  LET Roots(n) == {k \in 1..24 : k * k = n}
  IN  IF Roots(r[1]) = {} \/ Roots(r[2]) = {} THEN Zero
      ELSE <<CHOOSE k \in Roots(r[1]) : TRUE, CHOOSE k \in Roots(r[2]) : TRUE>>

PowDual(a, b) ==
  IF b.v[2] # 1 \/ (b.d # Zero /\ ~LtR(Zero, a.v)) THEN NoValue
  ELSE IF b.v[1] < 0 /\ a.v = Zero THEN NoValue
  ELSE LET Power(n) == IF n = 0 THEN One ELSE PowR(IF n < 0 THEN DivR(One, a.v) ELSE a.v, AbsInt(n))
       IN  Dual(Power(b.v[1]),
                AddR(IF b.v[1] = 0 \/ a.d = Zero THEN Zero
                     ELSE MulR(MulR(b.v, Power(b.v[1] - 1)), a.d),
                     IF b.d = Zero THEN Zero
                     ELSE MulR(MulR(Power(b.v[1]), Elementary("Ln", a.v)), b.d)))

BinaryDual(f, a, b) ==
  CASE f = "Add" -> Dual(AddR(a.v, b.v), AddR(a.d, b.d))
    [] f = "Subtract" -> Dual(SubR(a.v, b.v), SubR(a.d, b.d))
    [] f = "Multiply" -> Dual(MulR(a.v, b.v), AddR(MulR(a.d, b.v), MulR(a.v, b.d)))
    [] f = "Divide" ->
         IF b.v = Zero THEN NoValue
         ELSE Dual(DivR(a.v, b.v), DivR(SubR(a.d, MulR(DivR(a.v, b.v), b.d)), b.v))
    [] f \in {"Power", "Pow"} -> PowDual(a, b)

RootDual(a, s) ==
  IF a.v = Zero /\ a.d = Zero THEN Dual(Zero, Zero)
  ELSE IF s = Zero THEN NoValue ELSE Dual(s, DivR(a.d, MulR(Two, s)))

\* y: the value of f at a.v.
GrowthDual(f, a, y) ==
  CASE f = "Exp" -> Dual(y, MulR(a.d, y))
    [] f = "Ln"  -> IF LtR(Zero, a.v) THEN Dual(y, DivR(a.d, a.v)) ELSE NoValue

\* s, c: the sine and the cosine of a point that moves by d.
AngleDual(f, s, c, d) ==
  CASE f = "Sin" -> Dual(s, MulR(d, c))
    [] f = "Cos" -> Dual(c, NegR(MulR(d, s)))
    [] f = "Tan" -> IF c = Zero THEN NoValue ELSE Dual(DivR(s, c), DivR(d, MulR(c, c)))

UnaryDual(f, a) ==
  CASE f = "Negate" -> Dual(NegR(a.v), NegR(a.d))
    [] f = "Abs" -> IF a.v = Zero /\ a.d # Zero THEN NoValue
                    ELSE Dual(AbsR(a.v), IF LtR(a.v, Zero) THEN NegR(a.d) ELSE a.d)
    [] f = "Sign" -> Dual(IF LtR(a.v, Zero) THEN NegR(One) ELSE One, Zero)
    [] f = "Floor" -> Dual(Int2Rat(a.v[1] \div a.v[2]), Zero)
    [] f = "Sqrt" -> RootDual(a, SquareRoot(a.v))
    [] f \in {"Exp", "Ln"} -> GrowthDual(f, a, Elementary(f, a.v))
    [] OTHER -> AngleDual(f, Elementary("Sin", a.v), Elementary("Cos", a.v), a.d)

\* The dual value of a term under env, a function from names to duals.
RECURSIVE DualValue(_, _)
Duals(kids, env) == FoldLeft(LAMBDA ds, k : Append(ds, DualValue(k, env)), <<>>, kids)
Combined(t, kids) ==
  IF \E k \in DOMAIN kids : ~kids[k].ok THEN NoValue
  ELSE IF t.op = "Conditional" THEN IF kids[1].v # Zero THEN kids[2] ELSE kids[3]
  ELSE IF t.name = "Pow" \/ Len(kids) = 2
       THEN BinaryDual(t.name, kids[1], IF t.name = "Pow" THEN Dual(t.value, Zero) ELSE kids[2])
  ELSE UnaryDual(t.name, kids[1])
DualValue(t, env) ==
  CASE t.op = "Number" -> Dual(t.value, Zero)
    [] t.op = "Constant" -> IF t.value = <<>> THEN NoValue ELSE Dual(t.value, Zero)
    [] t.op = "Variable" -> IF t.name \in DOMAIN env THEN env[t.name] ELSE NoValue
    [] t.op = "CachedValue" -> DualValue(t.kids[1], env)
    [] t.op \in {"Sum", "Product", "Limit"} -> NoValue
    [] t.op \in {"Conditional", "Function"} -> Combined(t, Duals(t.kids, env))      \* both branches

\* The value alone: what `evaluate` answers where it answers.
ValueAt(t, env) == DualValue(t, [x \in DOMAIN env |-> Dual(env[x], Zero)])
=============================================================================
