------------------------------ MODULE Calculus ------------------------------
(***************************************************************************)
(* Differentiation as the two-stack machine of                             *)
(* calculus/differentiation_iterative.rs, the hand-assembled rules of      *)
(* differentiation.rs, and integration (calculus/integration.rs).          *)
(***************************************************************************)
EXTENDS Terms

CONSTANTS DiffCap,             \* ARITHMA_DIFF_NODE_CAP
          Panels               \* QUADRATURE_PANELS

ASSUME CalculusAssumption == DiffCap \in Nat /\ Panels \in Nat \ {0} /\ Panels % 2 = 0

VARIABLES
  work,         \* frames to process, the next one last
  results,      \* derivatives of the subterms finished so far
  frames,       \* frames popped: guard
  derivative    \* the answer, or Pending

diffVars == <<work, results, frames, derivative>>

Pending    == [error |-> "pending"]
Done(t)    == [error |-> "none", term |-> t]
Refuse(e)  == [error |-> e]

EnterFrame(t)   == [tag |-> "Enter", node |-> t]
CombineFrameOf(t) == [tag |-> "Combine", node |-> t]

Binary2 == {"Add", "Subtract", "Multiply", "Divide"}
UnaryDiff == {"Negate", "Sqrt", "Exp", "Ln", "Sin", "Cos", "Tan"}
Leaf(t) == t.op \in {"Number", "Constant", "Variable"}
Differentiable(t) ==
  /\ t.op = "Function" /\ t.name \in Binary2 \cup UnaryDiff \cup {"Power"}
  /\ IF t.name \in UnaryDiff THEN Len(t.kids) >= 1 ELSE Len(t.kids) = 2

DiffIdle == work = <<>> /\ results = <<>> /\ frames = 0 /\ derivative = Pending

Frame == work[Len(work)]
WorkRest == SubSeq(work, 1, Len(work) - 1)

\* The guard is counted before the frame is looked at.
DiffPop(tag) ==
  /\ derivative = Pending /\ work # <<>>
  /\ frames < DiffCap /\ Frame.tag = tag
  /\ frames' = frames + 1

DiffCapExceeded ==
  /\ derivative = Pending /\ work # <<>> /\ frames >= DiffCap
  /\ derivative' = Refuse("cap") /\ frames' = frames + 1
  /\ UNCHANGED <<work, results>>

DiffLeaf(x) ==
  /\ DiffPop("Enter") /\ Leaf(Frame.node)
  /\ results' = Append(results,
                       Lit(IF Frame.node = Var(x) THEN 1 ELSE 0))
  /\ work' = WorkRest /\ UNCHANGED derivative

\* Of a power only the base is differentiated, whatever the exponent reads.
Scheduled(t) ==
  IF t.name \in Binary2
  THEN <<CombineFrameOf(t), EnterFrame(t.kids[2]), EnterFrame(t.kids[1])>>
  ELSE <<CombineFrameOf(t), EnterFrame(t.kids[1])>>

DiffFunction ==
  /\ DiffPop("Enter") /\ Differentiable(Frame.node)
  /\ work' = WorkRest \o Scheduled(Frame.node)
  /\ UNCHANGED <<results, derivative>>

DiffUnsupported ==
  /\ DiffPop("Enter") /\ ~Leaf(Frame.node) /\ ~Differentiable(Frame.node)
  /\ derivative' = Refuse("unsupported")
  /\ work' = WorkRest /\ UNCHANGED results

\* The parent's derivative, from its operands and theirs.
RuleFor(t, da, db) ==
  LET a == t.kids[1]
      b == t.kids[2]
      f == t.name
  IN  CASE f = "Add" -> Add(da, db)
        [] f = "Subtract" -> Sub(da, db)
        [] f = "Multiply" -> Add(Mul(da, b), Mul(a, db))
        [] f = "Divide" -> Div(Sub(Mul(da, b), Mul(a, db)), Mul(b, b))
        [] f = "Power" -> Mul(Mul(b, Pow(a, Sub(b, Lit(1)))), da)
        [] f = "Negate" -> Neg(da)
        [] f = "Sqrt" -> Div(da, Mul(Lit(2), Fn("Sqrt", <<a>>)))
        [] f = "Exp" -> Mul(da, Fn("Exp", <<a>>))
        [] f = "Ln" -> Div(da, a)
        [] f = "Sin" -> Mul(da, Fn("Cos", <<a>>))
        [] f = "Cos" -> Mul(da, Neg(Fn("Sin", <<a>>)))
        [] f = "Tan" -> Div(da, Mul(Fn("Cos", <<a>>), Fn("Cos", <<a>>)))

\* Variant for the mutants: the first child is popped first.
DiffCombineSwapped ==
  LET two == Frame.node.name \in Binary2
      n == Len(results)
      kept == SubSeq(results, 1, IF two THEN n - 2 ELSE n - 1)
      parent == IF two THEN RuleFor(Frame.node, results[n], results[n - 1])
                ELSE RuleFor(Frame.node, results[n], results[n])
  IN  /\ DiffPop("Combine")
      /\ results' = Append(kept, parent)
      /\ work' = WorkRest /\ UNCHANGED derivative

\* The second child was finished last, so it is popped first.
DiffCombine ==
  LET two == Frame.node.name \in Binary2
      n == Len(results)
      kept == SubSeq(results, 1, IF two THEN n - 2 ELSE n - 1)
      parent == IF two THEN RuleFor(Frame.node, results[n - 1], results[n])
                ELSE RuleFor(Frame.node, results[n], results[n])
  IN  /\ DiffPop("Combine")
      /\ results' = Append(kept, parent)
      /\ work' = WorkRest /\ UNCHANGED derivative

DiffFinish ==
  /\ derivative = Pending /\ work = <<>> /\ results # <<>>
  /\ derivative' = IF Len(results) = 1 THEN Done(results[1]) ELSE Refuse("stack")
  /\ UNCHANGED <<work, results, frames>>

DiffNext(x) == DiffCapExceeded \/ DiffLeaf(x) \/ DiffFunction
               \/ DiffUnsupported \/ DiffCombine \/ DiffFinish

-----------------------------------------------------------------------------
(***************************************************************************)
(* Integration: a table of rules over the shape of the term, refusing what *)
(* no rule covers; a definite integral falls back on Simpson's rule.       *)
(***************************************************************************)

\* A wrapper, the bounds of a sum and the point of a limit are not looked into.
RECURSIVE Mentions(_, _)
Mentions(t, x) ==
  CASE t.op = "Variable" -> t.name = x
    [] t.op \in {"Sum", "Product", "Limit"} -> Mentions(t.kids[Len(t.kids)], x)
    [] t.op \in {"Function", "Conditional"} ->
         \E k \in DOMAIN t.kids : Mentions(t.kids[k], x)
    [] OTHER -> FALSE

NoRule == Refuse("no rule")

\* The value of a subtree that names no variable: evaluated with no bindings.
NoBindings == [v \in {} |-> Zero]
ConstantValue(t) == ValueAt(t, NoBindings)

LnAbs(t) == Fn("Ln", <<Fn("Abs", <<t>>)>>)

\* Variant for the mutants: the exponent is not raised.
PowerRuleSameDegree(x, n) ==
  LET next == AddR(n, One)
  IN  IF next = Zero THEN Done(LnAbs(x)) ELSE Done(Div(Pow(x, Num(n)), Num(next)))

\* Small powers are written as repeated products, the others as a power.
PowerRule(x, n) ==
  LET next == AddR(n, One)
      product == FoldLeft(LAMBDA p, k : Mul(p, x), Lit(1), [k \in 1..next[1] |-> k])
  IN  IF next = Zero THEN Done(LnAbs(x))
      ELSE IF next[2] = 1 /\ next[1] \in 0..16 THEN Done(Div(product, Num(next)))
      ELSE Done(Div(Pow(x, Num(next)), Num(next)))

IntegratePower(base, exponent, x) ==
  LET n == ConstantValue(exponent)
      a == ConstantValue(base)
  IN  IF Mentions(base, x)
      THEN IF Mentions(exponent, x) \/ base # Var(x) \/ ~n.ok THEN NoRule
           ELSE PowerRule(Var(x), n.v)
      ELSE IF exponent # Var(x) \/ ~a.ok \/ ~LtR(Zero, a.v) \/ a.v = One THEN NoRule
      ELSE Done(Div(Pow(base, Var(x)), Num(Elementary("Ln", a.v))))

\* Both parts must integrate for their combination to.
Both(p, q, F(_, _)) == IF p.error # "none" THEN p
                       ELSE IF q.error # "none" THEN q ELSE Done(F(p.term, q.term))
Whole(p, F(_)) == IF p.error # "none" THEN p ELSE Done(F(p.term))

RECURSIVE Integrate(_, _)
IntegrateFunction(t, x) ==
  LET f == t.name
      args == t.kids
      a == args[1]
      b == args[2]
  IN  CASE f \in {"Add", "Subtract"} /\ Len(args) = 2 ->
             Both(Integrate(a, x), Integrate(b, x), LAMBDA p, q : Fn(f, <<p, q>>))
        [] f = "Negate" /\ Len(args) = 1 -> Whole(Integrate(a, x), Neg)
        [] f = "Multiply" /\ Len(args) = 2 ->
             IF Mentions(a, x) = Mentions(b, x) THEN NoRule
             ELSE IF Mentions(b, x) THEN Whole(Integrate(b, x), LAMBDA p : Mul(a, p))
             ELSE Whole(Integrate(a, x), LAMBDA p : Mul(b, p))
        [] f = "Divide" /\ Len(args) = 2 ->
             IF ~Mentions(b, x) THEN Whole(Integrate(a, x), LAMBDA p : Div(p, b))
             ELSE IF ~Mentions(a, x) /\ b = Var(x) THEN Done(Mul(a, LnAbs(b)))
             ELSE NoRule
        [] f = "Pow" /\ args = <<Var(x)>> -> PowerRule(Var(x), t.value)
        [] f = "Power" /\ Len(args) = 2 -> IntegratePower(a, b, x)
        [] f = "Exp" /\ args = <<Var(x)>> -> Done(Fn("Exp", args))
        [] f = "Sin" /\ args = <<Var(x)>> -> Done(Neg(Fn("Cos", args)))
        [] f = "Cos" /\ args = <<Var(x)>> -> Done(Fn("Sin", args))
        [] f = "Sqrt" /\ args = <<Var(x)>> ->
             Done(Div(Mul(Lit(2), Mul(Var(x), Fn("Sqrt", args))), Lit(3)))
        [] OTHER -> NoRule

Integrate(t, x) ==
  IF ~Mentions(t, x) THEN Done(Mul(t, Var(x)))
  ELSE IF t = Var(x) THEN Done(Div(Mul(Var(x), Var(x)), Lit(2)))
  ELSE IF t.op = "Function" THEN IntegrateFunction(t, x)
  ELSE NoRule

\* Composite Simpson: one sample outside the domain refuses the whole call.
IntegrateNumeric(t, x, lo, hi) ==
  LET a == MinR({lo, hi})
      h == DivR(SubR(MaxR({lo, hi}), a), Int2Rat(Panels))
      At(i) == ValueAt(t, [v \in {x} |-> AddR(a, MulR(h, Int2Rat(i)))])
      Weight(i) == Int2Rat(IF i \in {0, Panels} THEN 1 ELSE IF i % 2 = 0 THEN 2 ELSE 4)
      total == FoldLeft(LAMBDA s, i : AddR(s, MulR(Weight(i - 1), At(i - 1).v)),
                        Zero, [i \in 1..(Panels + 1) |-> i])
      area == DivR(MulR(total, h), Int2Rat(3))
  IN  IF lo = hi THEN Done(Lit(0))
      ELSE IF \E i \in 0..Panels : ~At(i).ok THEN Refuse("sample")
      ELSE Done(Num(IF LtR(lo, hi) THEN area ELSE NegR(area)))

\* The antiderivative at both ends, or quadrature between two finite limits.
BetweenLimits(t, x, lo, hi, whole, from, upto) ==
  IF whole.error = "none"
  THEN Done(Sub(Substitute(whole.term, x, hi), Substitute(whole.term, x, lo)))
  ELSE IF from.ok /\ upto.ok THEN IntegrateNumeric(t, x, from.v, upto.v)
  ELSE Refuse("limits")
IntegrateDefinite(t, x, lo, hi) ==
  BetweenLimits(t, x, lo, hi, Integrate(t, x), ConstantValue(lo), ConstantValue(hi))
=============================================================================
