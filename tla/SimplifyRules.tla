---------------------------- MODULE SimplifyRules ----------------------------
(***************************************************************************)
(* Expression trees, what they denote, the canonical order of operands,    *)
(* and `ArithmaIterativeSimplifier::rewrite`: what one visit makes of a    *)
(* node whose children are finished, and whether it reports a change       *)
(* (expression/iterative.rs).  At the end, what Simplifier makes of these  *)
(* trees with these rules.                                                 *)
(*                                                                         *)
(* A node is [kind, name, unit, value, kids].  A Number has a value and a  *)
(* unit ("" for none) and the name "plain", or "NaN" if it carries a       *)
(* special flag; variables, constants and functions have a name.           *)
(* Conditional stands for every variant without rewrite rules.  Sin, Cos   *)
(* and Ln stand for the functions with one special value, Min for those    *)
(* that `same_function` does not list.                                     *)
(***************************************************************************)
EXTENDS SequencesExt, Simplifier

CONSTANTS
  Cached,               \* Cached[s]: the cached f64 of constant s, as <<n, d>>
  MaxNumber,            \* no magnitude past MAX_DIGITS is ever computed
  MaxPowExponent,       \* MAX_POW_EXPONENT
  AllowNumericCollapse  \* SimplificationConfig::allow_numeric_collapse

TreeNode(kind, name, unit, value, kids) ==
  [kind |-> kind, name |-> name, unit |-> unit, value |-> value, kids |-> kids]

Quantity(v, u) == TreeNode("Number", "plain", u, v, <<>>)
Num(v)         == Quantity(v, "")
NaN            == TreeNode("Number", "NaN", "", 0, <<>>)
Var(x)         == TreeNode("Variable", x, "", 0, <<>>)
Const(s)       == TreeNode("Constant", s, "", 0, <<>>)
Fn(f, args)    == TreeNode("Function", f, "", 0, args)
Cond(c, a, b)  == TreeNode("Conditional", "", "", 0, <<c, a, b>>)

IsNumber(t) == t.kind = "Number"
IsPlain(t)  == t.kind = "Number" /\ t.name = "plain"
IsFn(t, f)  == t.kind = "Function" /\ t.name = f

\* is_zero and is_one look at the digits and the flags, never at the unit.
IsZero(t) == IsPlain(t) /\ t.value = 0
IsOne(t)  == IsPlain(t) /\ t.value = 1

\* The same sequence, its elements computed once and not at every use.
Listed(s) == s \o <<>>

RECURSIVE NodesOf(_), DepthOf(_)
NodesOf(t)  == FoldLeft(LAMBDA n, k : n + NodesOf(k), 1, t.kids)
DepthOf(t)  == FoldLeft(LAMBDA d, k : IF DepthOf(k) >= d THEN DepthOf(k) + 1 ELSE d, 1, t.kids)
-----------------------------------------------------------------------------
(***************************************************************************)
(* Exact integer arithmetic that refuses instead of rounding.  A refused   *)
(* combination is Refused; the caller leaves its operands alone.           *)
(***************************************************************************)
Refused == TreeNode("Refused", "", "", 0, <<>>)

Fitting(v, u) == IF v \in (-MaxNumber)..MaxNumber THEN Quantity(v, u) ELSE Refused

Unitless(a, b) == a.unit = "" /\ b.unit = ""
Plain(a, b)    == IsPlain(a) /\ IsPlain(b)

CheckedAdd(a, b) ==
  IF Plain(a, b) /\ a.unit = b.unit THEN Fitting(a.value + b.value, a.unit) ELSE Refused

CheckedSub(a, b) ==
  IF Plain(a, b) /\ a.unit = b.unit THEN Fitting(a.value - b.value, a.unit) ELSE Refused

CheckedMul(a, b) ==
  IF Plain(a, b) /\ Unitless(a, b) THEN Fitting(a.value * b.value, "") ELSE Refused

\* Floor division by a number of either sign.
Quot(x, y) == IF y > 0 THEN x \div y ELSE (-x) \div (-y)

CheckedDivExact(a, b) ==
  IF Plain(a, b) /\ Unitless(a, b) /\ b.value # 0 /\ Quot(a.value, b.value) * b.value = a.value
    THEN Num(Quot(a.value, b.value)) ELSE Refused

RECURSIVE Pow(_, _)
Pow(v, n) == IF n = 0 THEN 1 ELSE v * Pow(v, n - 1)

\* to_u32, and the cap on the exponent.
IsExponent(e) == IsPlain(e) /\ e.unit = "" /\ e.value >= 0

CheckedPow(a, e) ==
  IF IsPlain(a) /\ a.unit = "" /\ IsExponent(e) /\ e.value <= MaxPowExponent
    THEN Fitting(Pow(a.value, e.value), "") ELSE Refused

CheckedNeg(a) == IF IsPlain(a) THEN Quantity(-a.value, a.unit) ELSE Refused
-----------------------------------------------------------------------------
(***************************************************************************)
(* What a tree denotes under a binding of its variables: a rational        *)
(* <<n, d>> in lowest terms, or NoValue where `evaluate` fails or is not   *)
(* finite.  Units are ignored, as `evaluate` ignores them.  Sin, Cos and   *)
(* Ln have their special values and, elsewhere, one arbitrary value that   *)
(* satisfies sin^2 + cos^2 = 1.                                            *)
(***************************************************************************)
NoValue == <<0, 0>>

RECURSIVE Gcd(_, _)
Gcd(a, b) == IF b = 0 THEN a ELSE Gcd(b, a % b)

Magnitude(v) == IF v < 0 THEN -v ELSE v

Ratio(n, d) ==
  IF d = 0 THEN NoValue
  ELSE LET g == Gcd(Magnitude(n), Magnitude(d))
           s == IF d < 0 THEN -1 ELSE 1
       IN  <<s * Quot(n, g), s * Quot(d, g)>>

AddRat(a, b) == Ratio(a[1] * b[2] + b[1] * a[2], a[2] * b[2])
MulRat(a, b) == Ratio(a[1] * b[1], a[2] * b[2])
NegRat(a)    == <<-a[1], a[2]>>

PowRat(a, b) ==
  IF b[2] # 1 \/ Magnitude(b[1]) > 8 THEN NoValue
  ELSE IF b[1] >= 0 THEN Ratio(Pow(a[1], b[1]), Pow(a[2], b[1]))
  ELSE Ratio(Pow(a[2], -b[1]), Pow(a[1], -b[1]))

ApplyTo(f, v) ==
  CASE f = "Add"      -> FoldLeft(AddRat, <<0, 1>>, v)
    [] f = "Multiply" -> FoldLeft(MulRat, <<1, 1>>, v)
    [] f = "Subtract" -> AddRat(v[1], NegRat(v[2]))
    [] f = "Divide"   -> Ratio(v[1][1] * v[2][2], v[1][2] * v[2][1])
    [] f = "Power"    -> PowRat(v[1], v[2])
    [] f = "Negate"   -> NegRat(v[1])
    [] f = "Sin"      -> IF v[1][1] = 0 THEN <<0, 1>> ELSE <<3, 5>>
    [] f = "Cos"      -> IF v[1][1] = 0 THEN <<1, 1>> ELSE <<4, 5>>
    [] f = "Ln"       -> IF v[1] = <<1, 1>> THEN <<0, 1>>
                         ELSE IF v[1][1] <= 0 THEN NoValue ELSE <<7, 3>>
    [] f = "Min"      -> IF v[1][1] * v[2][2] <= v[2][1] * v[1][2] THEN v[1] ELSE v[2]

RECURSIVE Value(_, _)
Value(t, env) ==
  LET v == Listed([i \in DOMAIN t.kids |-> Value(t.kids[i], env)])
  IN IF \E i \in DOMAIN v : v[i] = NoValue THEN NoValue
     ELSE CASE t.kind = "Number"      -> IF IsPlain(t) THEN <<t.value, 1>> ELSE NoValue
            [] t.kind = "Variable"    -> <<env[t.name], 1>>
            [] t.kind = "Constant"    -> Cached[t.name]
            [] t.kind = "Conditional" -> IF v[1][1] # 0 THEN v[2] ELSE v[3]
            [] t.kind = "Function"    -> ApplyTo(t.name, v)
-----------------------------------------------------------------------------
(***************************************************************************)
(* The canonical order: by kind, then by what distinguishes the variant,   *)
(* then by arity, then by the children from left to right.                 *)
(***************************************************************************)
KindOrder     == <<"Number", "Constant", "Function", "Conditional", "Variable">>
FunctionOrder == <<"Add", "Subtract", "Multiply", "Divide", "Power", "Negate",
                   "Sin", "Cos", "Ln">>
NameOrder     == <<"", "c", "m", "p", "s", "x", "y">>

Rank(order, name) == CHOOSE i \in DOMAIN order : order[i] = name

IsRanked(f) == f \in Range(FunctionOrder)
FunctionRank(f) == IF IsRanked(f) THEN Rank(FunctionOrder, f) ELSE Len(FunctionOrder) + 1

Compared(i, j) == IF i < j THEN -1 ELSE IF i > j THEN 1 ELSE 0

\* Keys of equal length are compared like words.
RECURSIVE Lexicographic(_)
Lexicographic(signs) ==
  IF signs = <<>> THEN 0
  ELSE IF Head(signs) # 0 THEN Head(signs) ELSE Lexicographic(Tail(signs))

CompareNumbers(a, b) ==
  Lexicographic(<<Compared(Rank(NameOrder, a.unit), Rank(NameOrder, b.unit)),
                  Compared(IF IsPlain(a) THEN 0 ELSE 1, IF IsPlain(b) THEN 0 ELSE 1),
                  Compared(a.value, b.value)>>)

CompareShallow(a, b) ==
  LET byKind == Compared(Rank(KindOrder, a.kind), Rank(KindOrder, b.kind))
      byData ==
        CASE a.kind = "Number"      -> CompareNumbers(a, b)
          [] a.kind = "Function"    -> Compared(FunctionRank(a.name), FunctionRank(b.name))
          [] a.kind = "Conditional" -> 0
          [] OTHER -> Compared(Rank(NameOrder, a.name), Rank(NameOrder, b.name))
  IN IF byKind # 0 THEN byKind
     ELSE Lexicographic(<<byData, Compared(Len(a.kids), Len(b.kids))>>)

\* Variant for the mutants: the children are not compared.
CompareOuter(a, b) == CompareShallow(a, b)

RECURSIVE Compare(_, _)
Compare(a, b) ==
  LET shallow == CompareShallow(a, b)
  IN IF shallow # 0 THEN shallow
     ELSE Lexicographic(Listed([i \in DOMAIN a.kids |-> Compare(a.kids[i], b.kids[i])]))

\* Variant for the mutants: equal neighbours count as out of order.
IsStrictlyOrdered(args) == \A i \in 1..(Len(args) - 1) : Compare(args[i], args[i + 1]) < 0

IsCanonicallyOrdered(args) == \A i \in 1..(Len(args) - 1) : Compare(args[i], args[i + 1]) <= 0

\* A stable sort: an operand goes behind every operand it does not precede.
InsertOperand(sorted, t) ==
  LET after == {i \in DOMAIN sorted : Compare(sorted[i], t) > 0}
      k == IF after = {} THEN Len(sorted) + 1 ELSE CHOOSE i \in after : \A j \in after : i <= j
  IN  SubSeq(sorted, 1, k - 1) \o <<t>> \o SubSeq(sorted, k, Len(sorted))

OrderOperands(args) == FoldLeft(InsertOperand, <<>>, args)

\* structural_eq: identical, and no operator inside that `same_function` leaves out.
RECURSIVE AllListed(_)
AllListed(t) ==
  /\ t.kind = "Function" => IsRanked(t.name)
  /\ \A i \in DOMAIN t.kids : AllListed(t.kids[i])

StructuralEq(a, b) == a = b /\ AllListed(a)
-----------------------------------------------------------------------------
(***************************************************************************)
(* What a visit makes of a node.                                           *)
(***************************************************************************)
Keep(t)   == [node |-> t, changed |-> FALSE]
Become(t) == [node |-> t, changed |-> TRUE]

\* The alternatives of a rule, tried in order; the last is what is left.
FirstChange(options) ==
  IF \E i \in DOMAIN options : options[i].changed
    THEN options[CHOOSE i \in DOMAIN options :
                   options[i].changed /\ \A j \in 1..(i - 1) : ~options[j].changed]
    ELSE options[Len(options)]

\* Absorbing rules apply to shapes that cannot be infinite or NaN.
IsFiniteShape(t) == IsPlain(t) \/ t.kind \in {"Variable", "Constant"}

Numeric(args)  == SelectSeq(args, IsNumber)
Symbolic(args) == SelectSeq(args, LAMBDA t : ~IsNumber(t))
-----------------------------------------------------------------------------
(***************************************************************************)
(* Commutative operators: fold the numbers, collect like operands, write   *)
(* the result in canonical order.                                          *)
(***************************************************************************)
Combined(f, a, b) == IF f = "Add" THEN CheckedAdd(a, b) ELSE CheckedMul(a, b)

\* The folded number (if any) and the other operands; a number that cannot be
\* combined with the one before it is left among the operands.
Partition(f, args) ==
  LET Take(p, t) ==
        IF ~IsNumber(t) THEN [p EXCEPT !.rest = Append(@, t)]
        ELSE IF p.acc = <<>> THEN [p EXCEPT !.acc = <<t>>]
        ELSE IF Combined(f, p.acc[1], t) # Refused
               THEN [p EXCEPT !.acc = <<Combined(f, p.acc[1], t)>>]
        ELSE [acc |-> <<t>>, rest |-> Append(p.rest, p.acc[1])]
  IN FoldLeft(Take, [acc |-> <<>>, rest |-> <<>>], args)

SplitCoefficient(t) ==
  CASE IsFn(t, "Multiply") /\ Len(t.kids) = 2 /\ IsNumber(t.kids[1]) /\ t.kids[1].unit = ""
         -> [count |-> t.kids[1], base |-> t.kids[2]]
    [] IsFn(t, "Negate") /\ Len(t.kids) = 1 -> [count |-> Num(-1), base |-> t.kids[1]]
    [] OTHER -> [count |-> Num(1), base |-> t]

SplitPower(t) ==
  IF IsFn(t, "Power") /\ Len(t.kids) = 2 /\ IsExponent(t.kids[2]) /\ t.kids[2].value >= 1
    THEN [count |-> t.kids[2], base |-> t.kids[1]]
    ELSE [count |-> Num(1), base |-> t]

\* The first group with this base, 0 if there is none.
GroupOf(groups, base) ==
  SelectInSeq(groups, LAMBDA g : StructuralEq(g.base, base))

\* Two exponents are added up to the cap.
AddExponents(a, b) ==
  IF a.value + b.value > MaxPowExponent THEN Refused ELSE Num(a.value + b.value)

\* One group per base, in order of first appearance; operands whose counts
\* cannot be added start a group of their own.
Groups(args, Separate(_), Combine(_, _)) ==
  LET Join(groups, t) ==
        LET s == Separate(t)
            i == GroupOf(groups, s.base)
        IN IF i # 0 /\ Combine(groups[i].count, s.count) # Refused
             THEN [groups EXCEPT ![i].count = Combine(@, s.count)]
             ELSE Append(groups, s)
  IN FoldLeft(Join, <<>>, args)

Collected(rest, Separate(_), Combine(_, _), Write(_)) ==
  LET groups == Groups(rest, Separate, Combine)
  IN IF Len(groups) = Len(rest) THEN rest ELSE Listed(FlattenSeq([i \in DOMAIN groups |-> Write(groups[i])]))

WriteTerm(g) ==
  CASE IsZero(g.count) -> <<>>
    [] IsOne(g.count)  -> <<g.base>>
    [] OTHER           -> <<Fn("Multiply", <<g.count, g.base>>)>>

WriteFactor(g) ==
  IF g.count.value = 1 THEN <<g.base>> ELSE <<Fn("Power", <<g.base, g.count>>)>>

CollectLikeTerms(rest)   == Collected(rest, SplitCoefficient, CheckedAdd, WriteTerm)
CollectLikeFactors(rest) == Collected(rest, SplitPower, AddExponents, WriteFactor)

\* The pre-checks, made on the operands before any is touched.
WouldCollectTerms(args) ==
  LET s == Listed([i \in DOMAIN Symbolic(args) |-> SplitCoefficient(Symbolic(args)[i])])
  IN \E i, j \in DOMAIN s : i < j /\ StructuralEq(s[i].base, s[j].base)

\* Exponents are looked up against the first factor with the same base.
WouldCollectFactors(args) ==
  LET s == Listed([i \in DOMAIN Symbolic(args) |-> SplitPower(Symbolic(args)[i])])
  IN \E i, j \in DOMAIN s :
       /\ i < j /\ StructuralEq(s[i].base, s[j].base)
       /\ \A h \in 1..(i - 1) : ~StructuralEq(s[h].base, s[j].base)
       /\ AddExponents(s[i].count, s[j].count) # Refused

FinishCommutative(f, acc, rest) ==
  LET IsIdentity(n) == IF f = "Add" THEN IsZero(n) ELSE IsOne(n)
      kept == IF acc # <<>> /\ (~IsIdentity(acc[1]) \/ rest = <<>>) THEN acc ELSE <<>>
      operands == OrderOperands(kept \o rest)
  IN CASE operands = <<>>     -> Num(IF f = "Add" THEN 0 ELSE 1)
       [] Len(operands) = 1   -> operands[1]
       [] OTHER               -> Fn(f, operands)

\* sin(u)^2 and cos(u)^2.
IsSquared(t, f) ==
  /\ IsFn(t, "Power") /\ Len(t.kids) = 2
  /\ IsExponent(t.kids[2]) /\ t.kids[2].value = 2
  /\ IsFn(t.kids[1], f) /\ Len(t.kids[1].kids) = 1

\* The first sine with a cosine of the same argument, and its first cosine.
PythagoreanPair(args) ==
  LET Match(i, j) ==
        /\ IsSquared(args[i], "Sin") /\ IsSquared(args[j], "Cos")
        /\ StructuralEq(args[i].kids[1].kids[1], args[j].kids[1].kids[1])
      pairs == {p \in (DOMAIN args) \X (DOMAIN args) : Match(p[1], p[2])}
      Before(p, q) == p[1] < q[1] \/ (p[1] = q[1] /\ p[2] <= q[2])
  IN IF pairs = {} THEN <<>> ELSE CHOOSE p \in pairs : \A q \in pairs : Before(p, q)

ApplyPythagorean(args) ==
  LET p == PythagoreanPair(args)
      low  == IF p[1] < p[2] THEN p[1] ELSE p[2]
      high == IF p[1] < p[2] THEN p[2] ELSE p[1]
  IN IF p = <<>> THEN args ELSE Listed(RemoveAt(ReplaceAt(args, low, Num(1)), high))

RewriteSum(t) ==
  LET args     == t.kids
      numbers  == Numeric(args)
      symbolic == Len(args) - Len(numbers)
      willFold == \/ Len(numbers) >= 2
                  \/ symbolic > 0 /\ \E i \in DOMAIN numbers : IsZero(numbers[i])
      willReduce  == symbolic >= 2 /\ PythagoreanPair(args) # <<>>
      willCollect == symbolic >= 2 /\ WouldCollectTerms(args)
      split == Partition("Add", ApplyPythagorean(args))
  IN IF Len(args) >= 2
        /\ (willFold \/ ~IsCanonicallyOrdered(args) \/ willReduce \/ willCollect)
       THEN Become(FinishCommutative("Add", split.acc, CollectLikeTerms(split.rest)))
       ELSE Keep(t)

RewriteProduct(t) ==
  LET args     == t.kids
      numbers  == Numeric(args)
      symbolic == Len(args) - Len(numbers)
      vanishes == /\ \E i \in DOMAIN args : IsZero(args[i])
                  /\ \A i \in DOMAIN args : IsFiniteShape(args[i])
      willFold == \/ Len(numbers) >= 2
                  \/ symbolic > 0 /\ \E i \in DOMAIN numbers : IsOne(numbers[i])
      willCollect == symbolic >= 2 /\ WouldCollectFactors(args)
      split == Partition("Multiply", args)
  IN IF Len(args) < 2 THEN Keep(t)
     ELSE IF vanishes THEN Become(Num(0))
     ELSE IF willFold \/ ~IsCanonicallyOrdered(args) \/ willCollect
       THEN Become(FinishCommutative("Multiply", split.acc, CollectLikeFactors(split.rest)))
     ELSE Keep(t)
-----------------------------------------------------------------------------
(***************************************************************************)
(* The other operators.                                                    *)
(***************************************************************************)
\* A result, if the arithmetic did not refuse it.
Folded(n) == [node |-> n, changed |-> n # Refused]
If(cond, t) == [node |-> t, changed |-> cond]

RewriteDifference(t) ==
  LET a == t.kids[1]
      b == t.kids[2]
  IN IF Len(t.kids) # 2 THEN Keep(t)
     ELSE FirstChange(<<Folded(CheckedSub(a, b)), If(IsZero(b), a), Keep(t)>>)

RewriteDivide(t) ==
  LET a == t.kids[1]
      b == t.kids[2]
  IN IF Len(t.kids) # 2 \/ IsZero(b) THEN Keep(t)
     ELSE FirstChange(<<Folded(CheckedDivExact(a, b)),
                        If(IsZero(a) /\ IsNumber(b), Num(0)),
                        If(IsOne(b), a),
                        Keep(t)>>)

RewritePower(t) ==
  LET a == t.kids[1]
      b == t.kids[2]
  IN IF Len(t.kids) # 2 THEN Keep(t)
     ELSE IF IsZero(b)
       THEN FirstChange(<<If(~IsZero(a) /\ IsFiniteShape(a), Num(1)), Keep(t)>>)
     ELSE FirstChange(<<If(IsOne(b), a), Folded(CheckedPow(a, b)), Keep(t)>>)

RewriteNegate(t) ==
  IF Len(t.kids) # 1 THEN Keep(t)
  ELSE FirstChange(<<Folded(CheckedNeg(t.kids[1])), Keep(t)>>)

SpecialValue(t) ==
  LET a == t.kids[1]
  IN IF Len(t.kids) # 1 \/ ~IsPlain(a) \/ a.unit # "" THEN Keep(t)
     ELSE FirstChange(<<If(t.name = "Sin" /\ IsZero(a), Num(0)),
                        If(t.name = "Cos" /\ IsZero(a), Num(1)),
                        If(t.name = "Ln"  /\ IsOne(a),  Num(0)),
                        Keep(t)>>)

\* A constant with an integral cached value becomes a literal, if allowed to.
Rewrite(t) ==
  CASE t.kind = "Constant" /\ AllowNumericCollapse /\ Cached[t.name][2] = 1
         -> Become(Num(Cached[t.name][1]))
    [] IsFn(t, "Add")      -> RewriteSum(t)
    [] IsFn(t, "Subtract") -> RewriteDifference(t)
    [] IsFn(t, "Multiply") -> RewriteProduct(t)
    [] IsFn(t, "Divide")   -> RewriteDivide(t)
    [] IsFn(t, "Power")    -> RewritePower(t)
    [] IsFn(t, "Negate")   -> RewriteNegate(t)
    [] t.kind = "Function" -> SpecialValue(t)
    [] OTHER               -> Keep(t)
-----------------------------------------------------------------------------
(***************************************************************************)
(* Simplifier with these trees and these rules.                            *)
(***************************************************************************)
ChildrenOf(t) == t.kids

take_children(t) == [t EXCEPT !.kids = <<>>]

put_children(shell, kids) == [shell EXCEPT !.kids = kids]

\* Turns of the loop of fold_once, child by child.
RECURSIVE TurnsOf(_)
TurnsOf(t) ==
  IF t.kids = <<>> THEN 1 ELSE FoldLeft(LAMBDA n, k : n + TurnsOf(k), 2, t.kids)

TurnsUpTo(t) ==
  [i \in 0..Len(t.kids) |->
     FoldLeft(LAMBDA n, k : n + TurnsOf(k), 1, SubSeq(t.kids, 1, i))]

\* Two turns a node, save for what collecting writes, a number times a base or a
\* base to a power, and for a negation, which collecting writes as -1 times its operand.
RECURSIVE WeightOf(_)
WeightOf(t) ==
  LET base == IF IsFn(t, "Power") THEN SplitPower(t).base ELSE SplitCoefficient(t).base
  IN  CASE t.kids = <<>>    -> 2
        [] base = t         -> FoldLeft(LAMBDA n, k : n + WeightOf(k), 2, t.kids)
        [] base.kids = <<>> -> 4
        [] OTHER            -> 3 + WeightOf(base)

\* A pass, by structure.
RECURSIVE FoldTree(_)
FoldTree(t) ==
  LET kids == Listed([i \in DOMAIN t.kids |-> FoldTree(t.kids[i])])
      own  == Rewrite([t EXCEPT !.kids = Listed([i \in DOMAIN kids |-> kids[i].node])])
  IN [node |-> own.node, changed |-> own.changed \/ \E i \in DOMAIN kids : kids[i].changed]

\* Trees, their children, and what a pass makes of them.
WithResults(trees) == UNION {{t, FoldTree(t).node} \cup Range(t.kids) : t \in trees}

\* The result of passes until one reports no change, at most n of them.
RECURSIVE Settle(_, _)
Settle(t, n) ==
  IF n = 0 \/ ~Fold(t).changed THEN t ELSE Settle(Fold(t).node, n - 1)

\* The operands of every sum and product written the other way round.
RECURSIVE Mirror(_)
Mirror(t) ==
  LET kids == Listed([i \in DOMAIN t.kids |-> Mirror(t.kids[i])])
  IN [t EXCEPT !.kids = IF IsFn(t, "Add") \/ IsFn(t, "Multiply")
                          THEN Listed(Reverse(kids)) ELSE kids]

\* No unit and no special number anywhere: any two numbers can be combined.
RECURSIVE AllPlain(_)
AllPlain(t) ==
  /\ IsNumber(t) => IsPlain(t) /\ t.unit = ""
  /\ \A i \in DOMAIN t.kids : AllPlain(t.kids[i])

Completed == HasRoom /\ phase = "returned" /\ passes > 0 /\ AllPlain(input)

\* One pass per level of nesting and one more to notice are enough, as long as no
\* sum holds more sin^2 + cos^2 pairs than it has levels (a pass drops one pair).
Converges == Completed => passes <= DepthOf(input) + 1 /\ ~changed

\* Both spellings of commutative operands end as the same tree.
SpellingsMeet == Completed => Settle(Mirror(input), Budget) = expr
=============================================================================
