---------------------------- MODULE MCIntervals ----------------------------
(***************************************************************************)
(* Every expression of five shapes, of at most four nodes, over all the    *)
(* functions of the grid, six input intervals and labels that make         *)
(* undefined operands, overflow, stale caches and each error occur; and    *)
(* chains of four nodes, which take one frame more than the cap.  The      *)
(* floats are 0, 1/8, 1/2, 1, 2 and 3 with both signs: 1/8 is as close to  *)
(* an integer as 1e-12 is, 1/2 a fraction, and 3 an integer beyond the     *)
(* largest exponent of pow_int and beyond the limit of the periodic        *)
(* functions.                                                              *)
(***************************************************************************)
EXTENDS IntervalEvaluator, FloatFunctions

MCNode == 1..4

\* Children have larger names than their parent, and the root is node 1.
Shapes ==
  { << <<>>, <<>>, <<>>, <<>> >>,
    << <<2>>, <<3>>, <<>>, <<>> >>,
    << <<2>>, <<3, 4>>, <<>>, <<>> >>,
    << <<2, 3>>, <<4>>, <<>>, <<>> >>,
    << <<2, 3, 4>>, <<>>, <<>>, <<>> >> }

Label(kind, func, leaf) == [kind |-> kind, func |-> func, leaf |-> leaf]
Chain == << <<2>>, <<3>>, <<4>>, <<>> >>
ChainLabels == {Label("CachedValue", "Add", None), Label("Function", "Negate", None)}

Between(lo, hi) == IntervalOf(lo * One, hi * One)
Inputs == {Between(0, 0), Between(-1, 1), Between(-3, -1), Between(0, 2), Between(1, 3), whole}

LeafLabels(input) ==
  {Label("Variable", "Add", input), Label("Number", "Add", point(-2 * One)), Label("Number", "Add", point(0))}

\* A filled cache was filled under some other input.
UnaryLabels ==
  {Label("Function", f, None) : f \in {"Negate", "Sqrt", "Abs"} \cup (MoreFunctions \ {"Power"})}
  \cup {Label("CachedValue", "Add", None), Label("CachedValue", "Add", point(3 * One)),
        Label("FourierOptimized", "Add", None), Label("Function", "Power", None),
        Label("Function", "Multiply", None)}

BinaryLabels ==
  {Label("Function", f, None) : f \in {"Add", "Subtract", "Multiply", "Divide", "Power", "Min"}}

TernaryLabels == {Label("Conditional", "Add", None)}

Used(shape) == {1} \cup UNION {{shape[n][j] : j \in 1..Len(shape[n])} : n \in MCNode}
Spare == Label("Number", "Add", point(0))

\* The leaves that end a call, as the last operand only.
BadLeaves ==
  {Label("Constant", "Add", None), Label("Variable", "Add", None), Label("Unsupported", "Add", None)}

\* Exponents that pow_interval treats each in its own way.
Exponents ==
  {Label("Number", "Add", point(v)) : v \in {1, One \div 2, -(One \div 2), One, 2 * One, 3 * One, -3 * One}}

LabelsOf(shape, n, input) ==
  IF n \notin Used(shape) THEN {Spare}
  ELSE IF shape = Chain /\ n < 4 THEN ChainLabels
  ELSE <<LeafLabels(input), UnaryLabels, BinaryLabels, TernaryLabels>>[Len(shape[n]) + 1]
         \cup (IF n = 4 THEN BadLeaves ELSE {})
         \cup (IF n = 4 /\ shape[2] = <<3, 4>> THEN Exponents ELSE {})

Blank(shape, input, labels) ==
  [root  |-> 1,
   input |-> input,
   kids  |-> shape,
   kind  |-> [n \in MCNode |-> labels[n].kind],
   func  |-> [n \in MCNode |-> labels[n].func],
   leaf  |-> [n \in MCNode |-> labels[n].leaf]]

\* Two powers the enclosure loses, on which nothing is claimed: an integer
\* beyond the limit is taken for a fraction, so that negative bases are clipped
\* away; and an exponent within the tolerance of 0 is taken for 0, so that the
\* power of 0 is 1.
LostByClipping(x, y) == x < 0 /\ y % One = 0 /\ AbsInt(y) > One * IntegerLimit
LostByRounding(x, y) == x = 0 /\ y > 0 /\ y < IntegerTolerance

MCApplyPoint(f, args) ==
  LET v == ApplyReal(f, args)
      lost == f = "Power" /\ Len(args) = 2
                /\ (LostByClipping(args[1], args[2]) \/ LostByRounding(args[1], args[2]))
  IN IF v \notin Finite \/ lost THEN Undefined ELSE v

\* What every node of e denotes at the input x.
PointAt(e, x) ==
  LET m[n \in MCNode] ==
        LET args == [j \in 1..Len(e.kids[n]) |-> m[e.kids[n][j]]]
        IN CASE e.kind[n] = "Variable"      -> IF e.leaf[n] = None THEN Undefined ELSE x
             [] e.kind[n] \in Leaves        -> IF e.leaf[n] = None THEN Undefined ELSE e.leaf[n].lo
             [] e.kind[n] \in Wrappers      -> args[1]
             [] e.kind[n] = "Unsupported"   -> Undefined
             [] e.kind[n] = "Conditional"   ->
                  IF args[1] = Undefined THEN Undefined
                  ELSE IF args[1] # 0 THEN args[2] ELSE args[3]
             [] \E j \in 1..Len(args) : args[j] = Undefined -> Undefined
             [] OTHER                       -> MCApplyPoint(e.func[n], args)
  IN m

\* The points are computed once and kept with the expression.
ExprOf(shape, input, labels) ==
  LET e == Blank(shape, input, labels)
      p == {PointAt(e, x) : x \in {v \in Finite : contains(input, v)}}
  IN  [root |-> 1, kids |-> shape, kind |-> e.kind, func |-> e.func, leaf |-> e.leaf, points |-> p]

MCPoints(e) == e.points

MCExprs ==
  UNION {{ExprOf(shape, input, l) :
            l \in LabelsOf(shape, 1, input) \X LabelsOf(shape, 2, input)
                    \X LabelsOf(shape, 3, input) \X LabelsOf(shape, 4, input)}
         : shape \in Shapes \cup {Chain}, input \in Inputs}

MCErrors == IntervalErrors \cup {Unbound, NoCachedValue, UnsupportedVariant}

MCEnclosures == [lo : Floats, hi : Floats]
MCZeroPoint == point(0)
=============================================================================
