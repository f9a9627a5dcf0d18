---------------------------- MODULE MCEvaluator ----------------------------
(***************************************************************************)
(* Every expression of six shapes, of at most four nodes, over labels      *)
(* chosen so that each kind of node, each fault, overflow to infinity, NaN *)
(* and a stale cache occur at every position.                              *)
(***************************************************************************)
EXTENDS Evaluator, FloatFunctions

Label(kind, func, leaf) == [kind |-> kind, func |-> func, leaf |-> leaf]

LeafLabels ==
  {Label("Number", "Add", v) : v \in {-1, 0, 2}}
  \cup {Label("Constant", "Add", None), Label("Variable", "Add", 1),
        Label("Variable", "Add", None), Label("Unsupported", "Add", None),
        Label("Function", "Add", None), Label("Function", "Sqrt", None)}

UnaryLabels ==
  {Label("CachedValue", "Add", None), Label("CachedValue", "Add", 2),
   Label("FourierOptimized", "Add", None),
   Label("Function", "Sqrt", None), Label("Function", "Negate", None)}

BinaryLabels ==
  {Label("Function", f, None) : f \in {"Subtract", "Divide", "Min"}}

TernaryLabels == {Label("Conditional", "Add", None), Label("Function", "Multiply", None)}

LabelsOf(arity) ==
  <<LeafLabels, UnaryLabels, BinaryLabels, TernaryLabels>>[arity + 1]

\* Children have larger names than their parent, and the root is node 1.
MCNode == 1..4
Shapes ==
  { << <<>>, <<>>, <<>>, <<>> >>,
    << <<2, 3>>, <<>>, <<>>, <<>> >>,
    << <<2>>, <<3, 4>>, <<>>, <<>> >>,
    << <<2, 3>>, <<4>>, <<>>, <<>> >>,
    << <<2, 3>>, <<>>, <<4>>, <<>> >>,
    << <<2, 3, 4>>, <<>>, <<>>, <<>> >> }

\* Nodes a shape does not use all carry the same label.
Used(shape) == {1} \cup UNION {{shape[n][j] : j \in 1..Len(shape[n])} : n \in MCNode}
Spare == Label("Number", "Add", 0)

\* One label per node, as nested tuples so that no large function set is built.
Labellings(shape) ==
  LET L(n) == IF n \in Used(shape) THEN LabelsOf(Len(shape[n])) ELSE {Spare}
  IN  L(1) \X L(2) \X L(3) \X L(4)

ExprOf(shape, labels) ==
  [root |-> 1,
   kids |-> shape,
   kind |-> [n \in MCNode |-> labels[n].kind],
   func |-> [n \in MCNode |-> labels[n].func],
   leaf |-> [n \in MCNode |-> labels[n].leaf]]

MCExprs == UNION {{ExprOf(shape, l) : l \in Labellings(shape)} : shape \in Shapes}

MCFaults == ApplyFaults \cup {Unbound, NoCachedValue, UnsupportedVariant}

\* The meaning of each node, from the meanings of the nodes below it.
MCMeaning(e) ==
  LET Hit(n)  == e.kind[n] = "CachedValue" /\ e.leaf[n] # None
      Ops(n)  == IF Hit(n) THEN <<>> ELSE e.kids[n]
      m[n \in MCNode] ==
        LET args   == [j \in 1..Len(Ops(n)) |-> m[Ops(n)[j]]]
            faulty == {j \in 1..Len(args) : args[j] \in MCFaults}
        IN IF faulty # {} THEN args[CHOOSE j \in faulty : \A i \in faulty : j <= i]
           ELSE CASE Hit(n) \/ e.kind[n] = "Number"  -> e.leaf[n]
                  [] e.kind[n] = "Constant"  -> IF e.leaf[n] = None THEN NoCachedValue ELSE e.leaf[n]
                  [] e.kind[n] = "Variable"  -> IF e.leaf[n] = None THEN Unbound ELSE e.leaf[n]
                  [] e.kind[n] = "Unsupported" -> UnsupportedVariant
                  [] e.kind[n] = "Function"    -> ApplyFunction(e.func[n], args)
                  [] e.kind[n] = "Conditional" -> IF args[1] # 0 THEN args[2] ELSE args[3]
                  [] OTHER -> args[1]
  IN m

\* One frame per node entered, and one more per operator.
MCElapsed(e) ==
  LET t[n \in MCNode] ==
        LET ops  == Operands(e, n)
            c(j) == t[ops[j]][Len(Operands(e, ops[j]))]
                      + IF e.kind[ops[j]] \in Operators THEN 1 ELSE 0
        IN [j \in 0..Len(ops) |->
              1 + (IF j > 0 THEN c(1) ELSE 0) + (IF j > 1 THEN c(2) ELSE 0)
                + (IF j > 2 THEN c(3) ELSE 0)]
  IN t
=============================================================================
