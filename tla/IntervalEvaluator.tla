------------------------- MODULE IntervalEvaluator -------------------------
(***************************************************************************)
(* `evaluate_interval`: the image of an expression when its variable       *)
(* ranges over an interval, by the same explicit stacks as `evaluate`.     *)
(* One step is one turn of the `while let Some(frame) = work.pop()` loop.  *)
(*                                                                         *)
(* An expression is a record as in Evaluator, except that a leaf holds an  *)
(* enclosure: the point of a number or a cached constant, the input        *)
(* interval of the variable, None if the constant has no cached value or   *)
(* the variable is another one.  What a CachedValue has cached is never    *)
(* looked at: the wrapped expression is entered, whatever the cache holds. *)
(***************************************************************************)
EXTENDS FrameStacks

CONSTANTS
  Exprs,              \* the expressions evaluated
  Funcs,              \* the variants of ArithmaFunction
  Reals, Zero,        \* the finite values, 0 among them
  Undefined,          \* no finite value
  Enclosures,         \* the intervals
  Encloses(_, _),     \* Encloses(iv, v): the finite value v lies in iv
  ZeroPoint,          \* the interval that holds 0 and nothing else
  Union(_, _),        \* ArithmaInterval::union
  Errors,             \* the Err results, these three among them
  Unbound, NoCachedValue, UnsupportedVariant,
  None,
  NodeCap,            \* ARITHMA_INTERVAL_NODE_CAP
  ApplyPoint(_, _),   \* what a function makes of values
  ApplyInterval(_, _),\* apply_interval_function
  Points(_)           \* Points(e): what the nodes of e denote, for each input

Leaves    == {"Number", "Constant", "Variable"}
Wrappers  == {"CachedValue", "FourierOptimized"}
Operators == {"Function", "Conditional"}
Kinds     == Leaves \cup Wrappers \cup Operators \cup {"Unsupported"}

IsExpr(e) ==
  /\ e.root \in Node
  /\ e.kind \in [Node -> Kinds]
  /\ e.func \in [Node -> Funcs]
  /\ e.kids \in [Node -> Seq(Node)]
  /\ e.leaf \in [Node -> Enclosures \cup {None}]
  /\ \A n \in Node :
       /\ e.kind[n] \in Wrappers => Len(e.kids[n]) = 1
       /\ e.kind[n] = "Conditional" => Len(e.kids[n]) = 3
       /\ e.kind[n] = "Number" => e.leaf[n] # None

\* The value v is none, or lies in the enclosure.
Holds(iv, v) == v = Undefined \/ Encloses(iv, v)

(***************************************************************************)
(* The image: m gives every node the value it has at one input, Undefined  *)
(* where the expression has no finite value there.                         *)
(***************************************************************************)
IsPoint(e, m) ==
  /\ m \in [Node -> Reals \cup {Undefined}]
  /\ \A n \in Node :
       LET ops  == e.kids[n]
           args == [j \in 1..Len(ops) |-> m[ops[j]]]
       IN
       /\ e.kind[n] \in Leaves /\ e.leaf[n] # None => Holds(e.leaf[n], m[n])
       /\ e.kind[n] \in Wrappers => m[n] = m[ops[1]]
       /\ e.kind[n] = "Function" =>
            IF \E j \in 1..Len(ops) : args[j] = Undefined
              THEN m[n] = Undefined ELSE m[n] = ApplyPoint(e.func[n], args)
       /\ e.kind[n] = "Conditional" =>
            m[n] = IF args[1] = Undefined THEN Undefined
                   ELSE IF args[1] # Zero THEN args[2] ELSE args[3]

\* The functions called, each with a number of operands it is called with.
FunctionsCalled ==
  UNION {{<<e.func[n], Len(e.kids[n])>> : n \in {l \in Node : e.kind[l] = "Function"}}
         : e \in Exprs}

Inside(iv) == {v \in Reals : Encloses(iv, v)}

\* The interval extension of f to k operands refuses, or encloses what f makes
\* of whatever values its operands hold.
Extends(f, k) ==
  \A ivs \in [1..k -> Enclosures] :
    LET image == ApplyInterval(f, ivs)
    IN  \/ image \in Errors
        \/ /\ image \in Enclosures
           /\ \A vs \in [1..k -> UNION {Inside(ivs[j]) : j \in 1..k}] :
                (\A j \in 1..k : Encloses(ivs[j], vs[j])) => Holds(image, ApplyPoint(f, vs))

ASSUME ExprAssumption == \A e \in Exprs : IsExpr(e)
ASSUME ValueAssumption ==
  /\ Zero \in Reals /\ Undefined \notin Reals
  /\ Enclosures \cap Errors = {}
  /\ None \notin Enclosures \cup Errors
  /\ {Unbound, NoCachedValue, UnsupportedVariant} \subseteq Errors
  /\ ZeroPoint \in Enclosures
ASSUME ZeroAssumption == \A v \in Reals : Encloses(ZeroPoint, v) => v = Zero
ASSUME UnionAssumption ==
  \A x, y \in Enclosures :
    /\ Union(x, y) \in Enclosures
    /\ \A v \in Reals : Encloses(x, v) \/ Encloses(y, v) => Encloses(Union(x, y), v)
ASSUME FunctionAssumption == \A call \in FunctionsCalled : Extends(call[1], call[2])
ASSUME CapAssumption == NodeCap \in Nat
ASSUME PointAssumption == \A e \in Exprs : \A m \in Points(e) : IsPoint(e, m)
-----------------------------------------------------------------------------
VARIABLES
  expr,      \* the expression, with the input interval at its variable
  work,      \* stack of frames, top at the end
  values,    \* stack of operand intervals, top at the end
  guard,     \* frames popped so far
  outcome,   \* "running", or how the call returned
  result     \* Ok(interval) or Err

vars == <<expr, work, values, guard, outcome, result>>

TypeOK ==
  /\ IsExpr(expr)
  /\ work \in Seq(Frames)
  /\ values \in Seq(Enclosures)
  /\ guard \in 0..(NodeCap + 1)
  /\ outcome \in {"running", "ok", "error", "cap", "underflow", "badstack"}
  /\ result \in Enclosures \cup Errors \cup {None}

Init ==
  /\ expr \in Exprs
  /\ work = <<Enter(expr.root, <<>>)>>
  /\ values = <<>>
  /\ guard = 0
  /\ outcome = "running"
  /\ result = None

Top  == TopOf(work)
Rest == RestOf(work)

Return(how, what) == outcome' = how /\ result' = what
Continue == UNCHANGED <<outcome, result>>

\* The loop head: a frame is popped and counted.
Popping == outcome = "running" /\ work # <<>>

Pop(tag) ==
  /\ Popping
  /\ guard < NodeCap
  /\ Top.tag = tag
  /\ guard' = guard + 1
  /\ UNCHANGED expr

CapExceeded ==
  /\ Popping
  /\ guard >= NodeCap
  /\ guard' = guard + 1
  /\ work' = Rest
  /\ Return("cap", None)
  /\ UNCHANGED <<expr, values>>

\* A number, a constant with a cached value, the variable.
EnterLeaf ==
  /\ Pop("Enter")
  /\ expr.kind[Top.node] \in Leaves
  /\ expr.leaf[Top.node] # None
  /\ values' = Append(values, expr.leaf[Top.node])
  /\ work' = Rest
  /\ Continue

\* A constant without cached value, another variable; Sum, Limit and Product.
EnterRefused ==
  /\ Pop("Enter")
  /\ \/ expr.kind[Top.node] \in Leaves /\ expr.leaf[Top.node] = None
     \/ expr.kind[Top.node] = "Unsupported"
  /\ work' = Rest
  /\ Return("error", CASE expr.kind[Top.node] = "Variable"    -> Unbound
                       [] expr.kind[Top.node] = "Unsupported" -> UnsupportedVariant
                       [] OTHER                               -> NoCachedValue)
  /\ UNCHANGED values

\* Variant for the mutants: a filled cache is answered by its old value.
EnterCached ==
  /\ Pop("Enter")
  /\ expr.kind[Top.node] \in Wrappers
  /\ IF expr.leaf[Top.node] # None
       THEN values' = Append(values, expr.leaf[Top.node]) /\ work' = Rest
       ELSE work' = Append(Rest, Enter(expr.kids[Top.node][1], Top.below)) /\ UNCHANGED values
  /\ Continue

EnterWrapper ==
  /\ Pop("Enter")
  /\ expr.kind[Top.node] \in Wrappers
  /\ work' = Append(Rest, Enter(expr.kids[Top.node][1], Top.below))
  /\ Continue
  /\ UNCHANGED values

EnterOperator ==
  /\ Pop("Enter")
  /\ expr.kind[Top.node] \in Operators
  /\ work' = OperatorFrames(work, Top.node, expr.kids[Top.node], Top.below)
  /\ Continue
  /\ UNCHANGED values

Arity(n)     == Len(expr.kids[n])
Args(n)      == SubSeq(values, Len(values) - Arity(n) + 1, Len(values))
Remaining(n) == SubSeq(values, 1, Len(values) - Arity(n))

CombineFunc ==
  /\ Pop("Combine")
  /\ expr.kind[Top.node] = "Function"
  /\ work' = Rest
  /\ LET n   == Top.node
         out == ApplyInterval(expr.func[n], Args(n))
     IN IF Len(values) < Arity(n)
          THEN Return("underflow", None) /\ UNCHANGED values
        ELSE IF out \in Errors
          THEN Return("error", out) /\ values' = Remaining(n)
        ELSE Continue /\ values' = Append(Remaining(n), out)

\* Variant for the mutants: any condition that can be zero takes the else branch.
ElseIfPossible(c, t, e) == IF Encloses(c, Zero) THEN e ELSE t

\* Zero for certain takes the else branch, never zero the then branch, anything
\* in between both.
Either(c, t, e) ==
  IF c = ZeroPoint THEN e ELSE IF ~Encloses(c, Zero) THEN t ELSE Union(t, e)

CombineCond ==
  /\ Pop("Combine")
  /\ expr.kind[Top.node] = "Conditional"
  /\ work' = Rest
  /\ LET args == Args(Top.node) IN
     IF Len(values) < 3
       THEN Return("underflow", None) /\ UNCHANGED values
       ELSE /\ values' = Append(Remaining(Top.node), Either(args[1], args[2], args[3]))
            /\ Continue

Finish ==
  /\ outcome = "running"
  /\ work = <<>>
  /\ IF Len(values) = 1 THEN Return("ok", values[1]) ELSE Return("badstack", None)
  /\ UNCHANGED <<expr, work, values, guard>>

Next ==
  \/ CapExceeded
  \/ EnterLeaf \/ EnterRefused \/ EnterWrapper \/ EnterOperator
  \/ CombineFunc \/ CombineCond
  \/ Finish

Spec == Init /\ [][Next]_vars

-----------------------------------------------------------------------------
\* Each interval of ivs holds what its node denotes.
Covers(m, ivs, ns) ==
  /\ Len(ivs) = Len(ns)
  /\ \A j \in 1..Len(ns) : Holds(ivs[j], m[ns[j]])

FramesWellFormed ==
  \A i \in 1..Len(work) : work[i].tag = "Combine" => expr.kind[work[i].node] \in Operators

\* At every moment the stack holds one enclosure for each of the operands that
\* the pending frames wait for, and it covers that operand, whichever input in
\* the interval is meant.
Flat == [n \in Node |-> Zero]

Shaped ==
  /\ Chained(Flat, work, expr.kids, expr.root)
  /\ Len(values) = Len(Expected(work, expr.kids, expr.root))

CoverInv ==
  outcome = "running" =>
    /\ FramesWellFormed /\ Shaped
    /\ \A m \in Points(expr) :
         /\ Chained(m, work, expr.kids, expr.root)
         /\ Covers(m, values, Expected(work, expr.kids, expr.root))

\* The contract of evaluate_interval: the interval returned holds the value of
\* the expression at every input where it has one -- also when a branch, an
\* operand or the condition is undefined or overflows at other inputs, and
\* whatever a cache inside holds -- and the stacks never run out of step.
ImageEnclosed ==
  /\ outcome = "ok" => \A m \in Points(expr) : Holds(result, m[expr.root])
  /\ outcome \notin {"underflow", "badstack"}

=============================================================================
