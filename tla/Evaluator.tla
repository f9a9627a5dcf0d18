------------------------------ MODULE Evaluator ------------------------------
(***************************************************************************)
(* `impl Evaluable for ArithmaExpression`: numeric evaluation by an        *)
(* explicit work stack of frames and a stack of values, with no recursion. *)
(* One step is one turn of the `while let Some(frame) = work.pop()` loop.  *)
(*                                                                         *)
(* An expression is a record: its root, and for every node its kind, its   *)
(* function, its children in source order and its leaf value (the number,  *)
(* the constant's cached value, the variable's binding, the cached result; *)
(* None when the constant, the binding or the cache is empty).  Bindings   *)
(* never change during a call, so they are part of the expression here.    *)
(***************************************************************************)
EXTENDS FrameStacks

CONSTANTS
  Exprs,           \* the expressions evaluated
  Funcs,           \* the variants of ArithmaFunction
  Values,          \* f64, with its NaN and infinities
  Zero,            \* 0.0
  Faults,          \* every way evaluation fails, these three among them
  Unbound, NoCachedValue, UnsupportedVariant,
  None,            \* an empty Option<f64>
  NodeCap,         \* ARITHMA_EVALUATE_NODE_CAP
  Apply(_, _),     \* arithma_apply_function
  Meaning(_),      \* Meaning(e)[n]: what node n of e denotes (see IsMeaning)
  Elapsed(_)       \* the frames popped on the way through a node (see IsElapsed)

Leaves    == {"Number", "Constant", "Variable"}
Wrappers  == {"CachedValue", "FourierOptimized"}
Operators == {"Function", "Conditional"}
Kinds     == Leaves \cup Wrappers \cup Operators \cup {"Unsupported"}
Results   == Values \cup Faults

IsExpr(e) ==
  /\ e.root \in Node
  /\ e.kind \in [Node -> Kinds]
  /\ e.func \in [Node -> Funcs]
  /\ e.kids \in [Node -> Seq(Node)]
  /\ e.leaf \in [Node -> Values \cup {None}]
  /\ \A n \in Node :
       /\ e.kind[n] \in Wrappers => Len(e.kids[n]) = 1
       /\ e.kind[n] = "Conditional" => Len(e.kids[n]) = 3
       /\ e.kind[n] = "Number" => e.leaf[n] # None

(***************************************************************************)
(* Reference semantics, by structure alone.  Fault(e, n) is how node n     *)
(* fails by itself, None if its value depends on its operands.             *)
(***************************************************************************)
CachedHit(e, n) == e.kind[n] = "CachedValue" /\ e.leaf[n] # None

HasLeaf(e, n) == CachedHit(e, n) \/ (e.kind[n] \in Leaves /\ e.leaf[n] # None)

MissingLeaf(e, n) == IF e.kind[n] = "Variable" THEN Unbound ELSE NoCachedValue

Operands(e, n) ==
  IF CachedHit(e, n) \/ e.kind[n] \in Leaves \cup {"Unsupported"}
    THEN <<>> ELSE e.kids[n]

Choose3(args) == IF args[1] # Zero THEN args[2] ELSE args[3]

Combine(e, n, args) ==
  IF HasLeaf(e, n) THEN e.leaf[n]
  ELSE IF e.kind[n] = "Unsupported" THEN UnsupportedVariant
  ELSE IF e.kind[n] \in Leaves      THEN MissingLeaf(e, n)
  ELSE IF e.kind[n] = "Function"    THEN Apply(e.func[n], args)
  ELSE IF e.kind[n] = "Conditional" THEN Choose3(args)
  ELSE args[1]

\* m gives every node of e the fault of its first faulty operand, or else what
\* its own rule makes of its operands' values.
IsMeaning(e, m) ==
  /\ m \in [Node -> Results]
  /\ \A n \in Node :
       LET ops == Operands(e, n) IN
       /\ \A j \in 1..Len(ops) :
            (m[ops[j]] \in Faults /\ \A i \in 1..(j - 1) : m[ops[i]] \notin Faults)
              => m[n] = m[ops[j]]
       /\ (\A j \in 1..Len(ops) : m[ops[j]] \notin Faults)
            => m[n] = Combine(e, n, [j \in 1..Len(ops) |-> m[ops[j]]])

\* t[n][j] frames are popped from the moment node n is entered until the first j
\* of its operands have been evaluated; an operator's own frame comes last.
FramesFor(e, t, n) ==
  t[n][Len(Operands(e, n))] + IF e.kind[n] \in Operators THEN 1 ELSE 0

IsElapsed(e, t) ==
  \A n \in Node :
    LET ops == Operands(e, n) IN
    /\ t[n] \in [0..Len(ops) -> Nat]
    /\ t[n][0] = 1
    /\ \A j \in 1..Len(ops) : t[n][j] = t[n][j - 1] + FramesFor(e, t, ops[j])
    /\ \A j \in 0..Len(ops) : 1 <= t[n][j] /\ t[n][j] <= t[n][Len(ops)]

ASSUME ExprAssumption == \A e \in Exprs : IsExpr(e)
ASSUME ValueAssumption ==
  /\ Zero \in Values
  /\ Values \cap Faults = {}
  /\ None \notin Results
  /\ {Unbound, NoCachedValue, UnsupportedVariant} \subseteq Faults
ASSUME CapAssumption == NodeCap \in Nat
ASSUME MeaningAssumption == \A e \in Exprs : IsMeaning(e, Meaning(e))
ASSUME ElapsedAssumption == \A e \in Exprs : IsElapsed(e, Elapsed(e))
-----------------------------------------------------------------------------
VARIABLES
  expr,      \* the expression being evaluated
  work,      \* stack of frames, top at the end
  values,    \* stack of operand values, top at the end
  guard,     \* frames popped so far
  outcome,   \* "running", or how the call returned
  result     \* Ok(value), or the fault: an Err, or the panic of an operand read past the end

vars == <<expr, work, values, guard, outcome, result>>

TypeOK ==
  /\ IsExpr(expr)
  /\ work \in Seq(Frames)
  /\ values \in Seq(Values)
  /\ guard \in 0..(NodeCap + 1)
  /\ outcome \in {"running", "ok", "fault", "cap", "underflow", "badstack"}
  /\ result \in Results \cup {None}

Init ==
  /\ expr \in Exprs
  /\ work = <<Enter(expr.root, <<>>)>>
  /\ values = <<>>
  /\ guard = 0
  /\ outcome = "running"
  /\ result = None

Top == TopOf(work)
Rest == RestOf(work)

\* The loop head: a frame is popped and counted, and the cap is not exceeded.
Pop(tag) ==
  /\ outcome = "running"
  /\ work # <<>>
  /\ Top.tag = tag
  /\ guard' = guard + 1
  /\ guard' <= NodeCap
  /\ UNCHANGED expr

Return(how, what) ==
  /\ outcome' = how
  /\ result' = what

Continue == UNCHANGED <<outcome, result>>

\* Variant for the mutants: gives up one frame early.
CapReached ==
  /\ outcome = "running"
  /\ work # <<>>
  /\ guard + 1 >= NodeCap
  /\ guard' = guard + 1
  /\ work' = Rest
  /\ Return("cap", None)
  /\ UNCHANGED <<expr, values>>

CapExceeded ==
  /\ outcome = "running"
  /\ work # <<>>
  /\ guard + 1 > NodeCap
  /\ guard' = guard + 1
  /\ work' = Rest
  /\ Return("cap", None)
  /\ UNCHANGED <<expr, values>>

\* A number, a constant with a cached value, a bound variable, a filled cache.
EnterLeaf ==
  /\ Pop("Enter")
  /\ HasLeaf(expr, Top.node)
  /\ values' = Append(values, expr.leaf[Top.node])
  /\ work' = Rest
  /\ Continue

\* A constant without cached value, an unbound variable.
EnterMissing ==
  /\ Pop("Enter")
  /\ expr.kind[Top.node] \in Leaves
  /\ expr.leaf[Top.node] = None
  /\ work' = Rest
  /\ Return("fault", MissingLeaf(expr, Top.node))
  /\ UNCHANGED values

\* Sum, Limit and Product.
EnterUnsupported ==
  /\ Pop("Enter")
  /\ expr.kind[Top.node] = "Unsupported"
  /\ work' = Rest
  /\ Return("fault", UnsupportedVariant)
  /\ UNCHANGED values

\* Variant for the mutants: the wrapper itself is pushed again, before the count.
ReenterWrapper ==
  /\ outcome = "running"
  /\ work # <<>>
  /\ Top.tag = "Enter"
  /\ expr.kind[Top.node] \in Wrappers
  /\ ~CachedHit(expr, Top.node)
  /\ UNCHANGED vars

\* An empty cache or a Fourier wrapper: the wrapped expression takes its place.
EnterWrapper ==
  /\ Pop("Enter")
  /\ expr.kind[Top.node] \in Wrappers
  /\ ~CachedHit(expr, Top.node)
  /\ work' = Append(Rest, Enter(expr.kids[Top.node][1], Top.below))
  /\ Continue
  /\ UNCHANGED values

EnterOperator ==
  /\ Pop("Enter")
  /\ expr.kind[Top.node] \in Operators
  /\ work' = OperatorFrames(work, Top.node, expr.kids[Top.node], Top.below)
  /\ Continue
  /\ UNCHANGED values

\* The operands of a Combine frame: the last `arity` values of the stack.
Arity(n) == Len(expr.kids[n])
Args(n) == SubSeq(values, Len(values) - Arity(n) + 1, Len(values))
\* Variant for the mutants: operands are read but not drained.
NothingDrained(n) == values
Remaining(n) == SubSeq(values, 1, Len(values) - Arity(n))

\* "value stack underflow" is the code's own check of its bookkeeping.
CombineFunc ==
  /\ Pop("Combine")
  /\ expr.kind[Top.node] = "Function"
  /\ work' = Rest
  /\ LET n   == Top.node
         out == Apply(expr.func[n], Args(n))
     IN IF Len(values) < Arity(n)
          THEN Return("underflow", None) /\ UNCHANGED values
        ELSE IF out \in Faults
          THEN Return("fault", out) /\ values' = Remaining(n)
        ELSE Continue /\ values' = Append(Remaining(n), out)

\* All three parts of a conditional have been evaluated, the branch not taken too.
CombineCond ==
  /\ Pop("Combine")
  /\ expr.kind[Top.node] = "Conditional"
  /\ work' = Rest
  /\ IF Len(values) < 3
       THEN Return("underflow", None) /\ UNCHANGED values
       ELSE /\ values' = Append(Remaining(Top.node), Choose3(Args(Top.node)))
            /\ Continue

Finish ==
  /\ outcome = "running"
  /\ work = <<>>
  /\ IF Len(values) = 1 THEN Return("ok", values[1]) ELSE Return("badstack", None)
  /\ UNCHANGED <<expr, work, values, guard>>

Next ==
  \/ CapExceeded
  \/ EnterLeaf \/ EnterMissing \/ EnterUnsupported \/ EnterWrapper \/ EnterOperator
  \/ CombineFunc \/ CombineCond
  \/ Finish

Spec == Init /\ [][Next]_vars

\* The loop is run by one thread that nothing else can block.
FairSpec == Spec /\ WF_vars(Next)
-----------------------------------------------------------------------------
M == Meaning(expr)

\* The sequence of values vs is what the sequence of nodes ns denotes.
Denotes(vs, ns) ==
  /\ Len(vs) = Len(ns)
  /\ \A j \in 1..Len(ns) : vs[j] = M[ns[j]]

FramesWellFormed ==
  \A i \in 1..Len(work) :
    work[i].tag = "Combine" => expr.kind[work[i].node] \in Operators

\* What one frame leaves is what the frame under it expects.
Linked == Chained(M, work, expr.kids, expr.root)

ValuesMatch == Denotes(values, Expected(work, expr.kids, expr.root))

\* If everything evaluated before a pending frame succeeds and its node fails,
\* that failure is the failure of the whole expression.
FirstFaultDecides ==
  \A i \in 1..Len(work) :
    /\ M[work[i].node] \in Faults
    /\ \A j \in 1..Len(work[i].below) : M[work[i].below[j]] \notin Faults
    => M[expr.root] = M[work[i].node]

Answered ==
  /\ outcome \notin {"underflow", "badstack"}
  /\ outcome \in {"ok", "fault"} => result = M[expr.root]
  /\ outcome = "ok" => result \in Values
  /\ outcome = "fault" => result \in Faults
  /\ outcome \in {"running", "cap"} => result = None

\* In every reachable state the value stack holds exactly the values of the
\* operands the pending frames are waiting for, so neither underflow check can
\* fire, no operand can be given to the wrong operator, and a returned value or
\* error is the one the recursive reading of the expression gives.
StackInv ==
  /\ outcome = "running" =>
       FramesWellFormed /\ Linked /\ ValuesMatch /\ FirstFaultDecides
  /\ Answered

\* The node cap counts frames, not nodes, and bites exactly where it says: a
\* call that returned a value needed no more frames than the cap, and a call
\* refused by the cap needed more.
CapExact ==
  /\ outcome = "ok"  => FramesFor(expr, Elapsed(expr), expr.root) = guard /\ guard <= NodeCap
  /\ outcome = "cap" => FramesFor(expr, Elapsed(expr), expr.root) > NodeCap

(***************************************************************************)
(* Evaluation is implemented: `evaluate` returns exactly the value the     *)
(* expression denotes, or the error of the first faulty sub-expression, or *)
(* the node-cap error; the stacks never underflow and end with one value.  *)
(***************************************************************************)
Abstract == INSTANCE Evaluation
ImplementsEvaluation == Abstract!Spec

\* Every call returns: the loop cannot run for ever.
Terminates == <>(outcome # "running")
=============================================================================
