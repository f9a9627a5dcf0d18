----------------------- MODULE IntervalEvaluatorProofs -----------------------
(***************************************************************************)
(* For every expression, every input interval and every node cap: if the   *)
(* union of intervals and the interval extension of each function enclose  *)
(* what they should, so does the interval that `evaluate_interval` returns.*)
(***************************************************************************)
EXTENDS IntervalEvaluator

IInv ==
  /\ expr \in Exprs
  /\ TypeOK
  /\ outcome = "running" => guard <= NodeCap
  /\ CoverInv
  /\ ImageEnclosed

(***************************************************************************)
(* What the value of each kind of node is, at a point.                     *)
(***************************************************************************)
LEMMA LeafHeld ==
  ASSUME NEW e \in Exprs, NEW m \in Points(e), NEW n \in Node,
         e.kind[n] \in Leaves, e.leaf[n] # None
  PROVE  e.leaf[n] \in Enclosures /\ Holds(e.leaf[n], m[n])
<1>1. IsExpr(e) /\ IsPoint(e, m)
  BY ExprAssumption, PointAssumption
<1>2. e.leaf[n] \in Enclosures
  BY <1>1 DEF IsExpr
<1>3. Holds(e.leaf[n], m[n])
  BY <1>1 DEF IsPoint
<1>. QED  BY <1>2, <1>3

LEMMA WrapperPoint ==
  ASSUME NEW e \in Exprs, NEW m \in Points(e), NEW n \in Node, e.kind[n] \in Wrappers
  PROVE  m[e.kids[n][1]] = m[n]
BY PointAssumption DEF IsPoint

LEMMA WrapperChild ==
  ASSUME NEW e \in Exprs, NEW n \in Node, e.kind[n] \in Wrappers
  PROVE  e.kids[n][1] \in Node
<1>1. e.kids[n] \in Seq(Node) /\ Len(e.kids[n]) = 1
  BY ExprAssumption DEF IsExpr
<1>. QED  BY <1>1, ElementOfSeq

\* What an operator makes of enclosures of its operands encloses its value.
LEMMA FunctionHeld ==
  ASSUME NEW e \in Exprs, NEW m \in Points(e), NEW n \in Node, e.kind[n] = "Function",
         NEW ivs \in Seq(Enclosures), Covers(m, ivs, e.kids[n]),
         ApplyInterval(e.func[n], ivs) \notin Errors
  PROVE  Holds(ApplyInterval(e.func[n], ivs), m[n])
<1>a. PICK f, k, ops : f = e.func[n] /\ k = Len(e.kids[n]) /\ ops = e.kids[n]
  OBVIOUS
<1>b. PICK args : args = [j \in 1..k |-> m[ops[j]]]
  OBVIOUS
<1>1. IsPoint(e, m) /\ ops \in Seq(Node) /\ k \in Nat
  BY <1>a, ExprAssumption, PointAssumption, LenProperties DEF IsExpr
<1>2. m[n] = IF \E j \in 1..k : args[j] = Undefined THEN Undefined ELSE ApplyPoint(f, args)
  BY <1>1, <1>a, <1>b DEF IsPoint
<1>3. CASE \E j \in 1..k : args[j] = Undefined
  BY <1>2, <1>3 DEF Holds
<1>4. CASE ~ \E j \in 1..k : args[j] = Undefined
  <2>1. \A j \in 1..k : args[j] \in Reals /\ args[j] = m[ops[j]]
    <3>1. \A j \in 1..k : ops[j] \in Node
      BY <1>1, <1>a, ElementOfSeq
    <3>. QED  BY <1>1, <1>4, <1>b, <3>1 DEF IsPoint
  <2>2. Len(ivs) = k /\ \A j \in 1..k : ivs[j] \in Enclosures /\ Encloses(ivs[j], args[j])
    BY <1>4, <1>a, <2>1, ElementOfSeq DEF Covers, Holds
  <2>3. ivs \in [1..k -> Enclosures]
    BY <2>2, LenProperties
  <2>4. args \in [1..k -> UNION {Inside(ivs[j]) : j \in 1..k}]
    <3>1. \A j \in 1..k : args[j] \in Inside(ivs[j])
      BY <2>1, <2>2 DEF Inside
    <3>. QED  BY <1>b, <3>1
  <2>5. Extends(f, k)
    <3>1. <<f, k>> \in FunctionsCalled
      BY <1>a DEF FunctionsCalled
    <3>. QED  BY <3>1, FunctionAssumption
  <2>6. ApplyInterval(f, ivs) \in Errors \/ Holds(ApplyInterval(f, ivs), ApplyPoint(f, args))
    BY <2>1, <2>2, <2>3, <2>4, <2>5 DEF Extends, Inside
  <2>. QED  BY <1>2, <1>4, <1>a, <2>6
<1>. QED  BY <1>3, <1>4

LEMMA FunctionEnclosure ==
  ASSUME NEW e \in Exprs, NEW n \in Node, e.kind[n] = "Function",
         NEW ivs \in Seq(Enclosures), Len(ivs) = Len(e.kids[n])
  PROVE  ApplyInterval(e.func[n], ivs) \in Enclosures \cup Errors
<1>1. <<e.func[n], Len(e.kids[n])>> \in FunctionsCalled
  BY DEF FunctionsCalled
<1>2. ivs \in [1..Len(e.kids[n]) -> Enclosures]
  BY LenProperties
<1>. QED  BY <1>1, <1>2, FunctionAssumption DEF Extends

LEMMA ConditionalHeld ==
  ASSUME NEW e \in Exprs, NEW m \in Points(e), NEW n \in Node, e.kind[n] = "Conditional",
         NEW ivs \in Seq(Enclosures), Covers(m, ivs, e.kids[n])
  PROVE  Holds(Either(ivs[1], ivs[2], ivs[3]), m[n])
<1>a. PICK ops, c, t, f : ops = e.kids[n] /\ c = ivs[1] /\ t = ivs[2] /\ f = ivs[3]
  OBVIOUS
<1>1. IsPoint(e, m) /\ ops \in Seq(Node) /\ Len(ops) = 3
  BY <1>a, ExprAssumption, PointAssumption DEF IsExpr
<1>2. ops[1] \in Node /\ ops[2] \in Node /\ ops[3] \in Node
  BY <1>1, ThreeElements
<1>3. /\ m[ops[1]] \in Reals \cup {Undefined}
      /\ m[ops[2]] \in Reals \cup {Undefined}
      /\ m[ops[3]] \in Reals \cup {Undefined}
  BY <1>1, <1>2 DEF IsPoint
<1>4. m[n] = IF m[ops[1]] = Undefined THEN Undefined
             ELSE IF m[ops[1]] # Zero THEN m[ops[2]] ELSE m[ops[3]]
  <2>1. PICK args : args = [j \in 1..Len(e.kids[n]) |-> m[e.kids[n][j]]]
    OBVIOUS
  <2>2. m[n] = IF args[1] = Undefined THEN Undefined
               ELSE IF args[1] # Zero THEN args[2] ELSE args[3]
    BY ONLY <1>1, <2>1, n \in Node, e.kind[n] = "Conditional" DEF IsPoint
  <2>3. args[1] = m[ops[1]] /\ args[2] = m[ops[2]] /\ args[3] = m[ops[3]]
    BY <1>1, <1>a, <2>1
  <2>. QED  BY ONLY <2>2, <2>3
<1>5. /\ Len(ivs) = 3 /\ c \in Enclosures /\ t \in Enclosures /\ f \in Enclosures
      /\ Holds(c, m[ops[1]]) /\ Holds(t, m[ops[2]]) /\ Holds(f, m[ops[3]])
  BY <1>1, <1>a, ElementOfSeq DEF Covers
<1>6. Holds(Either(c, t, f), m[n])
  <2>1. CASE m[ops[1]] = Undefined
    BY <1>4, <2>1 DEF Holds
  <2>2. CASE m[ops[1]] # Undefined /\ c = ZeroPoint
    BY <1>3, <1>4, <1>5, <2>2, ZeroAssumption DEF Holds, Either
  <2>3. CASE m[ops[1]] # Undefined /\ c # ZeroPoint /\ ~Encloses(c, Zero)
    BY <1>3, <1>4, <1>5, <2>3 DEF Holds, Either
  <2>4. CASE m[ops[1]] # Undefined /\ c # ZeroPoint /\ Encloses(c, Zero)
    BY <1>3, <1>4, <1>5, <2>4, UnionAssumption DEF Holds, Either
  <2>. QED  BY <2>1, <2>2, <2>3, <2>4
<1>. QED  BY <1>6, <1>a

(***************************************************************************)
(* What the invariant says of the frame about to be popped.                *)
(***************************************************************************)
Walking == IInv /\ Popping

\* The stack of values, under the frame f for node n, with below b.
Covered(ivs, ns) ==
  /\ ivs \in Seq(Enclosures)
  /\ Len(ivs) = Len(ns)
  /\ \A m \in Points(expr) : Covers(m, ivs, ns)

LEMMA TopType ==
  ASSUME Walking
  PROVE  /\ work \in Seq(Frames) /\ work # <<>> /\ Len(work) \in Nat \ {0}
         /\ Top \in Frames /\ Top.node \in Node /\ Top.below \in Seq(Node)
         /\ Rest \in Seq(Frames) /\ Len(Rest) = Len(work) - 1
         /\ \A i \in 1..(Len(work) - 1) : Rest[i] = work[i] /\ work[i] \in Frames
         /\ expr \in Exprs /\ IsExpr(expr) /\ outcome = "running"
         /\ FramesWellFormed /\ Shaped
         /\ Covered(values, Pre(Top, expr.kids))
<1>1. work \in Seq(Frames) /\ work # <<>> /\ values \in Seq(Enclosures)
      /\ expr \in Exprs /\ IsExpr(expr) /\ outcome = "running"
  BY DEF Walking, Popping, IInv, TypeOK
<1>2. FramesWellFormed /\ Shaped
      /\ \A m \in Points(expr) : Covers(m, values, Expected(work, expr.kids, expr.root))
  BY <1>1 DEF Walking, IInv, CoverInv
<1>3. Expected(work, expr.kids, expr.root) = Pre(Top, expr.kids)
  BY <1>1 DEF Expected, Top
<1>4. Covered(values, Pre(Top, expr.kids))
  BY <1>1, <1>2, <1>3 DEF Covered, Shaped
<1>. QED  BY <1>1, <1>2, <1>4, TopFrame DEF Top, Rest

\* Pushing an enclosure of a node on what covers the nodes below it.
LEMMA PushCovered ==
  ASSUME NEW ivs, NEW b \in Seq(Node), Covered(ivs, b),
         NEW n \in Node, NEW iv \in Enclosures,
         \A m \in Points(expr) : Holds(iv, m[n])
  PROVE  Covered(Append(ivs, iv), Append(b, n))
<1>0. ivs \in Seq(Enclosures) /\ Len(ivs) = Len(b) /\ Len(b) \in Nat
  BY LenProperties DEF Covered
<1>1. /\ Append(ivs, iv) \in Seq(Enclosures) /\ Len(Append(ivs, iv)) = Len(ivs) + 1
      /\ \A i \in 1..Len(ivs) : Append(ivs, iv)[i] = ivs[i]
      /\ Append(ivs, iv)[Len(ivs) + 1] = iv
  BY <1>0, AppendProperties
<1>2. /\ Len(Append(b, n)) = Len(b) + 1
      /\ \A i \in 1..Len(b) : Append(b, n)[i] = b[i]
      /\ Append(b, n)[Len(b) + 1] = n
  BY AppendProperties
<1>3. ASSUME NEW m \in Points(expr)
      PROVE  Covers(m, Append(ivs, iv), Append(b, n))
  <2>1. \A j \in 1..Len(b) : Holds(ivs[j], m[b[j]])
    BY DEF Covered, Covers
  <2>2. \A j \in 1..(Len(b) + 1) : Holds(Append(ivs, iv)[j], m[Append(b, n)[j]])
    BY <1>0, <1>1, <1>2, <2>1
  <2>. QED  BY <1>0, <1>1, <1>2, <2>2 DEF Covers
<1>. QED  BY <1>0, <1>1, <1>2, <1>3 DEF Covered

\* A Combine frame finds enclosures of its operands above what lies below it.
LEMMA CombineOperands ==
  ASSUME Walking, Top.tag = "Combine"
  PROVE  /\ expr.kind[Top.node] \in Operators
         /\ Len(values) >= Arity(Top.node)
         /\ Covered(Args(Top.node), expr.kids[Top.node])
         /\ Covered(Remaining(Top.node), Top.below)
<1>a. PICK n, b : n = Top.node /\ b = Top.below
  OBVIOUS
<1>b. PICK k, vs : k = expr.kids[n] /\ vs = values
  OBVIOUS
<1>1. n \in Node /\ b \in Seq(Node) /\ k \in Seq(Node)
  BY <1>a, <1>b, TopType DEF IsExpr
<1>2. expr.kind[n] \in Operators
  BY <1>a, TopType DEF FramesWellFormed, Top, TopOf
<1>3. Covered(vs, b \o k)
  BY <1>a, <1>b, TopType DEF Pre
<1>4. Arity(n) = Len(k)
      /\ Args(n) = SubSeq(vs, Len(vs) - Len(k) + 1, Len(vs))
      /\ Remaining(n) = SubSeq(vs, 1, Len(vs) - Len(k))
  BY <1>b DEF Arity, Args, Remaining
<1>5. Split(vs, Enclosures, b, k, Args(n), Remaining(n))
  BY <1>1, <1>3, <1>4, OperandsSplit DEF Covered
<1>6. ASSUME NEW m \in Points(expr)
      PROVE  Covers(m, Args(n), k) /\ Covers(m, Remaining(n), b)
  <2>1. \A j \in 1..Len(b \o k) : Holds(vs[j], m[(b \o k)[j]])
    BY <1>3 DEF Covered, Covers
  <2>2. \A j \in 1..Len(k) : Holds(Args(n)[j], m[k[j]])
    BY <1>5, <2>1 DEF Split
  <2>3. \A j \in 1..Len(b) : Holds(Remaining(n)[j], m[b[j]])
    BY <1>5, <2>1 DEF Split
  <2>. QED  BY <1>5, <2>2, <2>3 DEF Covers, Split
<1>7. Covered(Args(n), k) /\ Covered(Remaining(n), b)
  BY <1>5, <1>6 DEF Covered, Split
<1>. QED  BY <1>2, <1>4, <1>5, <1>7, <1>a, <1>b DEF Split

(***************************************************************************)
(* The invariant.                                                          *)
(***************************************************************************)
LEMMA InitInv == Init => IInv
<1>. SUFFICES ASSUME Init PROVE IInv
  OBVIOUS
<1>1. IsExpr(expr) /\ expr.root \in Node /\ work = <<Enter(expr.root, <<>>)>> /\ values = <<>>
  BY ExprAssumption DEF Init, IsExpr
<1>2. /\ work \in Seq(Frames) /\ work # <<>> /\ Len(work) = 1
      /\ work[1] = Enter(expr.root, <<>>)
      /\ Expected(work, expr.kids, expr.root) = <<>>
  BY <1>1, ChainStart
<1>3. ASSUME NEW m PROVE Chained(m, work, expr.kids, expr.root)
  BY <1>1, ChainStart
<1>4. TypeOK
  BY <1>1, <1>2, CapAssumption DEF Init, TypeOK
<1>5. FramesWellFormed
  BY <1>2 DEF FramesWellFormed, Enter
<1>6. Shaped
  BY <1>1, <1>2, <1>3 DEF Shaped
<1>7. \A m \in Points(expr) : Covers(m, values, Expected(work, expr.kids, expr.root))
  BY <1>1, <1>2 DEF Covers
<1>. QED  BY <1>3, <1>4, <1>5, <1>6, <1>7, CapAssumption DEF Init, IInv, CoverInv, ImageEnclosed

\* A turn of the loop that goes on: the discipline of the stacks suffices.
LEMMA ContinueInv ==
  ASSUME Walking, expr' = expr, guard' = guard + 1, guard < NodeCap, Continue,
         work' \in Seq(Frames), FramesWellFormed',
         \A m : Chained(m, work, expr.kids, expr.root) /\ m \in Points(expr) \cup {Flat}
                   => Chained(m, work', expr.kids, expr.root),
         Covered(values', Expected(work', expr.kids, expr.root))
  PROVE  IInv'
<1>1. /\ outcome = "running" /\ outcome' = outcome /\ result' = result
      /\ TypeOK /\ expr \in Exprs /\ Shaped
      /\ \A m \in Points(expr) : Chained(m, work, expr.kids, expr.root)
  BY DEF Walking, Popping, IInv, CoverInv, Continue
<1>2. TypeOK'
  BY <1>1, CapAssumption DEF TypeOK, Covered
<1>3. Shaped'
  BY <1>1 DEF Shaped, Covered
<1>4. \A m \in Points(expr) :
        /\ Chained(m, work', expr.kids, expr.root)
        /\ Covers(m, values', Expected(work', expr.kids, expr.root))
  BY <1>1 DEF Covered
<1>5. CoverInv'
  BY <1>1, <1>3, <1>4 DEF CoverInv, Covers
<1>6. ImageEnclosed'
  BY <1>1 DEF ImageEnclosed
<1>7. guard' <= NodeCap
  BY <1>1, CapAssumption DEF TypeOK
<1>. QED  BY <1>1, <1>2, <1>5, <1>6, <1>7 DEF IInv

\* A popped frame leaves an enclosure of its node.
LEMMA ValueInv ==
  ASSUME Walking, expr' = expr, guard' = guard + 1, guard < NodeCap, Continue,
         work' = Rest, Covered(values', Post(Top))
  PROVE  IInv'
<1>1. work \in Seq(Frames) /\ work # <<>> /\ work' = RestOf(work) /\ Top = TopOf(work)
  BY TopType DEF Rest, Top
<1>2. ASSUME NEW m, Chained(m, work, expr.kids, expr.root)
      PROVE  /\ Chained(m, work', expr.kids, expr.root)
             /\ SamePoint(m, Post(Top), Expected(work', expr.kids, expr.root))
  BY <1>1, <1>2, ChainPop
<1>3. FramesWellFormed'
  <2>1. /\ Len(work') = Len(work) - 1 /\ Len(work) \in Nat
        /\ \A i \in 1..(Len(work) - 1) : work'[i] = work[i]
        /\ FramesWellFormed
    BY TopType
  <2>. QED  BY <2>1 DEF FramesWellFormed
<1>4. Covered(values', Expected(work', expr.kids, expr.root))
  <2>1. SamePoint(Flat, Post(Top), Expected(work', expr.kids, expr.root))
    BY <1>2, TopType DEF Shaped
  <2>2. ASSUME NEW m \in Points(expr)
        PROVE  Covers(m, values', Expected(work', expr.kids, expr.root))
    <3>1. Chained(m, work, expr.kids, expr.root)
      BY DEF Walking, Popping, IInv, CoverInv
    <3>2. SamePoint(m, Post(Top), Expected(work', expr.kids, expr.root))
      BY <1>2, <3>1
    <3>. QED  BY <3>2 DEF Covered, Covers, SamePoint
  <2>. QED  BY <2>1, <2>2 DEF Covered, SamePoint
<1>5. work' \in Seq(Frames)
  BY TopType
<1>. QED  BY <1>2, <1>3, <1>4, <1>5, ContinueInv

\* A call that ends without an interval promises nothing of it.
LEMMA EndInv ==
  ASSUME IInv, outcome = "running", expr' = expr, guard' \in 0..(NodeCap + 1),
         work' \in Seq(Frames), values' \in Seq(Enclosures),
         outcome' \in {"error", "cap"}, result' \in Errors \cup {None}
  PROVE  IInv'
<1>1. TypeOK'
  BY DEF IInv, TypeOK
<1>2. CoverInv' /\ ImageEnclosed'
  BY DEF CoverInv, ImageEnclosed
<1>. QED  BY <1>1, <1>2 DEF IInv

LEMMA StepInv == IInv /\ [Next]_vars => IInv'
<1>. SUFFICES ASSUME IInv, [Next]_vars PROVE IInv'
  OBVIOUS
<1>a. /\ expr \in Exprs /\ IsExpr(expr) /\ work \in Seq(Frames) /\ values \in Seq(Enclosures)
      /\ guard \in 0..(NodeCap + 1) /\ NodeCap \in Nat
      /\ outcome = "running" => guard <= NodeCap
  BY CapAssumption DEF IInv, TypeOK
<1>1. CASE CapExceeded
  <2>1. /\ Walking /\ outcome = "running" /\ expr' = expr /\ values' = values
        /\ guard' = guard + 1 /\ work' = Rest /\ outcome' = "cap" /\ result' = None
    BY <1>1 DEF CapExceeded, Walking, Popping, Return
  <2>. QED  BY <1>a, <2>1, TopType, EndInv
<1>2. CASE EnterLeaf
  <2>1. /\ Walking /\ expr' = expr /\ guard' = guard + 1 /\ guard < NodeCap /\ Continue
        /\ work' = Rest /\ Top.tag = "Enter"
        /\ expr.kind[Top.node] \in Leaves /\ expr.leaf[Top.node] # None
        /\ values' = Append(values, expr.leaf[Top.node])
    BY <1>2 DEF EnterLeaf, Pop, Walking
  <2>2. Top.node \in Node /\ Top.below \in Seq(Node) /\ Covered(values, Top.below)
    BY <2>1, TopType DEF Pre
  <2>3. expr.leaf[Top.node] \in Enclosures
    BY <1>a, <2>1, <2>2 DEF IsExpr
  <2>4. \A m \in Points(expr) : Holds(expr.leaf[Top.node], m[Top.node])
    BY <1>a, <2>1, <2>2, LeafHeld
  <2>5. Covered(values', Post(Top))
    BY <2>1, <2>2, <2>3, <2>4, PushCovered DEF Post
  <2>. QED  BY <2>1, <2>5, ValueInv
<1>3. CASE EnterRefused
  <2>1. /\ Walking /\ outcome = "running" /\ expr' = expr /\ values' = values
        /\ guard' = guard + 1 /\ work' = Rest /\ outcome' = "error"
        /\ result' \in {Unbound, UnsupportedVariant, NoCachedValue}
    BY <1>3 DEF EnterRefused, Pop, Walking, Popping, Return
  <2>. QED  BY <1>a, <2>1, TopType, ValueAssumption, EndInv
<1>4. CASE EnterWrapper
  <2>. DEFINE c == expr.kids[Top.node][1]
  <2>1. /\ Walking /\ expr' = expr /\ guard' = guard + 1 /\ guard < NodeCap /\ Continue
        /\ work' = Append(Rest, Enter(c, Top.below)) /\ Top.tag = "Enter"
        /\ expr.kind[Top.node] \in Wrappers /\ values' = values
    BY <1>4 DEF EnterWrapper, Pop, Walking
  <2>2. c \in Node /\ \A m \in Points(expr) \cup {Flat} : m[c] = m[Top.node]
    <3>1. c \in Node /\ Top.node \in Node
      BY <1>a, <2>1, TopType, WrapperChild
    <3>2. Flat[c] = Flat[Top.node]
      BY <3>1 DEF Flat
    <3>3. \A m \in Points(expr) : m[c] = m[Top.node]
      BY <1>a, <2>1, <3>1, WrapperPoint
    <3>. QED  BY <3>1, <3>2, <3>3
  <2>. HIDE DEF c
  <2>3. ASSUME NEW m \in Points(expr) \cup {Flat}, Chained(m, work, expr.kids, expr.root)
        PROVE  Replaced(m, work', work, c, expr.kids, expr.root)
    <3>1. work \in Seq(Frames) /\ work # <<>> /\ c \in Node /\ m[c] = m[TopOf(work).node]
          /\ work' = Append(RestOf(work), Enter(c, TopOf(work).below))
      BY <2>1, <2>2, TopType DEF Top, Rest
    <3>. QED  BY ONLY <2>3, <3>1, ChainReplace
  <2>4. Shaped /\ FramesWellFormed /\ Len(work) \in Nat \ {0}
        /\ Covered(values, Top.below) /\ Top = TopOf(work)
    BY <2>1, TopType DEF Pre, Top
  <2>5. Replaced(Flat, work', work, c, expr.kids, expr.root)
    BY <2>3, <2>4 DEF Shaped
  <2>6. FramesWellFormed'
    BY <2>1, <2>4, <2>5 DEF Replaced, FramesWellFormed, Enter
  <2>7. Covered(values', Expected(work', expr.kids, expr.root))
    BY <2>1, <2>4, <2>5 DEF Replaced
  <2>8. work' \in Seq(Frames)
    BY <2>5 DEF Replaced
  <2>9. \A m : Chained(m, work, expr.kids, expr.root) /\ m \in Points(expr) \cup {Flat}
                => Chained(m, work', expr.kids, expr.root)
    BY <2>3 DEF Replaced
  <2>. QED  BY <2>1, <2>6, <2>7, <2>8, <2>9, ContinueInv
<1>5. CASE EnterOperator
  <2>a. PICK n, b, k, L : n = Top.node /\ b = Top.below /\ k = expr.kids[n] /\ L = Len(work)
    OBVIOUS
  <2>1. /\ Walking /\ expr' = expr /\ guard' = guard + 1 /\ guard < NodeCap /\ Continue
        /\ work' = OperatorFrames(work, n, k, b) /\ Top.tag = "Enter"
        /\ expr.kind[n] \in Operators /\ values' = values
    BY <1>5, <2>a DEF EnterOperator, Pop, Walking
  <2>2. /\ n \in Node /\ b \in Seq(Node) /\ k \in Seq(Node) /\ L \in Nat \ {0}
        /\ work # <<>> /\ Shaped /\ FramesWellFormed /\ Covered(values, b)
        /\ expr.kids \in [Node -> Seq(Node)]
    <3>1. Pre(Top, expr.kids) = Top.below
      BY <2>1 DEF Pre
    <3>. QED  BY <1>a, <2>1, <2>a, <3>1, TopType DEF IsExpr
  <2>3. ASSUME NEW m, Chained(m, work, expr.kids, expr.root)
        PROVE  /\ Chained(m, work', expr.kids, expr.root)
               /\ Expected(work', expr.kids, expr.root) = b
    <3>1. work' = OperatorFrames(work, TopOf(work).node, expr.kids[TopOf(work).node],
                                 TopOf(work).below)
          /\ TopOf(work).below = b
      BY <2>1, <2>a DEF Top
    <3>. QED  BY <1>a, <2>2, <2>3, <3>1, ChainPush
  <2>4. OperatorPushed(work', work, n, k, b)
    BY <1>a, <2>1, <2>2, OperatorShape
  <2>5. FramesWellFormed'
    <3>1. PICK K : K = Len(k)
      OBVIOUS
    <3>2. /\ L \in Nat \ {0} /\ K \in Nat /\ Len(work') = L + K
      BY <2>2, <2>4, <2>a, <3>1, LenProperties DEF OperatorPushed
    <3>. SUFFICES ASSUME NEW i \in 1..(L + K), work'[i].tag = "Combine"
                  PROVE  expr.kind[work'[i].node] \in Operators
      BY <2>1, <3>2 DEF FramesWellFormed
    <3>3. CASE i < L
      <4>1. work'[i] = work[i] /\ i \in 1..Len(work)
        BY <2>4, <2>a, <3>2, <3>3 DEF OperatorPushed
      <4>. QED  BY <2>2, <4>1 DEF FramesWellFormed
    <3>4. CASE i = L
      BY <2>1, <2>4, <2>a, <3>4 DEF CombineFrame, OperatorPushed
    <3>5. CASE i > L
      <4>1. i - L \in 1..K /\ i = L + (i - L)
        BY <3>2, <3>5
      <4>2. PICK p \in 1..K : i = L + p
        BY ONLY <4>1
      <4>3. work'[i] = Enter(k[K + 1 - p], b \o SubSeq(k, 1, K - p))
        BY <2>4, <2>a, <3>1, <4>2 DEF OperatorPushed
      <4>. QED  BY <4>3 DEF Enter
    <3>. QED  BY <3>2, <3>3, <3>4, <3>5
  <2>6. Covered(values', Expected(work', expr.kids, expr.root))
    BY <2>1, <2>2, <2>3 DEF Shaped
  <2>7. work' \in Seq(Frames)
    BY <2>4 DEF OperatorPushed
  <2>. QED  BY <2>1, <2>3, <2>5, <2>6, <2>7, ContinueInv
<1>6. CASE CombineFunc
  <2>a. PICK n, args, out : /\ n = Top.node /\ args = Args(n)
                            /\ out = ApplyInterval(expr.func[n], args)
    OBVIOUS
  <2>1. /\ Walking /\ outcome = "running" /\ expr' = expr /\ guard' = guard + 1
        /\ guard < NodeCap /\ work' = Rest /\ Top.tag = "Combine"
        /\ expr.kind[n] = "Function"
    BY <1>6, <2>a DEF CombineFunc, Pop, Walking, Popping
  <2>2. /\ Len(values) >= Arity(n) /\ Covered(args, expr.kids[n])
        /\ Covered(Remaining(n), Top.below) /\ n \in Node /\ Top.below \in Seq(Node)
    BY <2>1, <2>a, CombineOperands, TopType
  <2>3. ~(Len(values) < Arity(n))
    BY <1>a, <2>2, LenProperties DEF Arity, IsExpr
  <2>4. out \in Enclosures \cup Errors
    BY <1>a, <2>1, <2>2, <2>a, FunctionEnclosure DEF Covered
  <2>5. CASE out \in Errors
    <3>1. outcome' = "error" /\ result' = out /\ values' = Remaining(n)
      BY <1>6, <2>3, <2>5, <2>a DEF CombineFunc, Return
    <3>2. values' \in Seq(Enclosures) /\ work' \in Seq(Frames)
      BY <2>1, <2>2, <3>1, TopType DEF Covered
    <3>. QED  BY <1>a, <2>1, <2>5, <3>1, <3>2, EndInv
  <2>6. CASE out \notin Errors
    <3>1. Continue /\ values' = Append(Remaining(n), out)
      BY <1>6, <2>3, <2>6, <2>a DEF CombineFunc
    <3>2. \A m \in Points(expr) : Holds(out, m[n])
      BY <1>a, <2>1, <2>2, <2>6, <2>a, FunctionHeld DEF Covered
    <3>3. Covered(values', Post(Top))
      BY <2>2, <2>4, <2>6, <2>a, <3>1, <3>2, PushCovered DEF Post
    <3>. QED  BY <2>1, <3>1, <3>3, ValueInv
  <2>. QED  BY <2>5, <2>6
<1>7. CASE CombineCond
  <2>a. PICK n, args, out : /\ n = Top.node /\ args = Args(n)
                            /\ out = Either(args[1], args[2], args[3])
    OBVIOUS
  <2>1. /\ Walking /\ expr' = expr /\ guard' = guard + 1
        /\ guard < NodeCap /\ work' = Rest /\ Top.tag = "Combine"
        /\ expr.kind[n] = "Conditional"
    BY <1>7, <2>a DEF CombineCond, Pop, Walking, Popping
  <2>2. /\ Len(values) >= Arity(n) /\ Covered(args, expr.kids[n])
        /\ Covered(Remaining(n), Top.below) /\ n \in Node /\ Top.below \in Seq(Node)
    BY <2>1, <2>a, CombineOperands, TopType
  <2>3. Len(expr.kids[n]) = 3
    BY <1>a, <2>1, <2>2 DEF IsExpr
  <2>4. ~(Len(values) < 3)
    BY <1>a, <2>2, <2>3, LenProperties DEF Arity
  <2>5. out \in Enclosures
    <3>1. args[1] \in Enclosures /\ args[2] \in Enclosures /\ args[3] \in Enclosures
      <4>1. args \in Seq(Enclosures) /\ Len(args) = 3
        BY <2>2, <2>3 DEF Covered
      <4>. QED  BY <4>1, ThreeElements
    <3>. QED  BY <2>a, <3>1, UnionAssumption DEF Either
  <2>6. Continue /\ values' = Append(Remaining(n), out)
    BY <1>7, <2>4, <2>a DEF CombineCond
  <2>7. \A m \in Points(expr) : Holds(out, m[n])
    BY <1>a, <2>1, <2>2, <2>a, ConditionalHeld DEF Covered
  <2>8. Covered(values', Post(Top))
    BY <2>2, <2>5, <2>6, <2>7, <2>a, PushCovered DEF Post
  <2>. QED  BY <2>1, <2>6, <2>8, ValueInv
<1>8. CASE Finish
  <2>1. /\ outcome = "running" /\ work = <<>>
        /\ expr' = expr /\ work' = work /\ values' = values /\ guard' = guard
    BY <1>8 DEF Finish
  <2>2. Len(values) = 1 /\ \A m \in Points(expr) : Covers(m, values, <<expr.root>>)
    BY <2>1 DEF IInv, CoverInv, Shaped, Expected
  <2>3. values[1] \in Enclosures
    BY <1>a, <2>2, ElementOfSeq
  <2>4. outcome' = "ok" /\ result' = values[1]
    BY <1>8, <2>2 DEF Finish, Return
  <2>5. \A m \in Points(expr) : Holds(values[1], m[expr.root])
    BY <2>2 DEF Covers
  <2>6. TypeOK'
    BY <1>a, <2>1, <2>3, <2>4 DEF TypeOK
  <2>7. CoverInv' /\ ImageEnclosed'
    BY <2>1, <2>4, <2>5 DEF CoverInv, ImageEnclosed
  <2>. QED  BY <1>a, <2>1, <2>4, <2>6, <2>7 DEF IInv
<1>9. CASE UNCHANGED vars
  BY <1>9 DEF vars, IInv, TypeOK, CoverInv, ImageEnclosed, FramesWellFormed, Shaped, Covers
<1>. QED
  BY <1>1, <1>2, <1>3, <1>4, <1>5, <1>6, <1>7, <1>8, <1>9 DEF Next

THEOREM Invariance == Spec => []IInv
BY InitInv, StepInv, PTL DEF Spec

\* The variables keep their types.
THEOREM IntervalTypes == Spec => []TypeOK
<1>1. IInv => TypeOK
  BY DEF IInv
<1>. QED  BY <1>1, Invariance, PTL

\* The stacks never run out of step, and the interval returned holds the value
\* of the expression at every input where it has one.
THEOREM Enclosure == Spec => []ImageEnclosed
<1>1. IInv => ImageEnclosed
  BY DEF IInv
<1>. QED  BY <1>1, Invariance, PTL
=============================================================================
