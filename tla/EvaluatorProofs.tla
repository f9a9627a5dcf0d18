--------------------------- MODULE EvaluatorProofs ---------------------------
(***************************************************************************)
(* For every expression, every set of values and functions, and every node *)
(* cap: the evaluator's stacks are used correctly and its answer is the    *)
(* one the recursive reading of the expression gives.                      *)
(***************************************************************************)
EXTENDS Evaluator

IInv ==
  /\ expr \in Exprs
  /\ TypeOK
  /\ outcome = "running" => guard <= NodeCap
  /\ StackInv

(***************************************************************************)
(* What the reference semantics says of each kind of node.                 *)
(***************************************************************************)
\* The two clauses of the semantics, for a node whose operands are known.
LEMMA FaultRule ==
  ASSUME NEW e \in Exprs, NEW n \in Node, NEW ops, Operands(e, n) = ops,
         NEW j \in 1..Len(ops), Meaning(e)[ops[j]] \in Faults,
         \A i \in 1..(j - 1) : Meaning(e)[ops[i]] \notin Faults
  PROVE  Meaning(e)[n] = Meaning(e)[ops[j]]
<1>1. IsMeaning(e, Meaning(e))
  BY MeaningAssumption
<1>. QED
  BY ONLY <1>1, Operands(e, n) = ops, n \in Node, j \in 1..Len(ops),
     Meaning(e)[ops[j]] \in Faults,
     \A i \in 1..(j - 1) : Meaning(e)[ops[i]] \notin Faults
     DEF IsMeaning

LEMMA ValueRule ==
  ASSUME NEW e \in Exprs, NEW n \in Node, NEW ops, Operands(e, n) = ops,
         \A j \in 1..Len(ops) : Meaning(e)[ops[j]] \notin Faults
  PROVE  Meaning(e)[n] = Combine(e, n, [j \in 1..Len(ops) |-> Meaning(e)[ops[j]]])
<1>1. IsMeaning(e, Meaning(e))
  BY MeaningAssumption
<1>. QED
  BY ONLY <1>1, Operands(e, n) = ops, n \in Node,
     \A j \in 1..Len(ops) : Meaning(e)[ops[j]] \notin Faults
     DEF IsMeaning

\* A node without operands denotes what its own rule says.
LEMMA NullaryMeaning ==
  ASSUME NEW e \in Exprs, NEW n \in Node, Operands(e, n) = <<>>
  PROVE  \E args : Meaning(e)[n] = Combine(e, n, args)
<1>1. \A j \in 1..Len(<<>>) : Meaning(e)[<<>>[j]] \notin Faults
  OBVIOUS
<1>. QED  BY <1>1, ValueRule

LEMMA LeafMeaning ==
  ASSUME NEW e \in Exprs, NEW n \in Node, HasLeaf(e, n)
  PROVE  Meaning(e)[n] = e.leaf[n] /\ e.leaf[n] \in Values
<1>1. Operands(e, n) = <<>>
  BY DEF HasLeaf, Operands
<1>2. PICK args : Meaning(e)[n] = Combine(e, n, args)
  BY <1>1, NullaryMeaning
<1>3. e.leaf[n] \in Values
  BY ExprAssumption DEF HasLeaf, CachedHit, IsExpr
<1>. QED  BY <1>2, <1>3 DEF Combine

LEMMA MissingMeaning ==
  ASSUME NEW e \in Exprs, NEW n \in Node, e.kind[n] \in Leaves, e.leaf[n] = None
  PROVE  Meaning(e)[n] = MissingLeaf(e, n) /\ Meaning(e)[n] \in Faults
<1>1. Operands(e, n) = <<>> /\ ~HasLeaf(e, n) /\ e.kind[n] # "Unsupported"
  BY DEF HasLeaf, Operands, CachedHit, Leaves
<1>2. PICK args : Meaning(e)[n] = Combine(e, n, args)
  BY <1>1, NullaryMeaning
<1>3. Combine(e, n, args) = MissingLeaf(e, n)
  BY <1>1 DEF Combine
<1>. QED  BY <1>2, <1>3, ValueAssumption DEF MissingLeaf

LEMMA UnsupportedMeaning ==
  ASSUME NEW e \in Exprs, NEW n \in Node, e.kind[n] = "Unsupported"
  PROVE  Meaning(e)[n] = UnsupportedVariant /\ Meaning(e)[n] \in Faults
<1>1. Operands(e, n) = <<>> /\ ~HasLeaf(e, n)
  BY DEF HasLeaf, Operands, CachedHit, Leaves
<1>2. PICK args : Meaning(e)[n] = Combine(e, n, args)
  BY <1>1, NullaryMeaning
<1>3. Combine(e, n, args) = UnsupportedVariant
  BY <1>1 DEF Combine
<1>. QED  BY <1>2, <1>3, ValueAssumption

LEMMA WrapperMeaning ==
  ASSUME NEW e \in Exprs, NEW n \in Node, e.kind[n] \in Wrappers, ~CachedHit(e, n)
  PROVE  e.kids[n][1] \in Node /\ Meaning(e)[n] = Meaning(e)[e.kids[n][1]]
<1>. DEFINE m == Meaning(e)
            k == e.kids[n]
<1>1. k \in Seq(Node) /\ Len(k) = 1
  BY ExprAssumption DEF IsExpr
<1>2. k[1] \in Node
  BY <1>1, ElementOfSeq
<1>3. Operands(e, n) = k
  BY DEF Operands, CachedHit, Leaves, Wrappers
<1>4. CASE m[k[1]] \in Faults
  <2>1. \A i \in 1..(1 - 1) : m[k[i]] \notin Faults
    OBVIOUS
  <2>. QED  BY <1>1, <1>2, <1>3, <1>4, <2>1, FaultRule
<1>5. CASE m[k[1]] \notin Faults
  <2>1. m[n] = Combine(e, n, [j \in 1..Len(k) |-> m[k[j]]])
    <3>1. \A j \in 1..Len(k) : m[k[j]] \notin Faults
      BY <1>1, <1>5
    <3>. QED  BY <1>3, <3>1, ValueRule
  <2>2. ~HasLeaf(e, n) /\ e.kind[n] \notin Leaves \cup Operators \cup {"Unsupported"}
    BY DEF HasLeaf, Wrappers, Leaves, Operators
  <2>. DEFINE args == [j \in 1..Len(k) |-> m[k[j]]]
  <2>3. Combine(e, n, args) = args[1]
    <3>. HIDE DEF args
    <3>. QED  BY <2>2 DEF Combine, Operators
  <2>4. args[1] = m[k[1]]
    BY <1>1
  <2>. QED  BY <1>2, <2>1, <2>3, <2>4
<1>. QED  BY <1>2, <1>4, <1>5

\* The value of an operator none of whose operands failed.
LEMMA OperatorMeaning ==
  ASSUME NEW e \in Exprs, NEW n \in Node, e.kind[n] \in Operators,
         NEW args \in Seq(Values), Len(args) = Len(e.kids[n]),
         \A j \in 1..Len(args) : args[j] = Meaning(e)[e.kids[n][j]]
  PROVE  Meaning(e)[n] = IF e.kind[n] = "Function" THEN Apply(e.func[n], args)
                                                   ELSE Choose3(args)
<1>. DEFINE m == Meaning(e)
            k == e.kids[n]
<1>1. Operands(e, n) = k /\ ~HasLeaf(e, n)
  BY DEF HasLeaf, Operands, CachedHit, Leaves, Operators
<1>2. \A j \in 1..Len(k) : m[k[j]] \notin Faults
  BY ElementOfSeq, ValueAssumption
<1>3. m[n] = Combine(e, n, [j \in 1..Len(k) |-> m[k[j]]])
  BY <1>1, <1>2, ValueRule
<1>4. args = [j \in 1..Len(k) |-> m[k[j]]]
  BY LenProperties
<1>5. m[n] = Combine(e, n, args)
  BY <1>3, <1>4
<1>. QED  BY <1>1, <1>5 DEF Combine, Operators, Leaves

\* The first operand that fails decides how its operator fails.
LEMMA FirstOperandFault ==
  ASSUME NEW e \in Exprs, NEW n \in Node, e.kind[n] \in Operators,
         NEW j \in 1..Len(e.kids[n]), Meaning(e)[e.kids[n][j]] \in Faults,
         \A i \in 1..(j - 1) : Meaning(e)[e.kids[n][i]] \notin Faults
  PROVE  Meaning(e)[n] = Meaning(e)[e.kids[n][j]]
<1>1. Operands(e, n) = e.kids[n]
  BY DEF Operands, CachedHit, Leaves, Operators
<1>. DEFINE k == e.kids[n]
<1>. HIDE DEF k
<1>2. Operands(e, n) = k /\ j \in 1..Len(k) /\ Meaning(e)[k[j]] \in Faults
      /\ \A i \in 1..(j - 1) : Meaning(e)[k[i]] \notin Faults
  BY <1>1 DEF k
<1>3. Meaning(e)[n] = Meaning(e)[k[j]]
  BY <1>2, FaultRule
<1>. QED  BY <1>3 DEF k

(***************************************************************************)
(* What the invariant says of the frame about to be popped.                *)
(***************************************************************************)
Popping == IInv /\ outcome = "running" /\ work # <<>>

LEMMA TopType ==
  ASSUME Popping
  PROVE  /\ Len(work) \in Nat \ {0}
         /\ Top \in Frames /\ Top.node \in Node /\ Top.below \in Seq(Node)
         /\ Rest \in Seq(Frames) /\ Len(Rest) = Len(work) - 1
         /\ \A i \in 1..(Len(work) - 1) : Rest[i] = work[i] /\ work[i] \in Frames
<1>1. work \in Seq(Frames) /\ work # <<>>
  BY DEF Popping, IInv, TypeOK
<1>. QED  BY <1>1, TopFrame DEF Top, Rest

\* The value stack holds the values of what the top frame expects.
LEMMA TopValues ==
  ASSUME Popping
  PROVE  /\ Denotes(values, Pre(Top, expr.kids))
         /\ \A j \in 1..Len(Pre(Top, expr.kids)) : M[Pre(Top, expr.kids)[j]] \notin Faults
<1>1. values \in Seq(Values) /\ Denotes(values, Pre(Top, expr.kids))
  BY DEF Popping, IInv, TypeOK, StackInv, ValuesMatch, Expected, Top
<1>2. \A j \in 1..Len(Pre(Top, expr.kids)) : values[j] \in Values /\ values[j] = M[Pre(Top, expr.kids)[j]]
  BY <1>1, ElementOfSeq DEF Denotes
<1>. QED  BY <1>1, <1>2, ValueAssumption

\* What the top frame expects starts with what lies below the frame.
LEMMA BelowValues ==
  ASSUME Popping
  PROVE  \A j \in 1..Len(Top.below) : M[Top.below[j]] \notin Faults
<1>1. CASE Top.tag = "Enter"
  BY <1>1, TopValues DEF Pre
<1>2. CASE Top.tag # "Enter"
  <2>. DEFINE b == Top.below
              k == expr.kids[Top.node]
  <2>1. b \in Seq(Node) /\ k \in Seq(Node)
    BY TopType DEF Popping, IInv, TypeOK, IsExpr
  <2>2. Pre(Top, expr.kids) = b \o k
    BY <1>2 DEF Pre
  <2>3. /\ Len(b \o k) = Len(b) + Len(k) /\ Len(b) \in Nat /\ Len(k) \in Nat
        /\ \A j \in 1..Len(b) : (b \o k)[j] = b[j]
    <3>. HIDE DEF b, k
    <3>. QED  BY <2>1, ConcatProperties, LenProperties
  <2>. HIDE DEF b
  <2>4. \A j \in 1..Len(b) : j \in 1..Len(Pre(Top, expr.kids)) /\ Pre(Top, expr.kids)[j] = b[j]
    BY <2>2, <2>3
  <2>5. \A j \in 1..Len(b) : M[b[j]] \notin Faults
    BY <2>4, TopValues
  <2>. QED  BY <2>5 DEF b
<1>. QED  BY <1>1, <1>2

\* If the popped frame's node fails, so does the expression, the same way.
LEMMA TopFault ==
  ASSUME Popping, M[Top.node] \in Faults
  PROVE  M[expr.root] = M[Top.node]
<1>1. FirstFaultDecides /\ Len(work) \in 1..Len(work)
  BY TopType DEF Popping, IInv, StackInv
<1>2. work[Len(work)].node = Top.node /\ work[Len(work)].below = Top.below
  BY DEF Top, TopOf
<1>. QED  BY <1>1, <1>2, BelowValues DEF FirstFaultDecides

\* A step that pops the frame and leaves its value restores the discipline.
LEMMA ValueStep ==
  ASSUME Popping, expr' = expr, work' = Rest, M' = M,
         values' \in Seq(Values), Denotes(values', Post(Top))
  PROVE  FramesWellFormed' /\ Linked' /\ ValuesMatch' /\ FirstFaultDecides'
<1>. DEFINE L == Len(work)
<1>1. /\ FramesWellFormed /\ Linked /\ FirstFaultDecides
      /\ L \in Nat \ {0} /\ Len(work') = L - 1
      /\ \A i \in 1..(L - 1) : work'[i] = work[i]
  BY TopType DEF Popping, IInv, StackInv
<1>2. FramesWellFormed'
  BY <1>1 DEF FramesWellFormed
<1>3. /\ Chained(M, work', expr.kids, expr.root)
      /\ SamePoint(M, Post(Top), Expected(work', expr.kids, expr.root))
  <2>1. work \in Seq(Frames) /\ work # <<>> /\ Chained(M, work, expr.kids, expr.root)
    BY <1>1 DEF Popping, IInv, TypeOK, Linked
  <2>. QED  BY <2>1, ChainPop DEF Top, Rest
<1>4. Linked' /\ ValuesMatch'
  BY <1>3 DEF Linked, ValuesMatch, SamePoint, Denotes
<1>5. FirstFaultDecides'
  BY <1>1 DEF FirstFaultDecides
<1>. QED  BY <1>2, <1>4, <1>5

\* A wrapper's child takes the wrapper's place.
LEMMA WrapperStep ==
  ASSUME Popping, EnterWrapper, M' = M
  PROVE  FramesWellFormed' /\ Linked' /\ ValuesMatch' /\ FirstFaultDecides' /\ work' \in Seq(Frames)
<1>. DEFINE L == Len(work)
            c == expr.kids[Top.node][1]
<1>1. c \in Node /\ M[c] = M[Top.node]
  BY TopType, WrapperMeaning DEF EnterWrapper, M, Popping, IInv
<1>2. /\ expr' = expr /\ values' = values /\ work' = Append(Rest, Enter(c, Top.below))
      /\ Top.tag = "Enter"
  BY DEF EnterWrapper, Pop
<1>3. work[L] = Top /\ FramesWellFormed /\ FirstFaultDecides /\ L \in Nat \ {0}
  BY TopType DEF Popping, IInv, StackInv, Top, TopOf
<1>. HIDE DEF c
<1>4. /\ work' \in Seq(Frames) /\ work' # <<>> /\ Len(work') = L
      /\ \A i \in 1..(L - 1) : work'[i] = work[i]
      /\ work'[L] = Enter(c, Top.below)
      /\ Chained(M, work', expr.kids, expr.root)
      /\ Expected(work', expr.kids, expr.root) = Top.below
  <2>1. work \in Seq(Frames) /\ work # <<>> /\ Chained(M, work, expr.kids, expr.root)
    BY DEF Popping, IInv, TypeOK, StackInv, Linked
  <2>2. c \in Node /\ M[c] = M[TopOf(work).node] /\ TopOf(work) = Top
        /\ work' = Append(RestOf(work), Enter(c, TopOf(work).below))
    BY <1>1, <1>2 DEF Top, Rest
  <2>3. Replaced(M, work', work, c, expr.kids, expr.root)
    BY ONLY <2>1, <2>2, ChainReplace
  <2>. QED  BY ONLY <2>2, <2>3 DEF Replaced
<1>5. work'[L].tag = "Enter" /\ work'[L].node = c /\ work'[L].below = Top.below
  BY <1>4 DEF Enter
<1>6. FramesWellFormed'
  BY <1>2, <1>3, <1>4, <1>5 DEF FramesWellFormed
<1>7. Linked'
  BY <1>2, <1>4 DEF Linked
<1>8. ValuesMatch'
  <2>1. Denotes(values, Top.below)
    BY <1>2, TopValues DEF Pre
  <2>. QED  BY <1>2, <1>4, <2>1 DEF ValuesMatch, Denotes
<1>9. FirstFaultDecides'
  BY <1>1, <1>2, <1>3, <1>4, <1>5 DEF FirstFaultDecides
<1>. QED  BY <1>4, <1>6, <1>7, <1>8, <1>9

\* Entering an operator pushes its Combine frame and one frame per child.
LEMMA OperatorStep ==
  ASSUME Popping, EnterOperator, M' = M
  PROVE  FramesWellFormed' /\ Linked' /\ ValuesMatch' /\ FirstFaultDecides' /\ work' \in Seq(Frames)
\* Names for the parts of the state before the step.
<1>a. PICK L, n, b : L = Len(work) /\ n = Top.node /\ b = Top.below
  OBVIOUS
<1>b. PICK k, K : k = expr.kids[n] /\ K = Len(k)
  OBVIOUS
<1>1. /\ expr' = expr /\ values' = values
      /\ work' = OperatorFrames(work, n, k, b)
      /\ Top.tag = "Enter" /\ expr.kind[n] \in Operators
  BY <1>a, <1>b DEF EnterOperator, Pop
<1>2. L \in Nat \ {0} /\ n \in Node /\ b \in Seq(Node)
  BY <1>a, TopType
<1>3. expr \in Exprs /\ expr.kids \in [Node -> Seq(Node)] /\ k \in Seq(Node) /\ K \in Nat
  BY <1>2, <1>b, LenProperties DEF Popping, IInv, TypeOK, IsExpr
<1>c. L \in Nat \ {0} /\ K \in Nat
  BY <1>2, <1>3
<1>4. work[L] = Top /\ FramesWellFormed /\ Linked /\ FirstFaultDecides
  BY <1>a DEF Popping, IInv, StackInv, Top, TopOf
<1>5. /\ work' \in Seq(Frames) /\ Len(work') = L + K
      /\ \A i \in 1..(L - 1) : work'[i] = work[i]
      /\ work'[L] = CombineFrame(n, b)
      /\ \A p \in 1..K : work'[L + p] = Enter(k[K + 1 - p], b \o SubSeq(k, 1, K - p))
  <2>1. work \in Seq(Frames) /\ work # <<>>
    BY DEF Popping, IInv, TypeOK
  <2>2. OperatorPushed(work', work, n, k, b)
    BY <1>1, <1>2, <1>3, <2>1, OperatorShape
  <2>. QED  BY ONLY <2>2, <1>a, <1>b DEF OperatorPushed
<1>6. /\ Chained(M, work', expr.kids, expr.root)
      /\ Expected(work', expr.kids, expr.root) = b
  <2>1. work \in Seq(Frames) /\ work # <<>> /\ Chained(M, work, expr.kids, expr.root)
    BY <1>4 DEF Popping, IInv, TypeOK, Linked
  <2>2. work' = OperatorFrames(work, TopOf(work).node, expr.kids[TopOf(work).node], TopOf(work).below)
        /\ TopOf(work).below = b
    BY <1>1, <1>a, <1>b DEF Top
  <2>. QED  BY <1>3, <2>1, <2>2, ChainPush
<1>7. FramesWellFormed'
  <2>. SUFFICES ASSUME NEW i \in 1..(L + K), work'[i].tag = "Combine"
                PROVE  expr.kind[work'[i].node] \in Operators
    BY <1>1, <1>5 DEF FramesWellFormed
  <2>1. CASE i < L
    BY <1>2, <1>4, <1>5, <1>a, <2>1 DEF FramesWellFormed
  <2>2. CASE i = L
    BY <1>1, <1>5, <2>2 DEF CombineFrame
  <2>3. CASE i > L
    <3>1. PICK p \in 1..K : i = L + p
      <4>1. i - L \in 1..K /\ i = L + (i - L)
        BY <1>c, <2>3
      <4>. QED  BY ONLY <4>1
    <3>2. work'[i] = Enter(k[K + 1 - p], b \o SubSeq(k, 1, K - p))
      BY <1>5, <3>1
    <3>. QED  BY <3>2 DEF Enter
  <2>. QED  BY <1>2, <1>3, <2>1, <2>2, <2>3
<1>8. Linked'
  BY <1>1, <1>6 DEF Linked
<1>9. ValuesMatch'
  <2>1. Denotes(values, b)
    BY <1>1, <1>a, TopValues DEF Pre
  <2>. QED  BY <1>1, <1>6, <2>1 DEF ValuesMatch, Denotes
<1>10. FirstFaultDecides'
  <2>. SUFFICES ASSUME NEW i \in 1..(L + K),
                       M[work'[i].node] \in Faults,
                       \A j \in 1..Len(work'[i].below) : M[work'[i].below[j]] \notin Faults
                PROVE  M[expr.root] = M[work'[i].node]
    BY <1>1, <1>5 DEF FirstFaultDecides
  <2>1. CASE i < L
    <3>1. work'[i] = work[i] /\ i \in 1..Len(work)
      BY <1>2, <1>5, <1>a, <2>1
    <3>. QED  BY <1>4, <3>1 DEF FirstFaultDecides
  <2>2. CASE i = L
    <3>1. work'[i].node = Top.node
      BY <1>5, <1>a, <2>2 DEF CombineFrame
    <3>. QED  BY <3>1, TopFault
  <2>3. CASE i > L
    <3>1. PICK p \in 1..K : i = L + p
      <4>1. i - L \in 1..K /\ i = L + (i - L)
        BY <1>c, <2>3
      <4>. QED  BY ONLY <4>1
    <3>2. PICK j : j = K + 1 - p
      OBVIOUS
    <3>3. /\ j \in 1..K /\ work'[i].node = k[j]
          /\ work'[i].below = b \o SubSeq(k, 1, j - 1)
      <4>1. work'[L + p] = Enter(k[K + 1 - p], b \o SubSeq(k, 1, K - p))
        BY <1>5
      <4>. QED  BY <1>3, <3>1, <3>2, <4>1 DEF Enter
    <3>4. ASSUME NEW h \in 1..(j - 1)
          PROVE  M[k[h]] \notin Faults
      <4>1. /\ SubSeq(k, 1, j - 1) \in Seq(Node)
            /\ Len(SubSeq(k, 1, j - 1)) = j - 1
            /\ SubSeq(k, 1, j - 1)[h] = k[h]
        <5>1. \A i2 \in 1..(j - 1) : k[i2] \in Node
          BY <1>3, <1>b, <3>3, ElementOfSeq
        <5>2. /\ SubSeq(k, 1, j - 1) \in Seq(Node)
              /\ Len(SubSeq(k, 1, j - 1)) = IF 1 <= j - 1 THEN j - 1 - 1 + 1 ELSE 0
              /\ \A i2 \in 1..(j - 1 - 1 + 1) : SubSeq(k, 1, j - 1)[i2] = k[1 + i2 - 1]
          BY <1>3, <3>3, <5>1, SubSeqProperties
        <5>. QED  BY <1>3, <3>3, <5>2
      <4>2. PICK s : s = SubSeq(k, 1, j - 1)
        OBVIOUS
      <4>3. /\ Len(b \o s) = Len(b) + (j - 1) /\ Len(b) \in Nat
            /\ (b \o s)[Len(b) + h] = s[h]
        BY <1>2, <1>3, <3>3, <4>1, <4>2, ConcatProperties, LenProperties
      <4>4. Len(b) + h \in 1..Len(b \o s)
        BY <1>3, <3>3, <4>3
      <4>. QED  BY <3>3, <4>1, <4>2, <4>3, <4>4
    <3>5. M[n] = M[k[j]]
      BY <1>1, <1>2, <1>3, <1>b, <3>3, <3>4, FirstOperandFault DEF M
    <3>. QED  BY <1>a, <3>3, <3>5, TopFault
  <2>. QED  BY <1>2, <1>3, <2>1, <2>2, <2>3
<1>. QED  BY <1>5, <1>7, <1>8, <1>9, <1>10
(***************************************************************************)
(* What a Combine frame finds on the value stack.                          *)
(***************************************************************************)
\* The operands popped are the children's values, what remains is below them.
LEMMA CombineOperands ==
  ASSUME Popping, Top.tag = "Combine"
  PROVE  LET n == Top.node IN
         /\ expr.kind[n] \in Operators
         /\ Len(values) >= Arity(n)
         /\ Args(n) \in Seq(Values) /\ Len(Args(n)) = Len(expr.kids[n])
         /\ \A j \in 1..Len(Args(n)) : Args(n)[j] = M[expr.kids[n][j]]
         /\ Remaining(n) \in Seq(Values) /\ Denotes(Remaining(n), Top.below)
<1>a. PICK n, b : n = Top.node /\ b = Top.below
  OBVIOUS
<1>b. PICK k, vs : k = expr.kids[n] /\ vs = values
  OBVIOUS
<1>1. n \in Node /\ b \in Seq(Node) /\ k \in Seq(Node) /\ vs \in Seq(Values)
  BY <1>a, <1>b, TopType DEF Popping, IInv, TypeOK, IsExpr
<1>2. expr.kind[n] \in Operators
  BY <1>a, TopType DEF Popping, IInv, StackInv, FramesWellFormed, Top, TopOf
<1>3. Len(vs) = Len(b \o k) /\ \A j \in 1..Len(b \o k) : vs[j] = M[(b \o k)[j]]
  BY <1>a, <1>b, TopValues DEF Pre, Denotes
<1>4. Arity(n) = Len(k)
      /\ Args(n) = SubSeq(vs, Len(vs) - Len(k) + 1, Len(vs))
      /\ Remaining(n) = SubSeq(vs, 1, Len(vs) - Len(k))
  BY <1>b DEF Arity, Args, Remaining
<1>5. /\ Args(n) \in Seq(Values) /\ Len(Args(n)) = Len(k) /\ Len(vs) >= Len(k)
      /\ Remaining(n) \in Seq(Values) /\ Len(Remaining(n)) = Len(b)
      /\ \A j \in 1..Len(b) : /\ j \in 1..Len(b \o k)
                              /\ Remaining(n)[j] = vs[j] /\ (b \o k)[j] = b[j]
      /\ \A j \in 1..Len(k) : /\ Len(b) + j \in 1..Len(b \o k)
                              /\ Args(n)[j] = vs[Len(b) + j]
                              /\ (b \o k)[Len(b) + j] = k[j]
  <2>1. Split(vs, Values, b, k, Args(n), Remaining(n))
    BY <1>1, <1>3, <1>4, OperandsSplit
  <2>. QED  BY <2>1 DEF Split
<1>6. \A j \in 1..Len(k) : Args(n)[j] = M[k[j]]
  BY <1>3, <1>5
<1>7. Denotes(Remaining(n), b)
  BY <1>3, <1>5 DEF Denotes
<1>. QED  BY <1>2, <1>4, <1>5, <1>6, <1>7, <1>a, <1>b

\* Pushing the value of a node on what lies below it.
LEMMA PushValue ==
  ASSUME NEW vs \in Seq(Values), NEW b \in Seq(Node), Denotes(vs, b),
         NEW n \in Node, NEW v \in Values, v = M[n]
  PROVE  Append(vs, v) \in Seq(Values) /\ Denotes(Append(vs, v), Append(b, n))
<1>1. /\ Append(vs, v) \in Seq(Values) /\ Len(Append(vs, v)) = Len(vs) + 1
      /\ \A i \in 1..Len(vs) : Append(vs, v)[i] = vs[i]
      /\ Append(vs, v)[Len(vs) + 1] = v
  BY AppendProperties
<1>2. /\ Len(Append(b, n)) = Len(b) + 1
      /\ \A i \in 1..Len(b) : Append(b, n)[i] = b[i]
      /\ Append(b, n)[Len(b) + 1] = n
  BY AppendProperties
<1>3. Len(vs) = Len(b) /\ Len(b) \in Nat /\ \A j \in 1..Len(b) : vs[j] = M[b[j]]
  BY LenProperties DEF Denotes
<1>4. \A j \in 1..(Len(b) + 1) : Append(vs, v)[j] = M[Append(b, n)[j]]
  BY <1>1, <1>2, <1>3
<1>. QED  BY <1>1, <1>2, <1>3, <1>4 DEF Denotes
(***************************************************************************)
(* The invariant.                                                          *)
(***************************************************************************)
LEMMA InitInv == Init => IInv
<1>. SUFFICES ASSUME Init PROVE IInv
  OBVIOUS
<1>1. IsExpr(expr) /\ expr.root \in Node /\ work = <<Enter(expr.root, <<>>)>> /\ values = <<>>
  BY ExprAssumption DEF Init, IsExpr
<1>2. /\ work \in Seq(Frames) /\ work # <<>> /\ Len(work) = 1
      /\ work[1] = Enter(expr.root, <<>>)
      /\ Chained(M, work, expr.kids, expr.root)
      /\ Expected(work, expr.kids, expr.root) = <<>>
  BY <1>1, ChainStart
<1>3. TypeOK
  BY <1>1, <1>2, CapAssumption DEF Init, TypeOK
<1>4. FramesWellFormed
  BY <1>1, <1>2 DEF FramesWellFormed, Enter
<1>5. Linked
  BY <1>2 DEF Linked
<1>6. ValuesMatch
  BY <1>1, <1>2 DEF ValuesMatch, Denotes
<1>7. FirstFaultDecides
  BY <1>1, <1>2 DEF FirstFaultDecides, Enter
<1>8. Answered
  BY DEF Init, Answered
<1>. QED  BY <1>3, <1>4, <1>5, <1>6, <1>7, <1>8, CapAssumption DEF Init, IInv, StackInv

\* Popping a frame leaves everything but the discipline of the stacks in place.
LEMMA ContinueInv ==
  ASSUME Popping, expr' = expr, guard' = guard + 1, guard' <= NodeCap, Continue,
         work' \in Seq(Frames), values' \in Seq(Values),
         FramesWellFormed', Linked', ValuesMatch', FirstFaultDecides'
  PROVE  IInv'
<1>1. TypeOK'
  BY CapAssumption DEF Popping, IInv, TypeOK, Continue, IsExpr
<1>2. Answered'
  BY DEF Popping, IInv, StackInv, Answered, Continue
<1>. QED  BY <1>1, <1>2 DEF IInv, StackInv, Popping

\* Returning the failure of the popped frame's node.
LEMMA FaultInv ==
  ASSUME Popping, expr' = expr, guard' = guard + 1, guard' <= NodeCap, M' = M,
         work' = Rest, values' \in Seq(Values),
         M[Top.node] \in Faults, Return("fault", M[Top.node])
  PROVE  IInv'
<1>1. M[expr.root] = M[Top.node]
  BY TopFault
<1>2. TypeOK'
  BY TopType, CapAssumption DEF Popping, IInv, TypeOK, Return, Results, IsExpr
<1>3. Answered'
  BY <1>1 DEF Answered, Return
<1>. QED  BY <1>2, <1>3 DEF IInv, StackInv, Popping, Return

LEMMA StepInv == IInv /\ [Next]_vars => IInv'
<1>. SUFFICES ASSUME IInv, [Next]_vars PROVE IInv'
  OBVIOUS
<1>a. expr \in Exprs /\ TypeOK /\ StackInv
  BY DEF IInv
<1>b. values \in Seq(Values)
  BY <1>a DEF TypeOK
<1>1. CASE CapExceeded
  <2>1. Popping /\ expr' = expr /\ guard' = guard + 1 /\ guard <= NodeCap
    BY <1>1 DEF Popping, CapExceeded, IInv
  <2>2. TypeOK'
    BY <1>1, <2>1, TopType, CapAssumption DEF CapExceeded, IInv, TypeOK, Return, IsExpr
  <2>3. Answered'
    BY <1>1 DEF CapExceeded, Return, Answered
  <2>. QED  BY <1>1, <2>1, <2>2, <2>3 DEF IInv, StackInv, CapExceeded, Return
<1>2. CASE EnterLeaf
  <2>1. /\ Popping /\ expr' = expr /\ guard' = guard + 1 /\ guard' <= NodeCap
        /\ Continue /\ work' = Rest /\ Top.tag = "Enter" /\ HasLeaf(expr, Top.node)
        /\ values' = Append(values, expr.leaf[Top.node])
    BY <1>2 DEF EnterLeaf, Pop, Popping
  <2>2. M' = M
    BY <2>1 DEF M
  <2>3. M[Top.node] = expr.leaf[Top.node] /\ expr.leaf[Top.node] \in Values
    BY <1>a, <2>1, TopType, LeafMeaning DEF M
  <2>4. Denotes(values, Top.below)
    BY <2>1, TopValues DEF Pre
  <2>5. values' \in Seq(Values) /\ Denotes(values', Post(Top))
    BY <1>b, <2>1, <2>3, <2>4, TopType, PushValue DEF Post
  <2>. QED  BY <2>1, <2>2, <2>5, TopType, ValueStep, ContinueInv
<1>3. CASE EnterMissing
  <2>1. /\ Popping /\ expr' = expr /\ guard' = guard + 1 /\ guard' <= NodeCap
        /\ work' = Rest /\ values' = values
        /\ expr.kind[Top.node] \in Leaves /\ expr.leaf[Top.node] = None
        /\ Return("fault", MissingLeaf(expr, Top.node))
    BY <1>3 DEF EnterMissing, Pop, Popping
  <2>2. M' = M
    BY <2>1 DEF M
  <2>3. M[Top.node] = MissingLeaf(expr, Top.node) /\ M[Top.node] \in Faults
    BY <1>a, <2>1, TopType, MissingMeaning DEF M
  <2>. QED  BY <1>b, <2>1, <2>2, <2>3, FaultInv
<1>4. CASE EnterUnsupported
  <2>1. /\ Popping /\ expr' = expr /\ guard' = guard + 1 /\ guard' <= NodeCap
        /\ work' = Rest /\ values' = values
        /\ expr.kind[Top.node] = "Unsupported" /\ Return("fault", UnsupportedVariant)
    BY <1>4 DEF EnterUnsupported, Pop, Popping
  <2>2. M' = M
    BY <2>1 DEF M
  <2>3. M[Top.node] = UnsupportedVariant /\ M[Top.node] \in Faults
    BY <1>a, <2>1, TopType, UnsupportedMeaning DEF M
  <2>. QED  BY <1>b, <2>1, <2>2, <2>3, FaultInv
<1>5. CASE EnterWrapper
  <2>1. /\ Popping /\ expr' = expr /\ guard' = guard + 1 /\ guard' <= NodeCap
        /\ Continue /\ values' = values
    BY <1>5 DEF EnterWrapper, Pop, Popping
  <2>2. M' = M
    BY <2>1 DEF M
  <2>. QED  BY <1>5, <1>b, <2>1, <2>2, WrapperStep, ContinueInv
<1>6. CASE EnterOperator
  <2>1. /\ Popping /\ expr' = expr /\ guard' = guard + 1 /\ guard' <= NodeCap
        /\ Continue /\ values' = values
    BY <1>6 DEF EnterOperator, Pop, Popping
  <2>2. M' = M
    BY <2>1 DEF M
  <2>. QED  BY <1>6, <1>b, <2>1, <2>2, OperatorStep, ContinueInv
<1>7. CASE CombineFunc
  <2>. DEFINE n == Top.node
              args == Args(n)
              out == Apply(expr.func[n], args)
  <2>1. /\ Popping /\ expr' = expr /\ guard' = guard + 1 /\ guard' <= NodeCap
        /\ work' = Rest /\ Top.tag = "Combine" /\ expr.kind[n] = "Function"
    BY <1>7 DEF CombineFunc, Pop, Popping
  <2>2. M' = M
    BY <2>1 DEF M
  <2>3. /\ expr.kind[n] \in Operators /\ Len(values) >= Arity(n)
        /\ args \in Seq(Values) /\ Len(args) = Len(expr.kids[n])
        /\ \A j \in 1..Len(args) : args[j] = M[expr.kids[n][j]]
        /\ Remaining(n) \in Seq(Values) /\ Denotes(Remaining(n), Top.below)
    BY <2>1, CombineOperands
  <2>4. ~(Len(values) < Arity(n))
    BY <1>b, <2>3, TopType, <2>1, LenProperties DEF Arity, Popping, IInv, TypeOK, IsExpr
  <2>5. n \in Node /\ Top.below \in Seq(Node)
    BY <2>1, TopType
  <2>6. M[n] = out
    <3>. HIDE DEF n, args
    <3>1. M[n] = IF expr.kind[n] = "Function" THEN Apply(expr.func[n], args) ELSE Choose3(args)
      BY <1>a, <2>3, <2>5, OperatorMeaning DEF M
    <3>. QED  BY <2>1, <3>1
  <2>7. CASE out \in Faults
    <3>1. Return("fault", out) /\ values' = Remaining(n)
      BY <1>7, <2>4, <2>7 DEF CombineFunc
    <3>. QED  BY <2>1, <2>2, <2>3, <2>6, <2>7, <3>1, FaultInv
  <2>8. CASE out \notin Faults
    <3>1. Continue /\ values' = Append(Remaining(n), out)
      BY <1>7, <2>4, <2>8 DEF CombineFunc
    <3>2. out \in Values
      <4>1. M[n] \in Results
        BY <1>a, <2>5, MeaningAssumption DEF M, IsMeaning
      <4>. QED  BY <2>6, <2>8, <4>1 DEF Results
    <3>3. values' \in Seq(Values) /\ Denotes(values', Post(Top))
      BY <2>3, <2>5, <2>6, <3>1, <3>2, PushValue DEF Post
    <3>. QED  BY <2>1, <2>2, <3>1, <3>3, TopType, ValueStep, ContinueInv
  <2>. QED  BY <2>7, <2>8
<1>8. CASE CombineCond
  <2>. DEFINE n == Top.node
              args == Args(n)
              out == Choose3(args)
  <2>1. /\ Popping /\ expr' = expr /\ guard' = guard + 1 /\ guard' <= NodeCap
        /\ work' = Rest /\ Top.tag = "Combine" /\ expr.kind[n] = "Conditional"
    BY <1>8 DEF CombineCond, Pop, Popping
  <2>2. M' = M
    BY <2>1 DEF M
  <2>3. /\ expr.kind[n] \in Operators /\ Len(values) >= Arity(n)
        /\ args \in Seq(Values) /\ Len(args) = Len(expr.kids[n])
        /\ \A j \in 1..Len(args) : args[j] = M[expr.kids[n][j]]
        /\ Remaining(n) \in Seq(Values) /\ Denotes(Remaining(n), Top.below)
    BY <2>1, CombineOperands
  <2>4. n \in Node /\ Top.below \in Seq(Node) /\ Len(expr.kids[n]) = 3
    BY <1>a, <2>1, TopType DEF TypeOK, IsExpr
  <2>5. ~(Len(values) < 3)
    BY <1>b, <2>3, <2>4, LenProperties DEF Arity
  <2>6. M[n] = out
    <3>. HIDE DEF n, args
    <3>1. M[n] = IF expr.kind[n] = "Function" THEN Apply(expr.func[n], args) ELSE Choose3(args)
      BY <1>a, <2>3, <2>4, OperatorMeaning DEF M
    <3>. QED  BY <2>1, <3>1
  <2>7. out \in Values
    <3>1. args[2] \in Values /\ args[3] \in Values
      <4>. HIDE DEF args
      <4>. QED  BY <2>3, <2>4, ElementOfSeq
    <3>. QED  BY <3>1 DEF Choose3
  <2>8. Continue /\ values' = Append(Remaining(n), out)
    BY <1>8, <2>5 DEF CombineCond
  <2>9. values' \in Seq(Values) /\ Denotes(values', Post(Top))
    BY <2>3, <2>4, <2>6, <2>7, <2>8, PushValue DEF Post
  <2>. QED  BY <2>1, <2>2, <2>8, <2>9, TopType, ValueStep, ContinueInv
<1>9. CASE Finish
  <2>1. /\ outcome = "running" /\ work = <<>>
        /\ expr' = expr /\ work' = work /\ values' = values /\ guard' = guard
    BY <1>9 DEF Finish
  <2>2. Denotes(values, <<expr.root>>)
    BY <1>a, <2>1 DEF StackInv, ValuesMatch, Expected
  <2>3. Len(values) = 1 /\ values[1] = M[expr.root]
    BY <2>2 DEF Denotes
  <2>4. values[1] \in Values
    BY <1>b, <2>3, ElementOfSeq
  <2>5. Return("ok", values[1])
    BY <1>9, <2>3 DEF Finish
  <2>6. M' = M
    BY <2>1 DEF M
  <2>7. Answered'
    BY <2>1, <2>3, <2>4, <2>5, <2>6 DEF Return, Answered
  <2>8. TypeOK'
    BY <1>a, <2>1, <2>4, <2>5 DEF Return, TypeOK, Results, IsExpr
  <2>. QED  BY <1>a, <2>1, <2>5, <2>7, <2>8 DEF IInv, StackInv, Return
<1>10. CASE UNCHANGED vars
  <2>1. M' = M
    BY <1>10 DEF M, vars
  <2>2. TypeOK'
    BY <1>a, <1>10 DEF TypeOK, vars, IsExpr
  <2>3. StackInv'
    BY <1>a, <1>10, <2>1 DEF StackInv, vars, FramesWellFormed, Linked,
       ValuesMatch, Denotes, FirstFaultDecides, Answered
  <2>. QED  BY <1>10, <2>2, <2>3 DEF IInv, vars
<1>. QED
  BY <1>1, <1>2, <1>3, <1>4, <1>5, <1>6, <1>7, <1>8, <1>9, <1>10 DEF Next

\* In every reachable state of an evaluation, of any expression under any node
\* cap, the two stacks agree with each other and with what the expression means.
THEOREM Invariance == Spec => []IInv
BY InitInv, StepInv, PTL DEF Spec

\* The variables keep their types.
THEOREM TypeCorrect == Spec => []TypeOK
<1>1. IInv => TypeOK
  BY DEF IInv
<1>. QED  BY <1>1, Invariance, PTL

\* Neither underflow check can fire, no operand goes to the wrong operator, and
\* what is returned is what the recursive reading of the expression gives.
THEOREM StackDiscipline == Spec => []StackInv
<1>1. IInv => StackInv
  BY DEF IInv
<1>. QED  BY <1>1, Invariance, PTL

(***************************************************************************)
(* What the counter counts, by the reckoning of FrameStacks.               *)
(***************************************************************************)
Cost(e) == [n \in Node |-> FramesFor(e, Elapsed(e), n)]

Reckons(at, e, w, g) == Metered(at, Cost(e), w, Cost(e)[e.root], g)

CountInv ==
  /\ outcome = "running" => \E at : Reckons(at, expr, work, guard)
  /\ CapExact

LEMMA OperandsType ==
  ASSUME NEW e \in Exprs, NEW n \in Node
  PROVE  Operands(e, n) \in Seq(Node) /\ Len(Operands(e, n)) \in Nat
<1>1. e.kids[n] \in Seq(Node)
  BY ExprAssumption DEF IsExpr
<1>2. Operands(e, n) \in Seq(Node)
  BY <1>1 DEF Operands
<1>. QED  BY <1>2, LenProperties

\* The clauses of IsElapsed, for a node whose operands are known.
LEMMA ElapsedRule ==
  ASSUME NEW e \in Exprs, NEW n \in Node, NEW ops, ops = Operands(e, n)
  PROVE  /\ Elapsed(e)[n] \in [0..Len(ops) -> Nat]
         /\ Elapsed(e)[n][0] = 1
         /\ \A j \in 1..Len(ops) :
              Elapsed(e)[n][j] = Elapsed(e)[n][j - 1] + FramesFor(e, Elapsed(e), ops[j])
         /\ \A j \in 0..Len(ops) :
              1 <= Elapsed(e)[n][j] /\ Elapsed(e)[n][j] <= Elapsed(e)[n][Len(ops)]
         /\ FramesFor(e, Elapsed(e), n)
              = Elapsed(e)[n][Len(ops)] + IF e.kind[n] \in Operators THEN 1 ELSE 0
<1>1. IsElapsed(e, Elapsed(e))
  BY ElapsedAssumption
<1>2. FramesFor(e, Elapsed(e), n)
        = Elapsed(e)[n][Len(ops)] + IF e.kind[n] \in Operators THEN 1 ELSE 0
  BY DEF FramesFor
<1>. QED
  BY ONLY <1>1, <1>2, ops = Operands(e, n), n \in Node DEF IsElapsed

LEMMA CostType ==
  ASSUME NEW e \in Exprs
  PROVE  /\ Cost(e) \in [Node -> Nat \ {0}]
         /\ \A n \in Node : Cost(e)[n] = FramesFor(e, Elapsed(e), n)
<1>1. ASSUME NEW n \in Node PROVE FramesFor(e, Elapsed(e), n) \in Nat \ {0}
  <2>1. PICK ops : ops = Operands(e, n)
    OBVIOUS
  <2>2. Len(ops) \in Nat
    BY <2>1, OperandsType
  <2>3. PICK x : x = Elapsed(e)[n][Len(ops)]
    OBVIOUS
  <2>4. /\ x \in Nat /\ 1 <= x
        /\ FramesFor(e, Elapsed(e), n) = x + IF e.kind[n] \in Operators THEN 1 ELSE 0
    BY <2>1, <2>2, <2>3, ElapsedRule
  <2>. QED  BY ONLY <2>4
<1>. QED  BY <1>1 DEF Cost

\* The operands of an operator are what its own frames wait for.
LEMMA OperatorCost ==
  ASSUME NEW e \in Exprs, NEW n \in Node, e.kind[n] \in Operators
  PROVE  /\ e.kids[n] \in Seq(Node)
         /\ PrefixCosts(Elapsed(e)[n], Cost(e), e.kids[n])
         /\ Cost(e)[n] = Elapsed(e)[n][Len(e.kids[n])] + 1
<1>a. PICK k, t : k = e.kids[n] /\ t = Elapsed(e)[n]
  OBVIOUS
<1>1. Operands(e, n) = k /\ k \in Seq(Node) /\ Len(k) \in Nat
  <2>1. Operands(e, n) = k
    BY <1>a DEF Operands, CachedHit, Leaves, Operators
  <2>. QED  BY <2>1, OperandsType
<1>2. /\ t \in [0..Len(k) -> Nat] /\ t[0] = 1
      /\ \A j \in 1..Len(k) : t[j] = t[j - 1] + FramesFor(e, Elapsed(e), k[j])
      /\ \A j \in 0..Len(k) : t[j] <= t[Len(k)]
      /\ FramesFor(e, Elapsed(e), n) = t[Len(k)] + 1
  BY <1>1, <1>a, ElapsedRule
<1>3. \A j \in 1..Len(k) : k[j] \in Node
  BY <1>1, ElementOfSeq
<1>4. PrefixCosts(t, Cost(e), k)
  BY <1>2, <1>3, CostType DEF PrefixCosts
<1>. QED  BY <1>1, <1>2, <1>4, <1>a, CostType

LEMMA CountInit == Init => CountInv
<1>. SUFFICES ASSUME Init PROVE CountInv
  OBVIOUS
<1>1. /\ expr \in Exprs /\ expr.root \in Node /\ guard = 0 /\ outcome = "running"
      /\ work = <<Enter(expr.root, <<>>)>>
  BY ExprAssumption DEF Init, IsExpr
<1>2. Cost(expr) \in [Node -> Nat \ {0}]
  BY <1>1, CostType
<1>3. \E at : Metered(at, Cost(expr), work, Cost(expr)[expr.root], 0)
  BY <1>1, <1>2, MeterStart
<1>. QED  BY <1>1, <1>3 DEF CountInv, CapExact, Reckons

LEMMA CountStep == IInv /\ CountInv /\ [Next]_vars => CountInv'
<1>. SUFFICES ASSUME IInv, CountInv, [Next]_vars PROVE CountInv'
  OBVIOUS
<1>a. /\ expr \in Exprs /\ work \in Seq(Frames) /\ guard \in Nat /\ NodeCap \in Nat
      /\ outcome = "running" => guard <= NodeCap
      /\ expr.root \in Node
  BY CapAssumption, ExprAssumption DEF IInv, TypeOK, IsExpr
<1>f. PICK cost : cost = Cost(expr)
  OBVIOUS
<1>g. /\ cost \in [Node -> Nat \ {0}]
      /\ \A n \in Node : cost[n] = FramesFor(expr, Elapsed(expr), n)
  BY <1>a, <1>f, CostType
<1>h. \A at, w, g : Reckons(at, expr, w, g) <=> Metered(at, cost, w, cost[expr.root], g)
  BY <1>f DEF Reckons
<1>b. ASSUME outcome' \notin {"running", "ok", "cap"}
      PROVE  CountInv'
  BY <1>b DEF CountInv, CapExact
<1>c. ASSUME outcome' = "running", \E up : Reckons(up, expr', work', guard')
      PROVE  CountInv'
  BY <1>c DEF CountInv, CapExact
<1>d. outcome = "running" => \E at : Reckons(at, expr, work, guard)
  BY DEF CountInv
\* A frame that costs one.
<1>e. ASSUME Popping, expr' = expr, work' = Rest, guard' = guard + 1, Continue,
             FrameCost(cost, Top) = 1
      PROVE  CountInv'
  <2>1. work # <<>> /\ outcome = "running" /\ outcome' = "running"
    BY <1>e DEF Popping, Continue
  <2>2. PICK at : Reckons(at, expr, work, guard)
    BY <1>d, <2>1
  <2>3. \E up : Reckons(up, expr, RestOf(work), guard + 1)
    BY <1>a, <1>e, <1>g, <1>h, <2>1, <2>2, MeterPop DEF Top
  <2>. QED  BY <1>c, <1>e, <2>1, <2>3 DEF Rest
<1>1. CASE CapExceeded
  <2>1. /\ outcome = "running" /\ work # <<>> /\ guard + 1 > NodeCap /\ expr' = expr
        /\ outcome' = "cap"
    BY <1>1 DEF CapExceeded, Return
  <2>2. PICK at : Reckons(at, expr, work, guard)
    BY <1>d, <2>1
  <2>3. FramesFor(expr, Elapsed(expr), expr.root) > guard
    BY <1>a, <1>g, <1>h, <2>1, <2>2, MoreToCome
  <2>4. guard = NodeCap
    BY <1>a, <2>1
  <2>. QED  BY <2>1, <2>3, <2>4 DEF CountInv, CapExact
<1>2. CASE EnterLeaf
  <2>1. /\ Popping /\ expr' = expr /\ work' = Rest /\ guard' = guard + 1 /\ Continue
        /\ Top.tag = "Enter" /\ HasLeaf(expr, Top.node)
    BY <1>2 DEF EnterLeaf, Pop, Popping
  <2>2. Top.node \in Node
    BY <2>1, TopType
  <2>3. Operands(expr, Top.node) = <<>> /\ expr.kind[Top.node] \notin Operators
    BY <2>1 DEF HasLeaf, Operands, CachedHit, Operators, Leaves
  <2>4. FramesFor(expr, Elapsed(expr), Top.node) = 1
    <3>1. PICK ops : ops = Operands(expr, Top.node)
      OBVIOUS
    <3>2. /\ Elapsed(expr)[Top.node][0] = 1
          /\ FramesFor(expr, Elapsed(expr), Top.node)
               = Elapsed(expr)[Top.node][Len(ops)]
                   + IF expr.kind[Top.node] \in Operators THEN 1 ELSE 0
      BY <1>a, <2>2, <3>1, ElapsedRule
    <3>3. Len(ops) = 0
      BY <2>3, <3>1
    <3>. QED  BY <2>3, <3>2, <3>3
  <2>. QED  BY <1>e, <1>g, <2>1, <2>2, <2>4 DEF FrameCost
<1>3. CASE EnterMissing
  BY <1>3, <1>b DEF EnterMissing, Return
<1>4. CASE EnterUnsupported
  BY <1>4, <1>b DEF EnterUnsupported, Return
<1>5. CASE EnterWrapper
  <2>. DEFINE n == Top.node
              c == expr.kids[Top.node][1]
  <2>1. /\ Popping /\ expr' = expr /\ guard' = guard + 1 /\ Continue
        /\ Top.tag = "Enter" /\ work' = Append(Rest, Enter(c, Top.below))
        /\ expr.kind[n] \in Wrappers /\ ~CachedHit(expr, n)
        /\ outcome = "running" /\ work # <<>>
    BY <1>5 DEF EnterWrapper, Pop, Popping
  <2>2. n \in Node /\ c \in Node /\ Top.below \in Seq(Node) /\ Meaning(expr)[c] = Meaning(expr)[n]
    BY <1>a, <2>1, TopType, WrapperMeaning
  <2>3. FramesFor(expr, Elapsed(expr), n) = FramesFor(expr, Elapsed(expr), c) + 1
    <3>1. PICK ops : ops = Operands(expr, n)
      OBVIOUS
    <3>2. ops = expr.kids[n] /\ Len(ops) = 1 /\ expr.kind[n] \notin Operators
      BY <1>a, <2>1, <2>2, <3>1, ExprAssumption
         DEF Operands, CachedHit, Leaves, Wrappers, Operators, IsExpr
    <3>3. /\ Elapsed(expr)[n][0] = 1
          /\ \A j \in 1..Len(ops) : Elapsed(expr)[n][j] = Elapsed(expr)[n][j - 1]
                                       + FramesFor(expr, Elapsed(expr), ops[j])
          /\ FramesFor(expr, Elapsed(expr), n)
               = Elapsed(expr)[n][Len(ops)] + IF expr.kind[n] \in Operators THEN 1 ELSE 0
      BY <1>a, <2>2, <3>1, ElapsedRule
    <3>4. Elapsed(expr)[n][1] = 1 + FramesFor(expr, Elapsed(expr), c)
      BY <3>2, <3>3
    <3>5. FramesFor(expr, Elapsed(expr), c) \in Nat
      BY <1>g, <2>2
    <3>. QED  BY <3>2, <3>3, <3>4, <3>5
  <2>. HIDE DEF c, n
  <2>4. Replaced(Meaning(expr), work', work, c, expr.kids, expr.root)
    <3>1. /\ c \in Node /\ Meaning(expr)[c] = Meaning(expr)[TopOf(work).node]
          /\ work' = Append(RestOf(work), Enter(c, TopOf(work).below))
      BY <2>1, <2>2 DEF Top, Rest, n
    <3>2. Chained(Meaning(expr), work, expr.kids, expr.root)
      BY <2>1 DEF IInv, StackInv, Linked, M
    <3>. QED  BY ONLY <1>a, <2>1, <3>1, <3>2, ChainReplace
  <2>5. PICK at : Reckons(at, expr, work, guard)
    BY <1>d, <2>1
  <2>6. FrameCost(cost, work[Len(work)]) = FrameCost(cost, work'[Len(work)]) + 1
    <3>1. work'[Len(work)] = Enter(c, TopOf(work).below) /\ work[Len(work)] = Top
      BY <2>4 DEF Replaced, Top, TopOf
    <3>2. FrameCost(cost, Enter(c, TopOf(work).below)) = FramesFor(expr, Elapsed(expr), c)
      BY <1>g, <2>2 DEF FrameCost, Enter
    <3>3. FrameCost(cost, Top) = FramesFor(expr, Elapsed(expr), n)
      BY <1>g, <2>1, <2>2 DEF FrameCost, n
    <3>. QED  BY ONLY <2>3, <3>1, <3>2, <3>3
  <2>7. \E up : Reckons(up, expr, work', guard + 1)
    BY <1>a, <1>g, <1>h, <2>1, <2>4, <2>5, <2>6, MeterReplace DEF Replaced
  <2>. QED  BY <1>c, <2>1, <2>7 DEF Continue
<1>6. CASE EnterOperator
  <2>1. /\ Popping /\ expr' = expr /\ guard' = guard + 1 /\ Continue
        /\ Top.tag = "Enter" /\ expr.kind[Top.node] \in Operators
        /\ work' = OperatorFrames(work, Top.node, expr.kids[Top.node], Top.below)
        /\ outcome = "running" /\ work # <<>>
    BY <1>6 DEF EnterOperator, Pop, Popping
  <2>2. Top.node \in Node /\ Top.below \in Seq(Node) /\ expr.kids[Top.node] \in Seq(Node)
    BY <1>a, <2>1, TopType, ExprAssumption DEF IsExpr
  <2>3. OperatorPushed(work', work, Top.node, expr.kids[Top.node], Top.below)
    BY <1>a, <2>1, <2>2, OperatorShape
  <2>4. PICK at : Reckons(at, expr, work, guard)
    BY <1>d, <2>1
  <2>5. \E up : Reckons(up, expr, work', guard + 1)
    <3>1. TopOf(work).tag = "Enter" /\ TopOf(work).node = Top.node
      BY <2>1 DEF Top
    <3>2. /\ PrefixCosts(Elapsed(expr)[Top.node], cost, expr.kids[Top.node])
          /\ cost[Top.node] = Elapsed(expr)[Top.node][Len(expr.kids[Top.node])] + 1
      BY <1>a, <1>f, <2>1, <2>2, OperatorCost
    <3>3. Metered(at, cost, work, cost[expr.root], guard)
      BY <1>h, <2>4
    <3>4. \E up : Metered(up, cost, work', cost[expr.root], guard + 1)
      BY ONLY <1>a, <1>g, <2>1, <2>2, <2>3, <3>1, <3>2, <3>3, MeterPush
    <3>. QED  BY <1>h, <3>4
  <2>. QED  BY <1>c, <2>1, <2>5 DEF Continue
<1>7. CASE CombineFunc
  <2>1. /\ Popping /\ expr' = expr /\ work' = Rest /\ guard' = guard + 1 /\ Top.tag = "Combine"
        /\ Continue \/ outcome' \in {"underflow", "fault"}
    BY <1>7 DEF CombineFunc, Pop, Popping, Return
  <2>. QED  BY <1>b, <1>e, <2>1 DEF FrameCost
<1>8. CASE CombineCond
  <2>1. /\ Popping /\ expr' = expr /\ work' = Rest /\ guard' = guard + 1 /\ Top.tag = "Combine"
        /\ Continue \/ outcome' \in {"underflow", "fault"}
    BY <1>8 DEF CombineCond, Pop, Popping, Return
  <2>. QED  BY <1>b, <1>e, <2>1 DEF FrameCost
<1>9. CASE Finish
  <2>1. /\ outcome = "running" /\ work = <<>> /\ expr' = expr /\ guard' = guard
        /\ outcome' \in {"ok", "badstack"}
    BY <1>9 DEF Finish, Return
  <2>2. PICK at : Reckons(at, expr, work, guard)
    BY <1>d, <2>1
  <2>3. FramesFor(expr, Elapsed(expr), expr.root) = guard
    BY <1>a, <1>g, <1>h, <2>1, <2>2 DEF Metered
  <2>. QED  BY <1>a, <2>1, <2>3 DEF CountInv, CapExact
<1>10. CASE UNCHANGED vars
  BY <1>10 DEF vars, CountInv, CapExact
<1>. QED
  BY <1>1, <1>2, <1>3, <1>4, <1>5, <1>6, <1>7, <1>8, <1>9, <1>10 DEF Next

\* The cap bites exactly where it says, whatever the expression: a value took no
\* more frames than the cap, a refused call needed more.
THEOREM CapIsExact == Spec => []CapExact
<1>1. CountInv => CapExact
  BY DEF CountInv
<1>. QED  BY <1>1, CountInit, CountStep, Invariance, PTL DEF Spec

(***************************************************************************)
(* The refinement: the machine of frames is one atomic answer.             *)
(***************************************************************************)
LEMMA RefinementStep == IInv /\ IInv' /\ [Next]_vars => [Abstract!Next]_(Abstract!vars)
<1>. SUFFICES ASSUME IInv, IInv', [Next]_vars
              PROVE  Abstract!Next \/ UNCHANGED <<expr, outcome, result>>
  BY DEF Abstract!vars
<1>1. Answered /\ Answered'
  BY DEF IInv, StackInv
<1>2. expr' = expr
  BY DEF Next, vars, CapExceeded, EnterLeaf, EnterMissing, EnterUnsupported, EnterWrapper,
     EnterOperator, CombineFunc, CombineCond, Finish, Pop
<1>3. outcome = "running" \/ UNCHANGED <<outcome, result>>
  BY DEF Next, vars, CapExceeded, EnterLeaf, EnterMissing, EnterUnsupported, EnterWrapper,
     EnterOperator, CombineFunc, CombineCond, Finish, Pop
<1>4. outcome' \in {"running", "ok", "fault", "cap"}
  BY <1>1 DEF IInv, TypeOK, Answered
<1>5. CASE outcome # "running"
  BY <1>2, <1>3, <1>5
<1>6. CASE outcome = "running" /\ outcome' = "running"
  BY <1>1, <1>2, <1>6 DEF Answered
<1>7. CASE outcome = "running" /\ outcome' = "cap"
  BY <1>1, <1>2, <1>7 DEF Answered, Abstract!Next, Abstract!GiveUp
<1>8. CASE outcome = "running" /\ outcome' \in {"ok", "fault"}
  <2>1. M' = M
    BY <1>2 DEF M
  <2>2. /\ result' = M[expr.root]
        /\ outcome' = "ok" => result' \in Values
        /\ outcome' = "fault" => result' \in Faults
    BY <1>1, <1>2, <1>8, <2>1 DEF Answered
  <2>3. outcome' = IF M[expr.root] \in Values THEN "ok" ELSE "fault"
    BY <1>8, <2>2, ValueAssumption
  <2>. QED  BY <1>2, <1>8, <2>2, <2>3 DEF M, Abstract!Next, Abstract!Answer, Abstract!Denotation
<1>. QED  BY <1>4, <1>5, <1>6, <1>7, <1>8

\* `evaluate` implements its one-step specification: an answer is the value the
\* expression denotes or the error of its first faulty part, and nothing else
\* is ever returned but the node-cap error.
THEOREM Refinement == Spec => ImplementsEvaluation
<1>1. Init => Abstract!Init
  BY DEF Init, Abstract!Init
<1>. QED
  BY <1>1, Invariance, RefinementStep, PTL DEF Spec, ImplementsEvaluation, Abstract!Spec
=============================================================================
