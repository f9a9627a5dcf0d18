---------------------------- MODULE SimplifierProofs ----------------------------
(***************************************************************************)
(* What holds of the simplifier for trees of every size and depth, every   *)
(* budget and every set of rules that keeps its promises node by node.     *)
(***************************************************************************)
EXTENDS Simplifier, WellFoundedInduction

USE DEF Tree

\* FrameStacks reads children and names from functions.
KidsOf == [t \in Tree |-> Kids(t)]
Itself == [t \in Tree |-> t]

\* The trees whose foldings are on the output stack now.
Finished == Expected(plan, KidsOf, before)

\* A frame of the plan and the frame of the program it stands for.
Planned(f) ==
  IF f.tag = "Enter" THEN Descend(f.node) ELSE Rebuild(Shell(f.node), Len(Kids(f.node)))

Matched ==
  /\ plan \in Seq(Frames) /\ Len(work) = Len(plan)
  /\ \A i \in 1..Len(plan) : work[i] = Planned(plan[i])

\* The foldings are there, and a change is reported if there was one in them.
Holds ==
  /\ Len(stack) = Len(Finished)
  /\ \A i \in 1..Len(Finished) : stack[i] = Fold(Finished[i]).node
  /\ changed <=> \E i \in 1..Len(Finished) : Fold(Finished[i]).changed

FoldingInv ==
  phase = "folding" =>
    /\ Matched /\ Chained(Itself, plan, KidsOf, before) /\ Holds
    /\ \E at : Metered(at, Turns, plan, Turns[before], guard)

\* u is what passes may make of the input.
Derived(u) ==
  /\ Weight(u) <= Weight(input)
  /\ \A env \in Bindings : Agree(input, u, env)

PassesInv ==
  /\ phase = "measure" => passes = 0 /\ ~changed /\ ~everChanged
  /\ HasRoom =>
       /\ Derived(before) /\ (phase # "folding" => Derived(expr))
       /\ ~everChanged => before = input /\ (phase # "folding" => expr = input)
       /\ phase # "folding" /\ ~changed /\ passes > 0 => expr = before

\* The inductive invariant.
IInv == TypeOK /\ FoldingInv /\ PassesInv

-----------------------------------------------------------------------------
(* Trees, by their turns. *)

LEMMA KidsType ==
  ASSUME NEW t \in Tree
  PROVE  /\ Kids(t) \in Seq(Tree) /\ Len(Kids(t)) \in Nat
         /\ \A i \in 1..Len(Kids(t)) : Kids(t)[i] \in Tree
<1>1. Kids(t) \in Seq(Tree)
  BY TreeAssumption
<1>. QED  BY <1>1, LenProperties, ElementOfSeq

LEMMA TurnsType == Turns \in [Tree -> Nat \ {0}]
<1>1. ASSUME NEW t \in Tree
      PROVE  (IF Kids(t) = <<>> THEN 1 ELSE TurnsTo(t)[Len(Kids(t))] + 1) \in Nat \ {0}
  <2>1. TurnsTo(t) \in [0..Len(Kids(t)) -> Nat]
    BY TurnsAssumption DEF PrefixCosts
  <2>2. TurnsTo(t)[Len(Kids(t))] \in Nat
    BY <2>1, KidsType
  <2>. QED  BY <2>2
<1>. QED  BY <1>1 DEF Turns

\* A child takes fewer turns than its parent.
LEMMA FewerTurns ==
  ASSUME NEW t \in Tree, NEW i \in 1..Len(Kids(t))
  PROVE  Turns[Kids(t)[i]] < Turns[t]
<1>a. PICK k, s, K : k = Kids(t) /\ s = TurnsTo(t) /\ K = Len(Kids(t))
  OBVIOUS
<1>1. K \in Nat /\ i \in 1..K /\ k[i] \in Tree /\ k # <<>>
  BY <1>a, KidsType
<1>2. /\ s \in [0..K -> Nat] /\ s[i] = s[i - 1] + Turns[k[i]]
      /\ s[i] <= s[K]
  BY <1>1, <1>a, TurnsAssumption DEF PrefixCosts
<1>3. Turns[t] = s[K] + 1
  BY <1>1, <1>a DEF Turns
<1>4. Turns[k[i]] \in Nat /\ s[i - 1] \in Nat /\ s[i] \in Nat /\ s[K] \in Nat
  BY <1>1, <1>2, TurnsType
<1>. QED  BY <1>2, <1>3, <1>4, <1>a

\* Induction is by the least number of a set.
LEMMA LeastNumber ==
  ASSUME NEW T, T \subseteq Nat, T # {}
  PROVE  \E x \in T : \A y \in T : x <= y
<1> DEFINE R == OpToRel(<, Nat)
<1>1. IsWellFoundedOn(R, Nat)
    BY NatLessThanWellFounded, Zenon
<1>2. \A x, y \in Nat : x < y => <<x, y>> \in R
    BY SMT DEF OpToRel
<1> HIDE DEF R
<1>3. PICK x \in T : \A y \in T : ~ (<<y, x>> \in R)
    BY <1>1, WFMin
<1>4. \A y \in T : x <= y
  <2> SUFFICES ASSUME NEW y \in T PROVE x <= y
      OBVIOUS
  <2>1. x \in Nat /\ y \in Nat
      OBVIOUS
  <2>2. ~(y < x)
    BY <1>2, <1>3, <2>1
  <2> QED BY <2>1, <2>2
<1> QED BY <1>3, <1>4

\* What holds of a tree if it holds of its children holds of every tree.
LEMMA TreeInduction ==
  ASSUME NEW S,
         \A t \in Tree : (\A i \in 1..Len(Kids(t)) : Kids(t)[i] \in S) => t \in S
  PROVE  \A t \in Tree : t \in S
<1>. DEFINE T == {Turns[t] : t \in Tree \ S}
<1>. SUFFICES ASSUME T # {} PROVE FALSE
  OBVIOUS
<1>1. T \subseteq Nat
  BY TurnsType
<1>2. PICK n \in T : \A m \in T : n <= m
  BY <1>1, LeastNumber
<1>3. PICK t \in Tree \ S : Turns[t] = n
  BY <1>2
<1>4. PICK i \in 1..Len(Kids(t)) : Kids(t)[i] \notin S
  BY <1>3
<1>5. Kids(t)[i] \in Tree \ S /\ Turns[Kids(t)[i]] < Turns[t]
  BY <1>3, <1>4, KidsType, FewerTurns
<1>6. PICK m : m = Turns[Kids(t)[i]]
  OBVIOUS
<1>7. m \in T
  BY <1>5, <1>6
<1>. HIDE DEF T
<1>8. m \in Nat /\ n \in Nat /\ n <= m /\ m < n
  BY <1>1, <1>2, <1>3, <1>5, <1>6, <1>7
<1>. QED  BY <1>8

\* Folding that leaves every child leaves the sequence of the children.
LEMMA SameElements ==
  ASSUME NEW S, NEW k \in Seq(S), NEW s, s = [i \in 1..Len(k) |-> s[i]],
         \A i \in 1..Len(k) : s[i] = k[i]
  PROVE  s = k
<1>1. k = [i \in 1..Len(k) |-> k[i]]
  OBVIOUS
<1>. QED  BY <1>1

LEMMA AssembledSame ==
  ASSUME NEW t \in Tree, \A i \in 1..Len(Kids(t)) : Fold(Kids(t)[i]).node = Kids(t)[i]
  PROVE  Assembled(t) = t
<1>a. PICK k : k = Kids(t)
  OBVIOUS
<1>b. PICK s : s = [i \in 1..Len(k) |-> Fold(k[i]).node]
  OBVIOUS
<1>1. k \in Seq(Tree)
  BY <1>a, KidsType
<1>2. s = [i \in 1..Len(k) |-> s[i]] /\ \A i \in 1..Len(k) : s[i] = k[i]
  BY <1>a, <1>b
<1>3. s = k
  BY <1>1, <1>2, SameElements
<1>4. Assembled(t) = PutChildren(Shell(t), Kids(t))
  BY <1>3, <1>a, <1>b DEF Assembled
<1>. QED  BY <1>4, TreeAssumption

LEMMA AssembledLeaf ==
  ASSUME NEW t \in Tree, Kids(t) = <<>>
  PROVE  Assembled(t) = t
<1>1. Len(Kids(t)) = 0
  OBVIOUS
<1>2. \A i \in 1..Len(Kids(t)) : Fold(Kids(t)[i]).node = Kids(t)[i]
  BY <1>1
<1>. QED  BY <1>2, AssembledSame

LEMMA FoldType ==
  ASSUME NEW t \in Tree
  PROVE  Fold(t).node \in Tree /\ Fold(t).changed \in BOOLEAN
  BY FoldAssumption

-----------------------------------------------------------------------------
(* What the rules promise of a node, a pass keeps of a tree. *)

\* A pass that reports no change has made none.
LEMMA Settled ==
  ASSUME NEW t \in Tree, ~Fold(t).changed
  PROVE  Fold(t).node = t
<1>. DEFINE S == {u \in Tree : ~Fold(u).changed => Fold(u).node = u}
<1>1. ASSUME NEW u \in Tree, \A i \in 1..Len(Kids(u)) : Kids(u)[i] \in S
      PROVE  u \in S
  <2>. SUFFICES ASSUME ~Fold(u).changed PROVE Fold(u).node = u
    OBVIOUS
  <2>1. /\ ~Rewritten(Assembled(u)).changed
        /\ \A i \in 1..Len(Kids(u)) : ~Fold(Kids(u)[i]).changed
    BY FoldAssumption
  <2>2. \A i \in 1..Len(Kids(u)) : Fold(Kids(u)[i]).node = Kids(u)[i]
    BY <1>1, <2>1
  <2>3. Assembled(u) = u
    BY <2>2, AssembledSame
  <2>4. Rewritten(Assembled(u)).node = Assembled(u)
    BY <2>1, HonestAssumption
  <2>. QED  BY <2>3, <2>4, FoldAssumption
<1>2. t \in S
  <2>. HIDE DEF S
  <2>. QED  BY <1>1, TreeInduction
<1>. QED  BY <1>2

\* A pass keeps the value of a tree.
LEMMA Kept ==
  ASSUME NEW t \in Tree, NEW env \in Bindings
  PROVE  Agree(t, Fold(t).node, env)
<1>. DEFINE S == {u \in Tree : Agree(u, Fold(u).node, env)}
<1>1. ASSUME NEW u \in Tree, \A i \in 1..Len(Kids(u)) : Kids(u)[i] \in S
      PROVE  u \in S
  <2>1. Agree(u, Assembled(u), env)
    BY <1>1, ValueAssumption
  <2>2. Agree(Assembled(u), Rewritten(Assembled(u)).node, env)
    BY ValueAssumption
  <2>3. Fold(u).node = Rewritten(Assembled(u)).node
    BY FoldAssumption
  <2>. QED  BY <2>1, <2>2, <2>3 DEF Agree
<1>2. t \in S
  <2>. HIDE DEF S
  <2>. QED  BY <1>1, TreeInduction
<1>. QED  BY <1>2

\* A pass does not raise the weight of a tree.
LEMMA Lighter ==
  ASSUME NEW t \in Tree
  PROVE  Weight(Fold(t).node) <= Weight(t)
<1>. DEFINE S == {u \in Tree : Weight(Fold(u).node) <= Weight(u)}
<1>1. ASSUME NEW u \in Tree, \A i \in 1..Len(Kids(u)) : Kids(u)[i] \in S
      PROVE  u \in S
  <2>1. Weight(Assembled(u)) <= Weight(u)
    BY <1>1, WeightAssumption
  <2>2. /\ Weight(Rewritten(Assembled(u)).node) <= Weight(Assembled(u))
        /\ Weight(u) \in Nat /\ Weight(Assembled(u)) \in Nat
    BY WeightAssumption
  <2>3. Fold(u).node = Rewritten(Assembled(u)).node /\ Fold(u).node \in Tree
    BY FoldAssumption, FoldType
  <2>4. Weight(Fold(u).node) \in Nat
    BY <2>3, WeightAssumption
  <2>5. Weight(Fold(u).node) <= Weight(u)
    BY ONLY <2>1, <2>2, <2>3, <2>4
  <2>. QED  BY <2>5
<1>2. t \in S
  <2>. HIDE DEF S
  <2>. QED  BY <1>1, TreeInduction
<1>. QED  BY <1>2

-----------------------------------------------------------------------------
(* A frame of the plan, and the trees whose foldings are on the stack. *)

Foldings(stk, ch, trees) ==
  /\ Len(stk) = Len(trees)
  /\ \A i \in 1..Len(trees) : stk[i] = Fold(trees[i]).node
  /\ ch <=> \E i \in 1..Len(trees) : Fold(trees[i]).changed

LEMMA KidsOfType == KidsOf \in [Tree -> Seq(Tree)] /\ \A t \in Tree : KidsOf[t] = Kids(t)
  BY KidsType DEF KidsOf

\* What a popped frame leaves is what is expected after it.
LEMMA Delivered ==
  ASSUME NEW w \in Seq(Frames), w # <<>>, NEW root \in Tree, Chained(Itself, w, KidsOf, root)
  PROVE  /\ Chained(Itself, RestOf(w), KidsOf, root)
         /\ Expected(RestOf(w), KidsOf, root) = Append(TopOf(w).below, TopOf(w).node)
<1>a. PICK r, f, x : r = RestOf(w) /\ f = TopOf(w) /\ x = Expected(r, KidsOf, root)
  OBVIOUS
<1>1. /\ r \in Seq(Frames) /\ f \in Frames
      /\ f.node \in Tree /\ f.below \in Seq(Tree)
  BY <1>a, TopFrame
<1>2. Chained(Itself, r, KidsOf, root) /\ SamePoint(Itself, Post(f), x)
  BY <1>a, ChainPop
<1>3. Post(f) \in Seq(Tree)
  BY <1>1, AppendProperties DEF Post
<1>4. x \in Seq(Tree)
  <2>1. CASE r = <<>>
    BY <1>a, <2>1 DEF Expected
  <2>2. CASE r # <<>>
    <3>1. TopOf(r).node \in Tree /\ TopOf(r).below \in Seq(Tree)
      BY <1>1, <2>2, TopFrame
    <3>2. KidsOf[TopOf(r).node] \in Seq(Tree)
      BY <3>1, KidsOfType
    <3>3. TopOf(r).below \o KidsOf[TopOf(r).node] \in Seq(Tree)
      BY <3>1, <3>2, ConcatProperties
    <3>. QED  BY <1>a, <2>2, <3>1, <3>3 DEF Expected, Pre
  <2>. QED  BY <2>1, <2>2
<1>5. Len(Post(f)) = Len(x) /\ \A j \in 1..Len(x) : Itself[Post(f)[j]] = Itself[x[j]]
  BY <1>2 DEF SamePoint
<1>6. \A j \in 1..Len(x) : Post(f)[j] = x[j]
  BY <1>3, <1>4, <1>5, ElementOfSeq DEF Itself
<1>7. Post(f) = x
  BY <1>3, <1>4, <1>5, <1>6, SeqEqual
<1>. QED  BY <1>2, <1>7, <1>a DEF Post

\* A tree whose children are folded, rewritten and put on top.
LEMMA Emitted ==
  ASSUME NEW b \in Seq(Tree), NEW t \in Tree, NEW rest \in Seq(Tree), NEW ch \in BOOLEAN,
         Len(rest) = Len(b), \A i \in 1..Len(b) : rest[i] = Fold(b[i]).node,
         ch <=> \/ \E i \in 1..Len(b) : Fold(b[i]).changed
                \/ \E i \in 1..Len(Kids(t)) : Fold(Kids(t)[i]).changed,
         NEW r, r = Rewritten(Assembled(t)), NEW now, now <=> (ch \/ r.changed)
  PROVE  /\ Append(rest, r.node) \in Seq(Tree)
         /\ Foldings(Append(rest, r.node), now, Append(b, t))
<1>1. /\ r.node = Fold(t).node /\ r.node \in Tree
      /\ Fold(t).changed <=> (r.changed \/ \E i \in 1..Len(Kids(t)) : Fold(Kids(t)[i]).changed)
  BY FoldAssumption, FoldType
<1>a. PICK n, s, e : n = Len(b) /\ s = Append(rest, r.node) /\ e = Append(b, t)
  OBVIOUS
<1>2. /\ n \in Nat /\ s \in Seq(Tree) /\ Len(s) = n + 1
      /\ \A i \in 1..n : s[i] = rest[i]
      /\ s[n + 1] = r.node
  BY <1>1, <1>a, AppendProperties, LenProperties
<1>3. /\ Len(e) = n + 1
      /\ \A i \in 1..n : e[i] = b[i]
      /\ e[n + 1] = t
  BY <1>a, AppendProperties
<1>4. \A i \in 1..(n + 1) : i \in 1..n \/ i = n + 1
  BY <1>2
<1>5. \A i \in 1..(n + 1) : s[i] = Fold(e[i]).node
  BY <1>1, <1>2, <1>3, <1>4, <1>a
<1>6. (\E i \in 1..(n + 1) : Fold(e[i]).changed)
        <=> (\E i \in 1..n : Fold(b[i]).changed) \/ Fold(t).changed
  <2>1. n + 1 \in 1..(n + 1) /\ \A i \in 1..n : i \in 1..(n + 1)
    BY <1>2
  <2>. QED  BY <1>3, <1>4, <2>1, Zenon
<1>7. now <=> \E i \in 1..(n + 1) : Fold(e[i]).changed
  BY <1>1, <1>6, <1>a, Zenon
<1>. QED  BY <1>2, <1>3, <1>5, <1>7, <1>a DEF Foldings

\* The frames of a node's children, as the program and as the plan have them.
LEMMA Detached ==
  ASSUME NEW t \in Tree
  PROVE  /\ DetachChildren(t) \in Seq(WorkFrames) /\ Len(DetachChildren(t)) = Len(Kids(t)) + 1
         /\ DetachChildren(t)[1] = Rebuild(Shell(t), Len(Kids(t)))
         /\ \A p \in 1..Len(Kids(t)) :
              DetachChildren(t)[1 + p] = Descend(Kids(t)[Len(Kids(t)) + 1 - p])
<1>a. PICK k, K : k = Kids(t) /\ K = Len(Kids(t))
  OBVIOUS
<1>b. PICK one, kids : /\ one = <<Rebuild(Shell(t), K)>>
                       /\ kids = [i \in 1..K |-> Descend(k[K + 1 - i])]
  OBVIOUS
<1>1. K \in Nat /\ \A i \in 1..K : k[i] \in Tree
  BY <1>a, KidsType
<1>2. Rebuild(Shell(t), K) \in WorkFrames
  BY <1>a DEF WorkFrames
<1>3. one \in Seq(WorkFrames) /\ Len(one) = 1 /\ one[1] = Rebuild(Shell(t), K)
  BY <1>2, <1>b
<1>4. \A i \in 1..K : Descend(k[K + 1 - i]) \in WorkFrames
  <2>. TAKE i \in 1..K
  <2>1. K + 1 - i \in 1..K
    BY <1>1
  <2>. QED  BY <1>1, <2>1 DEF WorkFrames
<1>5. kids \in Seq(WorkFrames) /\ Len(kids) = K /\ \A i \in 1..K : kids[i] = Descend(k[K + 1 - i])
  BY <1>1, <1>4, <1>b
<1>6. /\ one \o kids \in Seq(WorkFrames) /\ Len(one \o kids) = 1 + K
      /\ \A i \in 1..(1 + K) : (one \o kids)[i] = IF i <= 1 THEN one[i] ELSE kids[i - 1]
  <2>1. /\ one \o kids \in Seq(WorkFrames) /\ Len(one \o kids) = Len(one) + Len(kids)
        /\ \A i \in 1..(Len(one) + Len(kids)) :
             (one \o kids)[i] = IF i <= Len(one) THEN one[i] ELSE kids[i - Len(one)]
    BY <1>3, <1>5, ConcatProperties
  <2>. QED  BY ONLY <1>3, <1>5, <2>1
<1>7. DetachChildren(t) = one \o kids
  BY <1>a, <1>b DEF DetachChildren
<1>8. (one \o kids)[1] = Rebuild(Shell(t), K)
  BY <1>1, <1>3, <1>6
<1>9. ASSUME NEW p \in 1..K PROVE (one \o kids)[1 + p] = Descend(k[K + 1 - p])
  <2>1. 1 + p \in 1..(1 + K) /\ ~(1 + p <= 1) /\ 1 + p - 1 = p
    BY <1>1
  <2>. QED  BY <1>5, <1>6, <2>1
<1>. QED  BY <1>1, <1>6, <1>7, <1>8, <1>9, <1>a

\* What the program's top frame says of the plan's.
LEMMA TopPlanned ==
  ASSUME TypeOK, Matched, work # <<>>
  PROVE  /\ plan # <<>> /\ Len(plan) = Len(work) /\ Len(work) \in Nat \ {0}
         /\ TopOf(plan) \in Frames
         /\ TopOf(plan).node \in Tree /\ TopOf(plan).below \in Seq(Tree)
         /\ Top = Planned(TopOf(plan))
         /\ Top.tag = "Descend" => TopOf(plan).tag = "Enter" /\ Top.node = TopOf(plan).node
         /\ Top.tag = "Rebuild" => /\ TopOf(plan).tag = "Combine"
                                   /\ Top.node = Shell(TopOf(plan).node)
                                   /\ Top.arity = Len(Kids(TopOf(plan).node))
<1>1. work \in Seq(WorkFrames) /\ Len(work) \in Nat \ {0}
  BY EmptySeq DEF TypeOK
<1>2. plan \in Seq(Frames) /\ Len(plan) = Len(work) /\ plan # <<>>
  BY <1>1, EmptySeq DEF Matched
<1>3. TopOf(plan) \in Frames /\ TopOf(plan).node \in Tree /\ TopOf(plan).below \in Seq(Tree)
  BY <1>2, TopFrame
<1>4. Top = Planned(TopOf(plan))
  BY <1>1, <1>2 DEF Matched, Top, TopOf
<1>5. TopOf(plan).tag \in {"Enter", "Combine"}
  BY <1>3 DEF Frames
<1>. QED  BY <1>1, <1>2, <1>3, <1>4, <1>5 DEF Planned, Descend, Rebuild

\* A frame popped from both.
LEMMA MatchedPop ==
  ASSUME TypeOK, Matched, work # <<>>
  PROVE  /\ RestOf(work) \in Seq(WorkFrames) /\ RestOf(plan) \in Seq(Frames)
         /\ Len(RestOf(work)) = Len(work) - 1 /\ Len(RestOf(plan)) = Len(work) - 1
         /\ \A i \in 1..(Len(work) - 1) : /\ RestOf(work)[i] = work[i]
                                          /\ RestOf(plan)[i] = plan[i]
                                          /\ work[i] = Planned(plan[i])
<1>1. plan # <<>> /\ Len(plan) = Len(work) /\ Len(work) \in Nat \ {0}
  BY TopPlanned
<1>2. /\ RestOf(work) \in Seq(WorkFrames) /\ Len(RestOf(work)) = Len(work) - 1
      /\ \A i \in 1..(Len(work) - 1) : RestOf(work)[i] = work[i]
  <2>1. work \in Seq(WorkFrames)
    BY DEF TypeOK
  <2>. QED  BY <2>1, FrontType DEF RestOf
<1>3. /\ RestOf(plan) \in Seq(Frames) /\ Len(RestOf(plan)) = Len(work) - 1
      /\ \A i \in 1..(Len(work) - 1) : RestOf(plan)[i] = plan[i]
  <2>1. plan \in Seq(Frames)
    BY DEF Matched
  <2>. QED  BY <1>1, <2>1, TopFrame
<1>4. \A i \in 1..(Len(work) - 1) : work[i] = Planned(plan[i])
  BY <1>1 DEF Matched
<1>. QED  BY <1>2, <1>3, <1>4

\* The frames w are those that the plan u stands for.
Together(w, u) ==
  w \in Seq(WorkFrames) /\ Len(w) = Len(u) /\ \A i \in 1..Len(u) : w[i] = Planned(u[i])

\* A detached node takes the place of its frame, its children above it, in both.
LEMMA MatchedPush ==
  ASSUME TypeOK, Matched, work # <<>>, NEW t \in Tree, NEW b \in Seq(Tree),
         NEW w, w = RestOf(work) \o DetachChildren(t),
         NEW u, OperatorPushed(u, plan, t, Kids(t), b)
  PROVE  Together(w, u)
<1>a. PICK L, k, K, r, d : /\ L = Len(work) /\ k = Kids(t) /\ K = Len(Kids(t))
                           /\ r = RestOf(work) /\ d = DetachChildren(t)
  OBVIOUS
<1>1. L \in Nat \ {0} /\ Len(plan) = L /\ K \in Nat
  BY <1>a, TopPlanned, KidsType
<1>2. /\ r \in Seq(WorkFrames) /\ Len(r) = L - 1
      /\ \A i \in 1..(L - 1) : r[i] = Planned(plan[i])
  BY <1>a, MatchedPop
<1>3. /\ d \in Seq(WorkFrames) /\ Len(d) = K + 1
      /\ d[1] = Rebuild(Shell(t), K)
      /\ \A p \in 1..K : d[1 + p] = Descend(k[K + 1 - p])
  BY <1>a, Detached
<1>4. /\ w \in Seq(WorkFrames) /\ Len(w) = L - 1 + (K + 1)
      /\ \A i \in 1..(L - 1 + (K + 1)) : w[i] = IF i <= L - 1 THEN r[i] ELSE d[i - (L - 1)]
  <2>1. /\ r \o d \in Seq(WorkFrames) /\ Len(r \o d) = Len(r) + Len(d)
        /\ \A i \in 1..(Len(r) + Len(d)) :
             (r \o d)[i] = IF i <= Len(r) THEN r[i] ELSE d[i - Len(r)]
    BY <1>2, <1>3, ConcatProperties
  <2>2. w = r \o d
    BY <1>a
  <2>. QED  BY ONLY <1>2, <1>3, <2>1, <2>2
<1>5. /\ Len(u) = L + K
      /\ \A i \in 1..(L - 1) : u[i] = plan[i]
      /\ u[L] = CombineFrame(t, b)
      /\ \A p \in 1..K : u[L + p] = Enter(k[K + 1 - p], b \o SubSeq(k, 1, K - p))
  BY <1>1, <1>a DEF OperatorPushed
<1>6. L - 1 + (K + 1) = L + K
  BY <1>1
<1>7. ASSUME NEW i \in 1..(L + K) PROVE w[i] = Planned(u[i])
  <2>1. CASE i <= L - 1
    <3>1. i \in 1..(L - 1) /\ i \in 1..(L - 1 + (K + 1))
      BY <1>1, <2>1
    <3>. QED  BY <1>2, <1>4, <1>5, <2>1, <3>1
  <2>2. CASE i = L
    <3>1. L \in 1..(L - 1 + (K + 1)) /\ ~(L <= L - 1) /\ L - (L - 1) = 1
      BY <1>1
    <3>2. w[L] = d[1]
      BY <1>4, <3>1
    <3>3. Planned(CombineFrame(t, b)) = Rebuild(Shell(t), K)
      BY <1>a DEF Planned, CombineFrame
    <3>. QED  BY <1>3, <1>5, <2>2, <3>2, <3>3
  <2>3. CASE i > L
    <3>1. i - L \in 1..K /\ i = L + (i - L)
      BY <1>1, <2>3
    <3>2. PICK p \in 1..K : i = L + p
      BY ONLY <3>1
    <3>3. i \in 1..(L - 1 + (K + 1)) /\ ~(i <= L - 1) /\ i - (L - 1) = 1 + p
      BY <1>1, <3>2
    <3>4. w[i] = Descend(k[K + 1 - p])
      BY <1>3, <1>4, <3>3
    <3>5. u[i] = Enter(k[K + 1 - p], b \o SubSeq(k, 1, K - p))
      BY <1>5, <3>2
    <3>. QED  BY <3>4, <3>5 DEF Planned, Enter
  <2>4. i <= L - 1 \/ i = L \/ i > L
    BY ONLY <1>1, i \in 1..(L + K)
  <2>. QED  BY <2>1, <2>2, <2>3, <2>4
<1>. QED  BY <1>4, <1>5, <1>6, <1>7 DEF Together

-----------------------------------------------------------------------------
(* The inductive invariant. *)

LEMMA Limits == /\ Inputs \subseteq Tree /\ Stub \in Tree
                /\ FrameLimit \in Nat /\ MaxNodes \in Nat
                /\ request \in Requests => Budget \in Nat
                /\ \A t \in Tree : Nodes(t) \in Nat /\ Weight(t) \in Nat
<1>1. \A t \in Tree : Nodes(t) \in Nat /\ Weight(t) \in Nat
  BY WeightAssumption
<1>2. FrameLimit \in Nat /\ MaxNodes \in Nat
  BY LimitsAssumption DEF FrameLimit
<1>3. request \in Requests => Budget \in Nat
  BY LimitsAssumption DEF Budget
<1>. QED  BY <1>1, <1>2, <1>3, TreeAssumption

\* A pass makes of what is derived from the input what is derived from it.
LEMMA FoldDerived ==
  ASSUME input \in Tree, NEW u \in Tree, Derived(u)
  PROVE  Derived(Fold(u).node)
<1>a. PICK v : v = Fold(u).node
  OBVIOUS
<1>1. v \in Tree /\ Weight(v) <= Weight(u)
  BY <1>a, FoldType, Lighter
<1>2. Weight(v) <= Weight(input)
  BY <1>1, Limits DEF Derived
<1>3. ASSUME NEW env \in Bindings PROVE Agree(input, v, env)
  <2>1. Agree(input, u, env) /\ Agree(u, v, env)
    BY <1>a, Kept DEF Derived
  <2>. QED  BY <2>1 DEF Agree
<1>. QED  BY <1>2, <1>3, <1>a DEF Derived

\* However a rule has enlarged the tree, a pass over it ends within the limit if the
\* input has room.
LEMMA WithinLimit ==
  ASSUME input \in Tree, HasRoom, NEW u \in Tree, Derived(u)
  PROVE  Turns[u] \in Nat /\ Turns[u] <= FrameLimit
<1>1. Turns[u] <= Weight(u) /\ Weight(u) <= Weight(input) /\ Weight(input) <= FrameLimit
  BY WeightAssumption DEF Derived, HasRoom
<1>2. Turns[u] \in Nat /\ Weight(u) \in Nat /\ Weight(input) \in Nat /\ FrameLimit \in Nat
  BY TurnsType, Limits
<1>. QED  BY <1>1, <1>2

LEMMA InitInv == Init => IInv
<1>. SUFFICES ASSUME Init PROVE IInv
  OBVIOUS
<1>1. input \in Tree /\ Budget \in Nat /\ FrameLimit \in Nat
  BY Limits DEF Init
<1>2. TypeOK
  <2>1. /\ <<>> \in Seq(WorkFrames) /\ <<>> \in Seq(Tree) /\ <<>> \in Seq(Frames)
        /\ 0 \in 0..FrameLimit /\ 0 \in 0..Budget
    BY <1>1, EmptySeq
  <2>. QED  BY <1>1, <2>1 DEF Init, TypeOK
<1>3. Derived(input)
  BY <1>1, Limits DEF Derived, Agree
<1>4. PassesInv
  BY <1>3 DEF Init, PassesInv
<1>. QED  BY <1>2, <1>4 DEF Init, IInv, FoldingInv

\* A turn of the loop that keeps the stacks in step.
LEMMA Turned ==
  ASSUME IInv, phase = "folding", guard' = guard + 1, guard' <= FrameLimit,
         UNCHANGED <<call, expr, everChanged, passes, before, phase>>,
         work' \in Seq(WorkFrames), stack' \in Seq(Tree), changed' \in BOOLEAN,
         Matched', Chained(Itself, plan', KidsOf, before),
         Foldings(stack', changed', Expected(plan', KidsOf, before)),
         \E at : Metered(at, Turns, plan', Turns[before], guard')
  PROVE  IInv'
<1>1. /\ input' = input /\ request' = request /\ expr' = expr /\ everChanged' = everChanged
      /\ passes' = passes /\ before' = before /\ phase' = phase
  BY DEF call
<1>2. TypeOK'
  <2>1. guard' \in 0..FrameLimit
    BY Limits DEF IInv, TypeOK
  <2>2. Budget' = Budget
    BY <1>1 DEF Budget
  <2>3. plan' \in Seq(Frames)
    BY DEF Matched
  <2>. QED  BY <1>1, <2>1, <2>2, <2>3 DEF IInv, TypeOK
<1>3. FoldingInv'
  <2>1. Holds'
    BY <1>1 DEF Foldings, Holds, Finished
  <2>. QED  BY <1>1, <2>1 DEF FoldingInv
<1>4. PassesInv'
  BY <1>1 DEF IInv, PassesInv, Derived, HasRoom
<1>. QED  BY <1>2, <1>3, <1>4 DEF IInv

\* What holds at a turn, said of the frame popped.
LEMMA Popped ==
  ASSUME IInv, NEW tag, Pop(tag)
  PROVE  /\ TypeOK /\ Matched /\ work # <<>> /\ Top.tag = tag /\ phase = "folding"
         /\ before \in Tree /\ guard \in Nat /\ stack \in Seq(Tree) /\ changed \in BOOLEAN
         /\ Chained(Itself, plan, KidsOf, before)
         /\ Foldings(stack, changed, Pre(TopOf(plan), KidsOf))
         /\ \E at : Metered(at, Turns, plan, Turns[before], guard)
         /\ guard' = guard + 1 /\ guard' <= FrameLimit
         /\ UNCHANGED <<call, expr, everChanged, passes, before, phase>>
<1>1. TypeOK /\ Matched /\ work # <<>> /\ phase = "folding" /\ Holds
  BY DEF IInv, FoldingInv, Pop
<1>2. plan # <<>>
  BY <1>1, TopPlanned
<1>3. Finished = Pre(TopOf(plan), KidsOf)
  BY <1>2 DEF Finished, Expected
<1>4. Foldings(stack, changed, Pre(TopOf(plan), KidsOf))
  BY <1>1, <1>3 DEF Holds, Foldings
<1>5. before \in Tree /\ guard \in Nat /\ stack \in Seq(Tree) /\ changed \in BOOLEAN
  BY <1>1, Limits DEF TypeOK
<1>. QED  BY <1>1, <1>4, <1>5 DEF IInv, FoldingInv, Pop

\* The frame is gone from both stacks.
LEMMA FrameGone ==
  ASSUME IInv, NEW tag, Pop(tag), FrameCost(Turns, TopOf(plan)) = 1,
         work' = RestOf(work), plan' = RestOf(plan)
  PROVE  /\ work' \in Seq(WorkFrames) /\ Matched'
         /\ Chained(Itself, plan', KidsOf, before)
         /\ Expected(plan', KidsOf, before) = Append(TopOf(plan).below, TopOf(plan).node)
         /\ \E at : Metered(at, Turns, plan', Turns[before], guard')
<1>1. /\ TypeOK /\ Matched /\ work # <<>> /\ before \in Tree /\ guard \in Nat
      /\ Chained(Itself, plan, KidsOf, before) /\ guard' = guard + 1
  BY Popped
<1>2. PICK at : Metered(at, Turns, plan, Turns[before], guard)
  BY Popped
<1>3. plan \in Seq(Frames) /\ plan # <<>>
  BY <1>1, TopPlanned DEF Matched
<1>4. /\ work' \in Seq(WorkFrames) /\ plan' \in Seq(Frames)
      /\ Len(work') = Len(work) - 1 /\ Len(plan') = Len(work) - 1
      /\ \A i \in 1..(Len(work) - 1) : work'[i] = Planned(plan'[i])
  BY <1>1, MatchedPop
<1>5. Matched'
  BY <1>4 DEF Matched
<1>6. /\ Chained(Itself, plan', KidsOf, before)
      /\ Expected(plan', KidsOf, before) = Append(TopOf(plan).below, TopOf(plan).node)
  BY <1>1, <1>3, Delivered
<1>7. \E up : Metered(up, Turns, RestOf(plan), Turns[before], guard + 1)
  BY <1>1, <1>2, <1>3, TurnsType, MeterPop
<1>. QED  BY <1>1, <1>4, <1>5, <1>6, <1>7

LEMMA VisitLeafInv == IInv /\ VisitLeaf => IInv'
<1>. SUFFICES ASSUME IInv, VisitLeaf PROVE IInv'
  OBVIOUS
<1>a. PICK t, b, r : /\ t = TopOf(plan).node /\ b = TopOf(plan).below
                     /\ r = Rewritten(Assembled(t))
  OBVIOUS
<1>1. /\ Pop("Descend") /\ Kids(Top.node) = <<>>
      /\ work' = RestOf(work) /\ plan' = RestOf(plan)
      /\ stack' = Append(stack, Rewritten(Top.node).node)
      /\ changed' = (changed \/ Rewritten(Top.node).changed)
  BY DEF VisitLeaf, Emit
<1>2. /\ TypeOK /\ Matched /\ work # <<>> /\ Top.tag = "Descend" /\ phase = "folding"
      /\ stack \in Seq(Tree) /\ changed \in BOOLEAN
      /\ Foldings(stack, changed, Pre(TopOf(plan), KidsOf))
      /\ guard' = guard + 1 /\ guard' <= FrameLimit
      /\ UNCHANGED <<call, expr, everChanged, passes, before, phase>>
  BY <1>1, Popped
<1>3. TopOf(plan).tag = "Enter" /\ Top.node = t /\ t \in Tree /\ b \in Seq(Tree)
  BY <1>2, <1>a, TopPlanned
<1>4. Kids(t) = <<>> /\ Assembled(t) = t
  BY <1>1, <1>3, AssembledLeaf
<1>5. FrameCost(Turns, TopOf(plan)) = 1
  BY <1>3, <1>4, <1>a DEF FrameCost, Turns
<1>6. /\ work' \in Seq(WorkFrames) /\ Matched' /\ Chained(Itself, plan', KidsOf, before)
      /\ Expected(plan', KidsOf, before) = Append(b, t)
      /\ \E at : Metered(at, Turns, plan', Turns[before], guard')
  BY <1>1, <1>5, <1>a, FrameGone
<1>7. Foldings(stack, changed, b)
  BY <1>2, <1>3, <1>a DEF Pre
<1>8. stack' = Append(stack, r.node) /\ changed' = (changed \/ r.changed) /\ r.changed \in BOOLEAN
  BY <1>1, <1>3, <1>4, <1>a, FoldAssumption
<1>9. changed <=> \/ \E i \in 1..Len(b) : Fold(b[i]).changed
                  \/ \E i \in 1..Len(Kids(t)) : Fold(Kids(t)[i]).changed
  <2>1. Len(Kids(t)) = 0
    BY <1>4
  <2>2. ~ \E i \in 1..Len(Kids(t)) : Fold(Kids(t)[i]).changed
    BY <2>1
  <2>. QED  BY <1>7, <2>2 DEF Foldings
<1>10. changed' \in BOOLEAN /\ (changed' <=> (changed \/ r.changed))
  BY <1>2, <1>8
<1>11. Len(stack) = Len(b) /\ \A i \in 1..Len(b) : stack[i] = Fold(b[i]).node
  BY <1>7 DEF Foldings
<1>12. /\ Append(stack, r.node) \in Seq(Tree)
       /\ Foldings(Append(stack, r.node), changed', Append(b, t))
  BY ONLY <1>2, <1>3, <1>9, <1>10, <1>11, <1>a, Emitted
<1>13. stack' \in Seq(Tree) /\ Foldings(stack', changed', Expected(plan', KidsOf, before))
  BY ONLY <1>6, <1>8, <1>12
<1>. QED  BY <1>2, <1>6, <1>10, <1>13, Turned

LEMMA ReattachInv == IInv /\ Reattach => IInv'
<1>. SUFFICES ASSUME IInv, Reattach PROVE IInv'
  OBVIOUS
<1>a. PICK t, b, r, k : /\ t = TopOf(plan).node /\ b = TopOf(plan).below
                        /\ r = Rewritten(Assembled(t)) /\ k = Kids(t)
  OBVIOUS
<1>b. PICK at, args, rest : /\ at = SplitPoint(Top.arity)
                            /\ args = SubSeq(stack, at + 1, Len(stack))
                            /\ rest = SubSeq(stack, 1, at)
  OBVIOUS
<1>1. /\ Pop("Rebuild") /\ work' = RestOf(work) /\ plan' = RestOf(plan)
      /\ stack' = Append(rest, Rewritten(PutChildren(Top.node, args)).node)
      /\ changed' = (changed \/ Rewritten(PutChildren(Top.node, args)).changed)
  BY <1>b DEF Reattach, Emit
<1>2. /\ TypeOK /\ Matched /\ work # <<>> /\ Top.tag = "Rebuild" /\ phase = "folding"
      /\ stack \in Seq(Tree) /\ changed \in BOOLEAN
      /\ Foldings(stack, changed, Pre(TopOf(plan), KidsOf))
      /\ guard' = guard + 1 /\ guard' <= FrameLimit
      /\ UNCHANGED <<call, expr, everChanged, passes, before, phase>>
  BY <1>1, Popped
<1>3. /\ TopOf(plan).tag = "Combine" /\ Top.node = Shell(t) /\ Top.arity = Len(k)
      /\ t \in Tree /\ b \in Seq(Tree)
  BY <1>2, <1>a, TopPlanned
<1>4. k \in Seq(Tree) /\ Len(k) \in Nat /\ KidsOf[t] = k
  BY <1>3, <1>a, KidsType, KidsOfType
<1>5. FrameCost(Turns, TopOf(plan)) = 1
  BY <1>3 DEF FrameCost
<1>6. /\ work' \in Seq(WorkFrames) /\ Matched' /\ Chained(Itself, plan', KidsOf, before)
      /\ Expected(plan', KidsOf, before) = Append(b, t)
      /\ \E up : Metered(up, Turns, plan', Turns[before], guard')
  BY <1>1, <1>5, <1>a, FrameGone
<1>7. Foldings(stack, changed, b \o k)
  BY <1>2, <1>3, <1>4, <1>a DEF Pre
<1>8. Len(stack) = Len(b \o k)
  BY <1>7 DEF Foldings
<1>9. /\ Len(stack) >= Len(k)
      /\ Split(stack, Tree, b, k, SubSeq(stack, Len(stack) - Len(k) + 1, Len(stack)),
               SubSeq(stack, 1, Len(stack) - Len(k)))
  <2>1. Split(stack, Tree, b, k, SubSeq(stack, Len(stack) - Len(k) + 1, Len(stack)),
              SubSeq(stack, 1, Len(stack) - Len(k)))
    BY <1>2, <1>3, <1>4, <1>8, OperandsSplit
  <2>. QED  BY <2>1 DEF Split
<1>10. at = Len(stack) - Len(k)
  BY <1>3, <1>9, <1>b DEF SplitPoint
<1>11. Split(stack, Tree, b, k, args, rest)
  BY <1>9, <1>10, <1>b
<1>12. /\ args \in Seq(Tree) /\ Len(args) = Len(k) /\ rest \in Seq(Tree) /\ Len(rest) = Len(b)
       /\ \A j \in 1..Len(b) : j \in 1..Len(b \o k) /\ rest[j] = stack[j] /\ (b \o k)[j] = b[j]
       /\ \A j \in 1..Len(k) : /\ Len(b) + j \in 1..Len(b \o k)
                               /\ args[j] = stack[Len(b) + j]
                               /\ (b \o k)[Len(b) + j] = k[j]
  BY <1>11 DEF Split
<1>c. PICK e : e = b \o k
  OBVIOUS
<1>13. /\ \A i \in 1..Len(e) : stack[i] = Fold(e[i]).node
       /\ changed <=> \E i \in 1..Len(e) : Fold(e[i]).changed
  BY <1>7, <1>c DEF Foldings
<1>14. \A j \in 1..Len(b) : rest[j] = Fold(b[j]).node
  BY <1>12, <1>13, <1>c
<1>15. \A j \in 1..Len(k) : args[j] = Fold(k[j]).node
  BY <1>12, <1>13, <1>c
<1>16. changed <=> \/ \E i \in 1..Len(b) : Fold(b[i]).changed
                   \/ \E i \in 1..Len(k) : Fold(k[i]).changed
  <2>1. ASSUME NEW i \in 1..Len(e)
        PROVE  i \in 1..Len(b) \/ \E j \in 1..Len(k) : i = Len(b) + j
    <3>1. Len(e) = Len(b) + Len(k) /\ Len(b) \in Nat
      BY <1>3, <1>4, <1>c, ConcatProperties, LenProperties
    <3>2. i \in 1..Len(b) \/ (i - Len(b) \in 1..Len(k) /\ i = Len(b) + (i - Len(b)))
      BY <1>4, <3>1
    <3>. QED  BY <3>2
  <2>2. ASSUME NEW i \in 1..Len(e), Fold(e[i]).changed
        PROVE  (\E j \in 1..Len(b) : Fold(b[j]).changed) \/ \E j \in 1..Len(k) : Fold(k[j]).changed
    BY <1>12, <1>c, <2>1, <2>2
  <2>3. ASSUME NEW j \in 1..Len(b), Fold(b[j]).changed
        PROVE  \E i \in 1..Len(e) : Fold(e[i]).changed
    BY <1>12, <1>c, <2>3
  <2>4. ASSUME NEW j \in 1..Len(k), Fold(k[j]).changed
        PROVE  \E i \in 1..Len(e) : Fold(e[i]).changed
    BY <1>12, <1>c, <2>4
  <2>. QED  BY <1>13, <2>2, <2>3, <2>4
<1>17. PutChildren(Top.node, args) = Assembled(t)
  <2>1. PICK s : s = [i \in 1..Len(k) |-> Fold(k[i]).node]
    OBVIOUS
  <2>2. s = [i \in 1..Len(args) |-> s[i]] /\ \A i \in 1..Len(args) : s[i] = args[i]
    BY <1>12, <1>15, <2>1
  <2>3. s = args
    BY <1>12, <2>2, SameElements
  <2>. QED  BY <1>3, <1>a, <2>1, <2>3 DEF Assembled
<1>18. /\ stack' = Append(rest, r.node) /\ changed' = (changed \/ r.changed)
       /\ r.changed \in BOOLEAN
  BY <1>1, <1>3, <1>17, <1>a, FoldAssumption
<1>19. changed' \in BOOLEAN /\ (changed' <=> (changed \/ r.changed))
  BY <1>2, <1>18
<1>20. /\ Append(rest, r.node) \in Seq(Tree)
       /\ Foldings(Append(rest, r.node), changed', Append(b, t))
  BY ONLY <1>2, <1>3, <1>12, <1>14, <1>16, <1>19, <1>a, Emitted
<1>21. stack' \in Seq(Tree) /\ Foldings(stack', changed', Expected(plan', KidsOf, before))
  BY ONLY <1>6, <1>18, <1>20
<1>. QED  BY <1>2, <1>6, <1>19, <1>21, Turned

LEMMA VisitInnerInv == IInv /\ VisitInner => IInv'
<1>. SUFFICES ASSUME IInv, VisitInner PROVE IInv'
  OBVIOUS
<1>a. PICK t, b : t = TopOf(plan).node /\ b = TopOf(plan).below
  OBVIOUS
<1>1. /\ Pop("Descend") /\ Kids(Top.node) # <<>>
      /\ work' = RestOf(work) \o DetachChildren(Top.node)
      /\ plan' = OperatorFrames(plan, t, Kids(t), b)
      /\ stack' = stack /\ changed' = changed
  BY <1>a DEF VisitInner
<1>2. /\ TypeOK /\ Matched /\ work # <<>> /\ Top.tag = "Descend" /\ phase = "folding"
      /\ before \in Tree /\ guard \in Nat /\ stack \in Seq(Tree) /\ changed \in BOOLEAN
      /\ Chained(Itself, plan, KidsOf, before)
      /\ Foldings(stack, changed, Pre(TopOf(plan), KidsOf))
      /\ guard' = guard + 1 /\ guard' <= FrameLimit
      /\ UNCHANGED <<call, expr, everChanged, passes, before, phase>>
  BY <1>1, Popped
<1>3. /\ TopOf(plan).tag = "Enter" /\ Top.node = t /\ t \in Tree /\ b \in Seq(Tree)
      /\ plan \in Seq(Frames) /\ plan # <<>>
  BY <1>2, <1>a, TopPlanned DEF Matched
<1>4. Kids(t) \in Seq(Tree) /\ KidsOf[t] = Kids(t) /\ KidsOf \in [Tree -> Seq(Tree)]
  BY <1>3, KidsType, KidsOfType
<1>5. OperatorPushed(plan', plan, t, Kids(t), b)
  BY <1>1, <1>3, <1>4, OperatorShape
<1>6. work' \in Seq(WorkFrames) /\ Matched'
  <2>1. work' = RestOf(work) \o DetachChildren(t)
    BY <1>1, <1>3
  <2>a. PICK w, u : w = work' /\ u = plan'
    OBVIOUS
  <2>2. w = RestOf(work) \o DetachChildren(t) /\ OperatorPushed(u, plan, t, Kids(t), b)
    BY <1>5, <2>1, <2>a
  <2>3. w \in Seq(WorkFrames) /\ Len(w) = Len(u) /\ \A i \in 1..Len(u) : w[i] = Planned(u[i])
    <3>1. TypeOK /\ Matched /\ work # <<>> /\ t \in Tree /\ b \in Seq(Tree)
      BY <1>2, <1>3
    <3>2. Together(w, u)
      BY ONLY <3>1, <2>2, MatchedPush
    <3>. QED  BY <3>2 DEF Together
  <2>. QED  BY <1>5, <2>3, <2>a DEF Matched, OperatorPushed
<1>7. /\ Chained(Itself, plan', KidsOf, before)
      /\ Expected(plan', KidsOf, before) = b
  <2>1. plan' = OperatorFrames(plan, TopOf(plan).node, KidsOf[TopOf(plan).node], TopOf(plan).below)
    BY <1>1, <1>4, <1>a
  <2>. QED  BY ONLY <1>2, <1>3, <1>4, <1>a, <2>1, ChainPush
<1>8. \E up : Metered(up, Turns, plan', Turns[before], guard')
  <2>1. PICK at : Metered(at, Turns, plan, Turns[before], guard)
    BY <1>1, Popped
  <2>2. PrefixCosts(TurnsTo(t), Turns, Kids(t)) /\ Turns[t] = TurnsTo(t)[Len(Kids(t))] + 1
    BY <1>1, <1>3, TurnsAssumption DEF Turns
  <2>3. \E up : Metered(up, Turns, plan', Turns[before], guard + 1)
    BY ONLY <1>2, <1>3, <1>4, <1>5, <1>a, <2>1, <2>2, TurnsType, MeterPush
  <2>. QED  BY <1>2, <2>3
<1>9. Foldings(stack', changed', Expected(plan', KidsOf, before))
  BY <1>1, <1>2, <1>3, <1>7, <1>a DEF Pre
<1>. QED  BY <1>1, <1>2, <1>6, <1>7, <1>8, <1>9, Turned

LEMMA StartPassInv == IInv /\ StartPass => IInv'
<1>. SUFFICES ASSUME IInv, StartPass PROVE IInv'
  OBVIOUS
<1>1. /\ phase = "between" /\ passes < Budget /\ passes' = passes + 1
      /\ before' = expr /\ work' = <<Descend(expr)>> /\ plan' = <<Enter(expr, <<>>)>>
      /\ expr' = Stub /\ stack' = <<>> /\ guard' = 0 /\ changed' = FALSE /\ phase' = "folding"
      /\ input' = input /\ request' = request /\ everChanged' = everChanged
  BY DEF StartPass, call
<1>2. /\ input \in Tree /\ request \in Requests /\ expr \in Tree /\ passes \in 0..Budget
      /\ Budget \in Nat /\ FrameLimit \in Nat /\ Stub \in Tree
      /\ HasRoom => Derived(expr) /\ (~everChanged => expr = input)
  BY <1>1, Limits DEF IInv, TypeOK, PassesInv
<1>3. /\ plan' \in Seq(Frames) /\ Len(plan') = 1 /\ plan'[1] = Enter(expr, <<>>)
      /\ Chained(Itself, plan', KidsOf, expr) /\ Expected(plan', KidsOf, expr) = <<>>
  BY <1>1, <1>2, ChainStart
<1>4. work' \in Seq(WorkFrames) /\ Len(work') = 1 /\ work'[1] = Descend(expr)
  <2>1. Descend(expr) \in WorkFrames
    BY <1>2 DEF WorkFrames
  <2>. QED  BY <1>1, <2>1
<1>5. TypeOK'
  <2>1. Budget' = Budget /\ passes' \in 0..Budget /\ <<>> \in Seq(Tree)
    BY <1>1, <1>2, EmptySeq DEF Budget
  <2>2. guard' \in 0..FrameLimit /\ work' \in Seq(WorkFrames) /\ plan' \in Seq(Frames)
    BY <1>1, <1>2, <1>3, <1>4
  <2>3. input' \in Inputs /\ request' \in Requests /\ everChanged' \in BOOLEAN
    BY <1>1 DEF IInv, TypeOK
  <2>. QED  BY <1>1, <1>2, <2>1, <2>2, <2>3 DEF TypeOK
<1>6. FoldingInv'
  <2>1. Matched'
    <3>1. Planned(Enter(expr, <<>>)) = Descend(expr)
      BY DEF Planned, Enter
    <3>2. \A i \in 1..Len(plan') : work'[i] = Planned(plan'[i])
      BY <1>3, <1>4, <3>1
    <3>. QED  BY <1>3, <1>4, <3>2 DEF Matched
  <2>2. Holds'
    <3>1. Finished' = <<>>
      BY <1>1, <1>3 DEF Finished
    <3>. QED  BY <1>1, <3>1 DEF Holds
  <2>3. \E at : Metered(at, Turns, plan', Turns[expr], 0)
    BY <1>1, <1>2, TurnsType, MeterStart
  <2>. QED  BY <1>1, <1>3, <2>1, <2>2, <2>3 DEF FoldingInv
<1>7. PassesInv'
  BY <1>1, <1>2 DEF PassesInv, Derived, HasRoom
<1>. QED  BY <1>5, <1>6, <1>7 DEF IInv

\* Frames pending are turns to come, and the limit allows for them if the input has room.
LEMMA NeverCut ==
  ASSUME IInv, HasRoom
  PROVE  ~Cut
<1>. SUFFICES ASSUME Cut PROVE FALSE
  OBVIOUS
<1>1. phase = "folding" /\ work # <<>> /\ guard >= FrameLimit
  BY DEF Cut, LoopEnds
<1>2. /\ TypeOK /\ Matched /\ Derived(before) /\ before \in Tree /\ input \in Tree
      /\ guard \in Nat /\ FrameLimit \in Nat
  BY <1>1, Limits DEF IInv, TypeOK, FoldingInv, PassesInv
<1>a. PICK at : Metered(at, Turns, plan, Turns[before], guard)
  BY <1>1 DEF IInv, FoldingInv
<1>b. PICK L, c : L = Len(plan) /\ c = FrameCost(Turns, plan[L])
  OBVIOUS
<1>3. L \in Nat \ {0} /\ plan[L] \in Frames
  BY <1>1, <1>2, <1>b, TopPlanned DEF TopOf
<1>4. c \in Nat \ {0}
  BY <1>3, <1>b, TurnsType, CostPositive
<1>5. /\ at[0] = Turns[before] /\ at[L] = guard
      /\ at[L - 1] = at[L] + c /\ at[L - 1] <= at[0]
  <2>1. L \in 1..L /\ L - 1 \in 0..L
    BY <1>3
  <2>. QED  BY <1>a, <1>b, <2>1 DEF Metered
<1>6. Turns[before] \in Nat /\ Turns[before] <= FrameLimit
  BY <1>2, WithinLimit
<1>. QED  BY <1>1, <1>2, <1>4, <1>5, <1>6

\* The whole tree has been taken apart and put together when a pass ends that is not
\* cut short.
LEMMA PassDone ==
  ASSUME IInv, FinishPass, work = <<>>
  PROVE  /\ before \in Tree /\ changed \in BOOLEAN
         /\ expr' = Fold(before).node /\ (changed <=> Fold(before).changed)
<1>1. /\ phase = "folding"
      /\ expr' = IF stack = <<>> THEN expr ELSE TopOf(stack)
  BY DEF FinishPass
<1>2. /\ before \in Tree /\ stack \in Seq(Tree) /\ changed \in BOOLEAN
      /\ Matched /\ Holds
  BY <1>1 DEF IInv, TypeOK, FoldingInv
<1>3. plan = <<>>
  BY <1>2, EmptySeq DEF Matched
<1>4. Finished = <<before>>
  BY <1>3 DEF Finished, Expected
<1>5. /\ Len(stack) = 1 /\ stack[1] = Fold(before).node
      /\ changed <=> Fold(before).changed
  BY <1>2, <1>4 DEF Holds
<1>6. stack # <<>>
  BY <1>5, EmptySeq
<1>. QED  BY <1>1, <1>2, <1>5, <1>6 DEF TopOf

LEMMA FinishPassInv == IInv /\ FinishPass => IInv'
<1>. SUFFICES ASSUME IInv, FinishPass PROVE IInv'
  OBVIOUS
<1>1. /\ phase' = (IF changed THEN "between" ELSE "returned")
      /\ everChanged' = (everChanged \/ changed)
      /\ input' = input /\ request' = request /\ passes' = passes
      /\ work' = work /\ stack' = stack /\ guard' = guard /\ changed' = changed
      /\ before' = before /\ plan' = plan
  BY DEF FinishPass, call, pass
<1>2. /\ input \in Tree /\ phase = "folding" /\ LoopEnds /\ changed \in BOOLEAN
      /\ HasRoom => Derived(before)
  BY Limits DEF FinishPass, IInv, TypeOK, PassesInv
<1>3. expr' \in Tree
  <2>1. expr \in Tree /\ stack \in Seq(Tree)
    BY DEF IInv, TypeOK
  <2>2. CASE stack = <<>>
    BY <2>1, <2>2 DEF FinishPass
  <2>3. CASE stack # <<>>
    <3>1. Len(stack) \in 1..Len(stack)
      BY <2>1, <2>3, EmptySeq
    <3>. QED  BY <2>1, <2>3, <3>1, ElementOfSeq DEF FinishPass, TopOf
  <2>. QED  BY <2>2, <2>3
<1>4. HasRoom => Derived(expr') /\ (~changed => expr' = before)
  <2>. SUFFICES ASSUME HasRoom PROVE Derived(expr') /\ (~changed => expr' = before)
    OBVIOUS
  <2>1. work = <<>>
    BY <1>2, NeverCut DEF Cut
  <2>2. before \in Tree /\ expr' = Fold(before).node /\ (changed <=> Fold(before).changed)
    BY <2>1, PassDone
  <2>. QED  BY <1>2, <2>2, FoldDerived, Settled
<1>5. everChanged' \in BOOLEAN /\ (~everChanged' => ~everChanged /\ ~changed)
  BY <1>1, <1>2 DEF IInv, TypeOK
<1>6. TypeOK'
  BY <1>1, <1>3, <1>5 DEF IInv, TypeOK, Budget
<1>7. FoldingInv'
  BY <1>1 DEF FoldingInv
<1>8. PassesInv'
  <2>1. HasRoom' => HasRoom /\ Derived(expr)' /\ Derived(before)'
    BY <1>1, <1>2, <1>4 DEF Derived, HasRoom
  <2>2. HasRoom' /\ ~everChanged' => before' = input' /\ expr' = input'
    BY <1>1, <1>2, <1>4, <1>5, <2>1 DEF IInv, PassesInv
  <2>3. phase' # "measure"
    BY <1>1
  <2>. QED  BY <1>1, <1>4, <2>1, <2>2, <2>3 DEF PassesInv
<1>. QED  BY <1>6, <1>7, <1>8 DEF IInv

\* Between the passes nothing changes but what the caller is told.
LEMMA Told ==
  ASSUME IInv, phase # "folding", phase' \in {"between", "returned"},
         UNCHANGED <<call, expr, everChanged, passes, pass>>
  PROVE  IInv'
<1>1. /\ input' = input /\ request' = request /\ expr' = expr /\ passes' = passes
      /\ everChanged' = everChanged
      /\ work' = work /\ stack' = stack /\ guard' = guard /\ changed' = changed
      /\ before' = before /\ plan' = plan
  BY DEF call, pass
<1>2. TypeOK'
  BY <1>1 DEF IInv, TypeOK, Budget
<1>3. FoldingInv'
  BY DEF FoldingInv
<1>4. PassesInv'
  BY <1>1 DEF IInv, PassesInv, Derived, HasRoom
<1>. QED  BY <1>2, <1>3, <1>4 DEF IInv

LEMMA StepInv == IInv /\ [Next]_vars => IInv'
<1>. SUFFICES ASSUME IInv, [Next]_vars PROVE IInv'
  OBVIOUS
<1>1. CASE Refuse
  BY <1>1, Told DEF Refuse
<1>2. CASE Accept
  BY <1>2, Told DEF Accept
<1>3. CASE StartPass
  BY <1>3, StartPassInv
<1>4. CASE BudgetSpent
  BY <1>4, Told DEF BudgetSpent
<1>5. CASE VisitLeaf
  BY <1>5, VisitLeafInv
<1>6. CASE VisitInner
  BY <1>6, VisitInnerInv
<1>7. CASE Reattach
  BY <1>7, ReattachInv
<1>8. CASE FinishPass
  BY <1>8, FinishPassInv
<1>9. CASE UNCHANGED vars
  <2>1. /\ input' = input /\ request' = request /\ expr' = expr /\ passes' = passes
        /\ everChanged' = everChanged /\ phase' = phase
        /\ work' = work /\ stack' = stack /\ guard' = guard /\ changed' = changed
        /\ before' = before /\ plan' = plan
    BY <1>9 DEF vars, call, pass
  <2>2. TypeOK'
    BY <2>1 DEF IInv, TypeOK, Budget
  <2>3. FoldingInv'
    BY <2>1 DEF IInv, FoldingInv, Matched, Holds, Finished
  <2>4. PassesInv'
    BY <2>1 DEF IInv, PassesInv, Derived, HasRoom
  <2>. QED  BY <2>2, <2>3, <2>4 DEF IInv
<1>. QED
  BY <1>1, <1>2, <1>3, <1>4, <1>5, <1>6, <1>7, <1>8, <1>9 DEF Next, Returned

\* What the stacks, the plan and the tree have to do with one another holds throughout.
THEOREM Invariance == Spec => []IInv
  BY InitInv, StepInv, PTL DEF Spec

\* The stacks, the counters and the tree are what the loop takes them for.
THEOREM TypeCorrect == Spec => []TypeOK
<1>1. IInv => TypeOK
  BY DEF IInv
<1>. QED  BY <1>1, Invariance, PTL

\* Whatever the tree and the rules, a pass by two stacks is the pass by recursion, if
\* it is not cut short.
THEOREM TraversalIsFold == Spec => PassIsFold
<1>1. IInv /\ [Next]_vars =>
        [phase = "folding" /\ phase' # "folding" /\ work = <<>> =>
           [node |-> expr', changed |-> changed] = Fold(before)]_vars
  <2>. SUFFICES ASSUME IInv, Next, phase = "folding", phase' # "folding", work = <<>>
                PROVE  [node |-> expr', changed |-> changed] = Fold(before)
    OBVIOUS
  <2>1. FinishPass
    BY DEF Next, Refuse, Accept, StartPass, BudgetSpent, VisitLeaf, VisitInner, Reattach,
           Pop, Returned, vars
  <2>2. /\ before \in Tree /\ changed \in BOOLEAN
        /\ expr' = Fold(before).node /\ (changed <=> Fold(before).changed)
    BY <2>1, PassDone
  <2>3. Fold(before) \in [node : Tree, changed : BOOLEAN]
    BY <2>2, FoldAssumption
  <2>4. changed = Fold(before).changed
    BY <2>2, <2>3
  <2>. QED  BY <2>2, <2>3, <2>4
<1>. QED  BY <1>1, Invariance, PTL DEF Spec, PassIsFold

\* Rules that keep the value of a node keep the value of the tree, through every
\* pass and however the operands are taken apart.
THEOREM ValueIsPreserved == Spec => []ValuePreserved
<1>1. IInv => ValuePreserved
  BY DEF IInv, PassesInv, Derived, ValuePreserved
<1>. QED  BY <1>1, Invariance, PTL

\* What is reported is true, and no pass is cut short: rules that stay within the
\* weight of the tree cannot drive the loop to its frame limit, if the input has room.
THEOREM ReportsAreHonest == Spec => []ReportIsHonest
<1>1. IInv => ReportIsHonest
  BY NeverCut DEF IInv, PassesInv, ReportIsHonest
<1>. QED  BY <1>1, Invariance, PTL

\* A tree of up to two thirds of MAX_NODES has room, whatever its shape: no pass over
\* what becomes of it is cut short.
THEOREM TwoThirdsFit == Spec => [](3 * Nodes(input) <= 2 * MaxNodes => ~Cut)
<1>1. IInv => (3 * Nodes(input) <= 2 * MaxNodes => ~Cut)
  <2>. SUFFICES ASSUME IInv, 3 * Nodes(input) <= 2 * MaxNodes PROVE ~Cut
    OBVIOUS
  <2>1. input \in Tree /\ MaxNodes \in Nat
    BY Limits DEF IInv, TypeOK
  <2>2. /\ Nodes(input) \in Nat /\ Weight(input) \in Nat
        /\ Weight(input) <= 3 * Nodes(input)
    BY <2>1, WeightAssumption
  <2>3. HasRoom
    BY <2>1, <2>2 DEF HasRoom, FrameLimit
  <2>. QED  BY <2>3, NeverCut
<1>. QED  BY <1>1, Invariance, PTL
=============================================================================
