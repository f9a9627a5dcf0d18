---------------------------- MODULE FrameStacks ----------------------------
(***************************************************************************)
(* The stack of frames by which `evaluate`, `evaluate_interval` and the    *)
(* simplifier's `fold_once` walk an expression without recursion: an Enter *)
(* frame stands for a node still to be visited, a Combine frame for an     *)
(* operator whose operands are being computed above it.                    *)
(*                                                                         *)
(* A frame's `below` is auxiliary: the nodes whose values lie under the    *)
(* operands of the frame when it is popped.  No step reads it.             *)
(***************************************************************************)
EXTENDS Integers, SequenceTheorems, TLAPS

CONSTANT Node                  \* the nodes of expressions

Frames == [tag : {"Enter", "Combine"}, node : Node, below : Seq(Node)]

Enter(n, below)        == [tag |-> "Enter", node |-> n, below |-> below]
CombineFrame(n, below) == [tag |-> "Combine", node |-> n, below |-> below]

TopOf(w)  == w[Len(w)]
RestOf(w) == SubSeq(w, 1, Len(w) - 1)

\* Variant for the mutants: children pushed in source order.
ChildFramesInOrder(kids, below) ==
  [i \in 1..Len(kids) |-> Enter(kids[i], below \o SubSeq(kids, 1, i - 1))]

\* The frames of the children, pushed in reverse so that the first is on top.
ChildFrames(kids, below) ==
  [i \in 1..Len(kids) |->
     LET j == Len(kids) + 1 - i
     IN  Enter(kids[j], below \o SubSeq(kids, 1, j - 1))]

\* An operator's frames: its own, and above it those of its children.
OperatorFrames(w, n, kids, below) ==
  Append(RestOf(w), CombineFrame(n, below)) \o ChildFrames(kids, below)

-----------------------------------------------------------------------------
(***************************************************************************)
(* What the stack of values holds: Pre(f, kids) names the nodes whose      *)
(* values it holds at the moment frame f is popped, Post(f) those whose    *)
(* values it holds when f and everything f pushed are gone.                *)
(***************************************************************************)
Pre(f, kids) == IF f.tag = "Enter" THEN f.below ELSE f.below \o kids[f.node]
Post(f) == Append(f.below, f.node)

\* A node can stand for another in a frame if both denote the same: the child
\* of an empty cache for the cache.
SamePoint(m, ms, ns) ==
  /\ Len(ms) = Len(ns)
  /\ \A j \in 1..Len(ns) : m[ms[j]] = m[ns[j]]

\* What one frame leaves is what the frame under it expects.
Chained(m, w, kids, root) ==
  \A i \in 1..Len(w) :
    SamePoint(m, Post(w[i]), IF i = 1 THEN <<root>> ELSE Pre(w[i - 1], kids))

\* The nodes whose values are on the stack of values now.
Expected(w, kids, root) == IF w = <<>> THEN <<root>> ELSE Pre(TopOf(w), kids)

-----------------------------------------------------------------------------
(* Sequences, taken apart and put together. *)

LEMMA FrontType ==
  ASSUME NEW S, NEW s \in Seq(S), s # <<>>
  PROVE  /\ SubSeq(s, 1, Len(s) - 1) \in Seq(S)
         /\ Len(SubSeq(s, 1, Len(s) - 1)) = Len(s) - 1
         /\ \A i \in 1..(Len(s) - 1) : SubSeq(s, 1, Len(s) - 1)[i] = s[i]
         /\ Len(s) \in Nat \ {0}
         /\ s[Len(s)] \in S
<1>1. /\ Len(s) \in Nat \ {0}
      /\ \A i \in 1..Len(s) : s[i] \in S
  BY EmptySeq, ElementOfSeq
<1>2. \A i \in 1..(Len(s) - 1) : s[i] \in S
  BY <1>1
<1>. DEFINE L == Len(s)
             t == SubSeq(s, 1, L - 1)
<1>3. /\ t \in Seq(S)
      /\ Len(t) = IF 1 <= L - 1 THEN L - 1 - 1 + 1 ELSE 0
      /\ \A i \in 1..(L - 1 - 1 + 1) : t[i] = s[1 + i - 1]
  <2>. HIDE DEF t
  <2>. QED  BY <1>1, <1>2, SubSeqProperties DEF t
<1>. HIDE DEF L, t
<1>4. L \in Nat \ {0}
  BY <1>1 DEF L
<1>5. Len(t) = L - 1
  BY <1>3, <1>4
<1>6. \A i \in 1..(L - 1) : t[i] = s[i]
  BY <1>3, <1>4
<1>7. s[L] \in S
  BY <1>1 DEF L
<1>. QED  BY <1>3, <1>4, <1>5, <1>6, <1>7 DEF L, t

LEMMA ThreeElements ==
  ASSUME NEW S, NEW s \in Seq(S), Len(s) = 3
  PROVE  s[1] \in S /\ s[2] \in S /\ s[3] \in S
<1>1. 1 \in 1..Len(s) /\ 2 \in 1..Len(s) /\ 3 \in 1..Len(s)
  OBVIOUS
<1>. QED  BY <1>1, ElementOfSeq

LEMMA PrefixSnoc ==
  ASSUME NEW S, NEW s \in Seq(S), NEW j \in 1..Len(s)
  PROVE  SubSeq(s, 1, j) = SubSeq(s, 1, j - 1) \o <<s[j]>>
<1>1. 1 \in 1..Len(s) /\ j \in 1..Len(s)
  BY LenProperties
<1>. QED  BY <1>1, SubSeqRecursiveSecond

LEMMA SplitSeq ==
  ASSUME NEW S, NEW vs \in Seq(S), NEW p \in Nat, NEW q \in Nat, Len(vs) = p + q
  PROVE  /\ SubSeq(vs, 1, p) \in Seq(S) /\ Len(SubSeq(vs, 1, p)) = p
         /\ \A j \in 1..p : SubSeq(vs, 1, p)[j] = vs[j]
         /\ SubSeq(vs, p + 1, p + q) \in Seq(S) /\ Len(SubSeq(vs, p + 1, p + q)) = q
         /\ \A j \in 1..q : SubSeq(vs, p + 1, p + q)[j] = vs[p + j]
<1>1. \A j \in 1..(p + q) : vs[j] \in S
  BY ElementOfSeq
<1>2. /\ SubSeq(vs, 1, p) \in Seq(S)
      /\ Len(SubSeq(vs, 1, p)) = IF 1 <= p THEN p - 1 + 1 ELSE 0
      /\ \A j \in 1..(p - 1 + 1) : SubSeq(vs, 1, p)[j] = vs[1 + j - 1]
  BY <1>1, SubSeqProperties
<1>3. /\ SubSeq(vs, p + 1, p + q) \in Seq(S)
      /\ Len(SubSeq(vs, p + 1, p + q)) =
           IF p + 1 <= p + q THEN p + q - (p + 1) + 1 ELSE 0
      /\ \A j \in 1..(p + q - (p + 1) + 1) :
           SubSeq(vs, p + 1, p + q)[j] = vs[p + 1 + j - 1]
  <2>1. \A j \in (p + 1)..(p + q) : vs[j] \in S
    BY <1>1
  <2>. QED  BY <2>1, SubSeqProperties
<1>4. Len(SubSeq(vs, 1, p)) = p /\ Len(SubSeq(vs, p + 1, p + q)) = q
  BY <1>2, <1>3
<1>5. \A j \in 1..p : SubSeq(vs, 1, p)[j] = vs[j]
  BY <1>2
<1>6. \A j \in 1..q : SubSeq(vs, p + 1, p + q)[j] = vs[p + j]
  BY <1>3
<1>. QED  BY <1>2, <1>3, <1>4, <1>5, <1>6

\* Entering an operator pushes one frame per child; the one pushed j-th from
\* the end is the j-th child's, and expects the children before it.
LEMMA ChildFramesType ==
  ASSUME NEW kids \in Seq(Node), NEW below \in Seq(Node)
  PROVE  /\ ChildFrames(kids, below) \in Seq(Frames)
         /\ Len(ChildFrames(kids, below)) = Len(kids)
         /\ \A i \in 1..Len(kids) :
              ChildFrames(kids, below)[i]
                = Enter(kids[Len(kids) + 1 - i],
                        below \o SubSeq(kids, 1, Len(kids) - i))
<1>1. ASSUME NEW i \in 1..Len(kids)
      PROVE  /\ Enter(kids[Len(kids) + 1 - i], below \o SubSeq(kids, 1, Len(kids) - i)) \in Frames
             /\ Len(kids) + 1 - i - 1 = Len(kids) - i
  <2>1. Len(kids) + 1 - i \in 1..Len(kids)
    OBVIOUS
  <2>2. SubSeq(kids, 1, Len(kids) - i) \in Seq(Node)
    OBVIOUS
  <2>. QED  BY <2>1, <2>2 DEF Enter, Frames
<1>2. ChildFrames(kids, below) =
        [i \in 1..Len(kids) |->
           Enter(kids[Len(kids) + 1 - i], below \o SubSeq(kids, 1, Len(kids) - i))]
  BY <1>1 DEF ChildFrames
<1>. QED  BY <1>1, <1>2


\* The operands of a frame for nodes k, on what lies below it for nodes b.
Split(vs, S, b, k, args, rest) ==
  /\ args \in Seq(S) /\ Len(args) = Len(k) /\ Len(vs) >= Len(k)
  /\ rest \in Seq(S) /\ Len(rest) = Len(b)
  /\ \A j \in 1..Len(b) : /\ j \in 1..Len(b \o k)
                          /\ rest[j] = vs[j] /\ (b \o k)[j] = b[j]
  /\ \A j \in 1..Len(k) : /\ Len(b) + j \in 1..Len(b \o k)
                          /\ args[j] = vs[Len(b) + j]
                          /\ (b \o k)[Len(b) + j] = k[j]

LEMMA OperandsSplit ==
  ASSUME NEW S, NEW vs \in Seq(S), NEW b \in Seq(Node), NEW k \in Seq(Node),
         Len(vs) = Len(b \o k)
  PROVE  Split(vs, S, b, k, SubSeq(vs, Len(vs) - Len(k) + 1, Len(vs)),
               SubSeq(vs, 1, Len(vs) - Len(k)))
<1>a. PICK p, q : p = Len(b) /\ q = Len(k)
  OBVIOUS
<1>1. p \in Nat /\ q \in Nat /\ Len(b \o k) = p + q
      /\ \A i \in 1..(p + q) : (b \o k)[i] = IF i <= p THEN b[i] ELSE k[i - p]
  BY <1>a, ConcatProperties, LenProperties
<1>2. Len(vs) = p + q /\ Len(vs) - q = p /\ Len(vs) >= q
  BY <1>1
<1>3. /\ SubSeq(vs, 1, p) \in Seq(S) /\ Len(SubSeq(vs, 1, p)) = p
      /\ \A j \in 1..p : SubSeq(vs, 1, p)[j] = vs[j]
      /\ SubSeq(vs, p + 1, p + q) \in Seq(S) /\ Len(SubSeq(vs, p + 1, p + q)) = q
      /\ \A j \in 1..q : SubSeq(vs, p + 1, p + q)[j] = vs[p + j]
  BY <1>1, <1>2, SplitSeq
<1>4. \A j \in 1..p : j \in 1..(p + q) /\ (b \o k)[j] = b[j]
  BY <1>1
<1>5. ASSUME NEW j \in 1..q PROVE p + j \in 1..(p + q) /\ (b \o k)[p + j] = k[j]
  <2>1. p + j \in 1..(p + q) /\ ~(p + j <= p) /\ p + j - p = j
    BY <1>1
  <2>. QED  BY <1>1, <2>1
<1>6. /\ SubSeq(vs, Len(vs) - Len(k) + 1, Len(vs)) = SubSeq(vs, p + 1, p + q)
      /\ SubSeq(vs, 1, Len(vs) - Len(k)) = SubSeq(vs, 1, p)
  BY ONLY <1>2, <1>a
<1>. QED  BY ONLY <1>1, <1>2, <1>3, <1>4, <1>5, <1>6, <1>a DEF Split

-----------------------------------------------------------------------------
(* The stack, popped and pushed. *)

LEMMA TopFrame ==
  ASSUME NEW w \in Seq(Frames), w # <<>>
  PROVE  /\ Len(w) \in Nat \ {0}
         /\ TopOf(w) \in Frames /\ TopOf(w).node \in Node /\ TopOf(w).below \in Seq(Node)
         /\ RestOf(w) \in Seq(Frames) /\ Len(RestOf(w)) = Len(w) - 1
         /\ \A i \in 1..(Len(w) - 1) : RestOf(w)[i] = w[i] /\ w[i] \in Frames
<1>1. /\ Len(w) \in Nat \ {0} /\ TopOf(w) \in Frames
      /\ RestOf(w) \in Seq(Frames) /\ Len(RestOf(w)) = Len(w) - 1
      /\ \A i \in 1..(Len(w) - 1) : RestOf(w)[i] = w[i]
  BY FrontType DEF TopOf, RestOf
<1>2. \A i \in 1..(Len(w) - 1) : w[i] \in Frames
  BY <1>1, ElementOfSeq
<1>3. TopOf(w).node \in Node /\ TopOf(w).below \in Seq(Node)
  BY <1>1 DEF Frames
<1>. QED  BY <1>1, <1>2, <1>3

\* Where the frames pushed for an operator stand.
OperatorPushed(u, w, n, k, b) ==
  /\ u \in Seq(Frames) /\ Len(u) = Len(w) + Len(k) /\ u # <<>>
  /\ \A i \in 1..(Len(w) - 1) : u[i] = w[i]
  /\ u[Len(w)] = CombineFrame(n, b)
  /\ \A p \in 1..Len(k) :
       u[Len(w) + p] = Enter(k[Len(k) + 1 - p], b \o SubSeq(k, 1, Len(k) - p))

LEMMA OperatorShape ==
  ASSUME NEW w \in Seq(Frames), w # <<>>, NEW n \in Node,
         NEW k \in Seq(Node), NEW b \in Seq(Node)
  PROVE  OperatorPushed(OperatorFrames(w, n, k, b), w, n, k, b)
<1>. DEFINE u == OperatorFrames(w, n, k, b)
<1>a. PICK L, K, r, C, ch : /\ L = Len(w) /\ K = Len(k) /\ r = RestOf(w)
                            /\ C = CombineFrame(n, b) /\ ch = ChildFrames(k, b)
  OBVIOUS
<1>1. L \in Nat \ {0} /\ r \in Seq(Frames) /\ Len(r) = L - 1 /\ \A i \in 1..(L - 1) : r[i] = w[i]
  BY <1>a, TopFrame
<1>2. C \in Frames /\ K \in Nat
  BY <1>a, LenProperties DEF CombineFrame, Frames
<1>3. /\ ch \in Seq(Frames) /\ Len(ch) = K
      /\ \A p \in 1..K : ch[p] = Enter(k[K + 1 - p], b \o SubSeq(k, 1, K - p))
  BY <1>a, ChildFramesType
<1>4. /\ Append(r, C) \in Seq(Frames) /\ Len(Append(r, C)) = Len(r) + 1
      /\ \A i \in 1..Len(r) : Append(r, C)[i] = r[i]
      /\ Append(r, C)[Len(r) + 1] = C
  BY <1>1, <1>2, AppendProperties
<1>b. PICK t : t = Append(r, C)
  OBVIOUS
<1>5. Len(t) = L /\ t[L] = C /\ \A i \in 1..(L - 1) : t[i] = w[i]
  BY <1>1, <1>4, <1>b
<1>6. /\ t \o ch \in Seq(Frames) /\ Len(t \o ch) = Len(t) + Len(ch)
      /\ \A i \in 1..(Len(t) + Len(ch)) :
           (t \o ch)[i] = IF i <= Len(t) THEN t[i] ELSE ch[i - Len(t)]
  BY <1>3, <1>4, <1>b, ConcatProperties
<1>7. u = t \o ch
  BY <1>a, <1>b DEF OperatorFrames
<1>. HIDE DEF u
<1>8. u \in Seq(Frames) /\ Len(u) = L + K
      /\ \A i \in 1..(L + K) : u[i] = IF i <= L THEN t[i] ELSE ch[i - L]
  BY <1>3, <1>5, <1>6, <1>7
<1>9. \A i \in 1..(L - 1) : u[i] = w[i]
  BY <1>1, <1>2, <1>5, <1>8
<1>10. u[L] = C /\ u # <<>>
  BY <1>1, <1>2, <1>5, <1>8
<1>11. ASSUME NEW p \in 1..K PROVE u[L + p] = Enter(k[K + 1 - p], b \o SubSeq(k, 1, K - p))
  <2>1. PICK i : i = L + p
    OBVIOUS
  <2>2. i \in 1..(L + K) /\ ~(i <= L) /\ i - L = p
    BY <1>1, <1>2, <2>1
  <2>3. u[i] = ch[i - L]
    BY <1>8, <2>2
  <2>. QED  BY <1>3, <2>1, <2>2, <2>3
<1>12. OperatorPushed(u, w, n, k, b)
  BY ONLY <1>8, <1>9, <1>10, <1>11, <1>a DEF OperatorPushed
<1>. QED  BY <1>12 DEF u

\* A walk starts with the root's frame and no value.
LEMMA ChainStart ==
  ASSUME NEW kids, NEW root \in Node, NEW m, NEW w, w = <<Enter(root, <<>>)>>
  PROVE  /\ w \in Seq(Frames) /\ w # <<>> /\ Len(w) = 1 /\ w[1] = Enter(root, <<>>)
         /\ Chained(m, w, kids, root)
         /\ Expected(w, kids, root) = <<>>
<1>1. /\ Enter(root, <<>>) \in Frames /\ Enter(root, <<>>).tag = "Enter"
      /\ Enter(root, <<>>).node = root /\ Enter(root, <<>>).below = <<>>
  BY DEF Enter, Frames
<1>2. w \in Seq(Frames) /\ w # <<>> /\ Len(w) = 1 /\ w[1] = Enter(root, <<>>)
  BY <1>1
<1>3. Post(w[1]) = <<root>>
  <2>1. Append(<<>>, root) = <<>> \o <<root>>
    BY AppendIsConcat, EmptySeq
  <2>2. <<>> \o <<root>> = <<root>>
    BY ConcatEmptySeq
  <2>. QED  BY <1>1, <1>2, <2>1, <2>2 DEF Post
<1>4. SamePoint(m, Post(w[1]), <<root>>)
  BY <1>3 DEF SamePoint
<1>5. Chained(m, w, kids, root)
  BY <1>2, <1>4 DEF Chained
<1>6. Expected(w, kids, root) = <<>>
  BY <1>1, <1>2 DEF Expected, Pre, TopOf
<1>. QED  BY <1>2, <1>5, <1>6

\* A popped frame leaves what the frame under it expects.
LEMMA ChainPop ==
  ASSUME NEW kids, NEW root, NEW m, NEW w \in Seq(Frames), w # <<>>,
         Chained(m, w, kids, root)
  PROVE  /\ Chained(m, RestOf(w), kids, root)
         /\ SamePoint(m, Post(TopOf(w)), Expected(RestOf(w), kids, root))
<1>a. PICK L, r : L = Len(w) /\ r = RestOf(w)
  OBVIOUS
<1>1. L \in Nat \ {0} /\ r \in Seq(Frames) /\ Len(r) = L - 1 /\ \A i \in 1..(L - 1) : r[i] = w[i]
  BY <1>a, TopFrame
<1>2. \A i \in 1..L : SamePoint(m, Post(w[i]), IF i = 1 THEN <<root>> ELSE Pre(w[i - 1], kids))
  BY <1>a DEF Chained
<1>3. Chained(m, r, kids, root)
  <2>1. ASSUME NEW i \in 1..(L - 1)
        PROVE  SamePoint(m, Post(r[i]), IF i = 1 THEN <<root>> ELSE Pre(r[i - 1], kids))
    <3>1. i \in 1..L /\ r[i] = w[i] /\ (i # 1 => r[i - 1] = w[i - 1])
      BY <1>1
    <3>. QED  BY <1>2, <3>1
  <2>. QED  BY <1>1, <2>1 DEF Chained
<1>4. SamePoint(m, Post(w[L]), Expected(r, kids, root))
  <2>1. SamePoint(m, Post(w[L]), IF L = 1 THEN <<root>> ELSE Pre(w[L - 1], kids))
    BY <1>1, <1>2
  <2>2. r = <<>> <=> L = 1
    BY <1>1, EmptySeq
  <2>3. L # 1 => TopOf(r) = w[L - 1]
    BY <1>1 DEF TopOf
  <2>. QED  BY <2>1, <2>2, <2>3 DEF Expected
<1>. QED  BY <1>3, <1>4, <1>a DEF TopOf

\* A child that denotes what its wrapper does takes the wrapper's place.
Replaced(m, u, w, c, kids, root) ==
  /\ u \in Seq(Frames) /\ u # <<>> /\ Len(u) = Len(w)
  /\ \A i \in 1..(Len(w) - 1) : u[i] = w[i]
  /\ u[Len(w)] = Enter(c, TopOf(w).below)
  /\ Chained(m, u, kids, root)
  /\ Expected(u, kids, root) = TopOf(w).below

LEMMA ChainReplace ==
  ASSUME NEW kids, NEW root, NEW m, NEW w \in Seq(Frames), w # <<>>,
         Chained(m, w, kids, root),
         NEW c \in Node, m[c] = m[TopOf(w).node],
         NEW u, u = Append(RestOf(w), Enter(c, TopOf(w).below))
  PROVE  Replaced(m, u, w, c, kids, root)
<1>a. PICK L, r, n, b, f : /\ L = Len(w) /\ r = RestOf(w) /\ n = TopOf(w).node
                           /\ b = TopOf(w).below /\ f = Enter(c, b)
  OBVIOUS
<1>1. /\ L \in Nat \ {0} /\ r \in Seq(Frames) /\ Len(r) = L - 1
      /\ \A i \in 1..(L - 1) : r[i] = w[i]
      /\ n \in Node /\ b \in Seq(Node)
  BY <1>a, TopFrame
<1>2. f \in Frames /\ f.tag = "Enter" /\ f.node = c /\ f.below = b
  BY <1>1, <1>a DEF Enter, Frames
<1>3. u \in Seq(Frames) /\ Len(u) = L /\ u[L] = f /\ u # <<>> /\ \A i \in 1..(L - 1) : u[i] = w[i]
  <2>1. /\ u \in Seq(Frames) /\ Len(u) = Len(r) + 1 /\ u # <<>>
        /\ \A i \in 1..Len(r) : u[i] = r[i]
        /\ u[Len(r) + 1] = f
    BY <1>1, <1>2, <1>a, AppendProperties
  <2>. QED  BY <1>1, <2>1
<1>4. \A i \in 1..L : SamePoint(m, Post(w[i]), IF i = 1 THEN <<root>> ELSE Pre(w[i - 1], kids))
  BY <1>a DEF Chained
<1>5. ASSUME NEW i \in 1..L
      PROVE  SamePoint(m, Post(u[i]), IF i = 1 THEN <<root>> ELSE Pre(u[i - 1], kids))
  <2>1. i # 1 => u[i - 1] = w[i - 1]
    BY <1>1, <1>3
  <2>2. SamePoint(m, Post(w[i]), IF i = 1 THEN <<root>> ELSE Pre(u[i - 1], kids))
    BY <1>4, <2>1
  <2>3. CASE i < L
    BY <1>1, <1>3, <2>2, <2>3
  <2>4. CASE i = L
    <3>1. Post(w[i]) = Append(b, n) /\ Post(u[i]) = Append(b, c)
      BY <1>2, <1>3, <1>a, <2>4 DEF Post, TopOf
    <3>2. /\ Len(Append(b, c)) = Len(Append(b, n))
          /\ \A j \in 1..Len(Append(b, c)) : m[Append(b, c)[j]] = m[Append(b, n)[j]]
      BY <1>1, <1>a, AppendProperties, LenProperties
    <3>. QED  BY ONLY <2>2, <3>1, <3>2 DEF SamePoint
  <2>5. i < L \/ i = L
    BY <1>1
  <2>. QED  BY ONLY <2>3, <2>4, <2>5
<1>6. Chained(m, u, kids, root)
  BY <1>3, <1>5 DEF Chained
<1>7. Expected(u, kids, root) = b
  BY <1>2, <1>3 DEF Expected, Pre, TopOf
<1>. QED  BY <1>3, <1>6, <1>7, <1>a DEF Replaced

\* An operator's operands are computed one above the other, on what lies below it.
LEMMA ChainPush ==
  ASSUME NEW kids \in [Node -> Seq(Node)], NEW root, NEW m, NEW w \in Seq(Frames), w # <<>>,
         Chained(m, w, kids, root),
         NEW u, u = OperatorFrames(w, TopOf(w).node, kids[TopOf(w).node], TopOf(w).below)
  PROVE  /\ Chained(m, u, kids, root)
         /\ Expected(u, kids, root) = TopOf(w).below
<1>a. PICK L, n, b : L = Len(w) /\ n = TopOf(w).node /\ b = TopOf(w).below
  OBVIOUS
<1>b. PICK k, K : k = kids[n] /\ K = Len(k)
  OBVIOUS
<1>1. L \in Nat \ {0} /\ n \in Node /\ b \in Seq(Node)
  BY <1>a, TopFrame
<1>2. k \in Seq(Node) /\ K \in Nat
  BY <1>1, <1>b, LenProperties
<1>3. /\ u \in Seq(Frames) /\ Len(u) = L + K /\ u # <<>>
      /\ \A i \in 1..(L - 1) : u[i] = w[i]
      /\ u[L] = CombineFrame(n, b)
      /\ \A p \in 1..K : u[L + p] = Enter(k[K + 1 - p], b \o SubSeq(k, 1, K - p))
  <2>1. u = OperatorFrames(w, n, k, b)
    BY <1>a, <1>b
  <2>2. OperatorPushed(u, w, n, k, b)
    BY <1>1, <1>2, <2>1, OperatorShape
  <2>. QED  BY ONLY <2>2, <1>a, <1>b DEF OperatorPushed
\* The nodes a child frame waits for, and leaves.
<1>4. ASSUME NEW p \in 1..K
      PROVE  Append(b \o SubSeq(k, 1, K - p), k[K + 1 - p]) = b \o SubSeq(k, 1, K + 1 - p)
  <2>. DEFINE s == SubSeq(k, 1, K - p)
  <2>1. K + 1 - p \in 1..K /\ k[K + 1 - p] \in Node
    BY <1>2, <1>b, ElementOfSeq
  <2>2. s \in Seq(Node) /\ b \in Seq(Node)
    BY <1>1, <1>2, <1>b, ElementOfSeq, SubSeqProperties
  <2>3. SubSeq(k, 1, K + 1 - p) = s \o <<k[K + 1 - p]>>
    <3>1. PICK j \in 1..K : j = K + 1 - p
      BY <2>1
    <3>2. SubSeq(k, 1, j) = SubSeq(k, 1, j - 1) \o <<k[j]>>
      BY <1>2, <1>b, PrefixSnoc
    <3>3. j - 1 = K - p
      BY <1>2, <3>1
    <3>. QED  BY ONLY <3>1, <3>2, <3>3
  <2>. HIDE DEF s
  <2>4. <<k[K + 1 - p]>> \in Seq(Node)
    BY <2>1
  <2>5. b \o s \in Seq(Node)
    BY <1>1, <2>2, ConcatProperties
  <2>6. Append(b \o s, k[K + 1 - p]) = (b \o s) \o <<k[K + 1 - p]>>
    BY <2>1, <2>5, AppendIsConcat
  <2>7. (b \o s) \o <<k[K + 1 - p]>> = b \o (s \o <<k[K + 1 - p]>>)
    BY ONLY <2>2, <2>4, ConcatAssociative
  <2>. QED  BY <2>3, <2>6, <2>7 DEF s
<1>5. SubSeq(k, 1, K) = k /\ SubSeq(k, 1, 0) = <<>> /\ b \o <<>> = b
  BY <1>1, <1>2, <1>b, SubSeqFull, SubSeqEmpty, ConcatEmptySeq
<1>6. Pre(u[L], kids) = b \o k /\ Post(u[L]) = Append(b, n)
  BY <1>3, <1>b DEF Pre, Post, CombineFrame
<1>7. ASSUME NEW p \in 1..K
      PROVE  /\ Pre(u[L + p], kids) = b \o SubSeq(k, 1, K - p)
             /\ Post(u[L + p]) = b \o SubSeq(k, 1, K + 1 - p)
  <2>1. PICK x, y : x = k[K + 1 - p] /\ y = b \o SubSeq(k, 1, K - p)
    OBVIOUS
  <2>2. u[L + p] = Enter(x, y)
    BY <1>3, <2>1
  <2>3. Pre(u[L + p], kids) = y /\ Post(u[L + p]) = Append(y, x)
    BY ONLY <2>2 DEF Enter, Pre, Post
  <2>. QED  BY <1>4, <2>1, <2>3
<1>8. \A i \in 1..L : SamePoint(m, Post(w[i]), IF i = 1 THEN <<root>> ELSE Pre(w[i - 1], kids))
  BY <1>a DEF Chained
<1>9. ASSUME NEW i \in 1..(L + K)
      PROVE  SamePoint(m, Post(u[i]), IF i = 1 THEN <<root>> ELSE Pre(u[i - 1], kids))
  <2>1. CASE i <= L
    <3>1. i \in 1..L /\ (i # 1 => u[i - 1] = w[i - 1])
      BY <1>1, <1>2, <1>3, <2>1
    <3>2. Post(u[i]) = Post(w[i])
      <4>1. CASE i < L
        BY <1>1, <1>3, <3>1, <4>1
      <4>2. CASE i = L
        BY <1>6, <1>a, <4>2 DEF Post, TopOf
      <4>. QED  BY <1>1, <2>1, <4>1, <4>2
    <3>. QED  BY <1>8, <3>1, <3>2
  <2>2. CASE i > L
    <3>1. PICK p \in 1..K : i = L + p
      BY <1>1, <1>2, <2>2
    <3>2. i # 1 /\ (p = 1 => i - 1 = L) /\ (p # 1 => p - 1 \in 1..K /\ i - 1 = L + (p - 1))
      BY <1>1, <1>2, <3>1
    <3>3. Pre(u[i - 1], kids) = b \o SubSeq(k, 1, K + 1 - p)
      <4>1. CASE p = 1
        <5>1. i - 1 = L /\ K + 1 - p = K
          BY <1>2, <3>2, <4>1
        <5>. QED  BY ONLY <1>5, <1>6, <5>1
      <4>2. CASE p # 1
        <5>1. Pre(u[L + (p - 1)], kids) = b \o SubSeq(k, 1, K - (p - 1))
          BY <1>7, <3>2, <4>2
        <5>2. K - (p - 1) = K + 1 - p
          BY <1>2
        <5>. QED  BY ONLY <3>2, <4>2, <5>1, <5>2
      <4>. QED  BY <4>1, <4>2
    <3>4. Post(u[i]) = b \o SubSeq(k, 1, K + 1 - p)
      BY <1>7, <3>1
    <3>. QED  BY ONLY <3>2, <3>3, <3>4 DEF SamePoint
  <2>. QED  BY <1>1, <1>2, <2>1, <2>2
<1>10. Chained(m, u, kids, root)
  BY <1>3, <1>9 DEF Chained
<1>11. Pre(u[L + K], kids) = b
  <2>1. CASE K = 0
    <3>1. SubSeq(k, 1, K) = SubSeq(k, 1, 0) /\ L + K = L
      BY <1>1, <2>1
    <3>. QED  BY ONLY <1>5, <1>6, <3>1
  <2>2. CASE K # 0
    <3>1. Pre(u[L + K], kids) = b \o SubSeq(k, 1, K - K)
      BY <1>2, <1>7, <2>2
    <3>2. K - K = 0
      BY <1>2
    <3>. QED  BY ONLY <1>5, <3>1, <3>2
  <2>. QED  BY <2>1, <2>2
<1>12. Expected(u, kids, root) = b
  BY <1>3, <1>11 DEF Expected, TopOf
<1>. QED  BY <1>10, <1>12, <1>a

-----------------------------------------------------------------------------
(***************************************************************************)
(* What a walk costs: cost[n] is the number of frames popped for the tree  *)
(* under node n, and at[i] the number popped when the stack is about to    *)
(* shrink to its first i frames.                                           *)
(***************************************************************************)
FrameCost(cost, f) == IF f.tag = "Enter" THEN cost[f.node] ELSE 1

Metered(at, cost, w, total, g) ==
  /\ at \in [0..Len(w) -> Nat]
  /\ at[0] = total
  /\ at[Len(w)] = g
  /\ \A i \in 1..Len(w) : at[i - 1] = at[i] + FrameCost(cost, w[i])
  /\ \A i \in 0..Len(w) : at[i] <= at[0]

\* t[j] frames have been popped for an operator when its first j operands are done.
PrefixCosts(t, cost, k) ==
  /\ t \in [0..Len(k) -> Nat] /\ t[0] = 1
  /\ \A j \in 1..Len(k) : t[j] = t[j - 1] + cost[k[j]]
  /\ \A j \in 0..Len(k) : t[j] <= t[Len(k)]

LEMMA CostPositive ==
  ASSUME NEW cost \in [Node -> Nat \ {0}], NEW f \in Frames
  PROVE  FrameCost(cost, f) \in Nat \ {0}
<1>1. f.node \in Node
  BY DEF Frames
<1>. QED  BY <1>1 DEF FrameCost

LEMMA MeterStart ==
  ASSUME NEW cost \in [Node -> Nat \ {0}], NEW root \in Node,
         NEW w, w = <<Enter(root, <<>>)>>
  PROVE  \E at : Metered(at, cost, w, cost[root], 0)
<1>1. Len(w) = 1 /\ FrameCost(cost, w[1]) = cost[root] /\ cost[root] \in Nat
  BY DEF FrameCost, Enter
<1>2. PICK at : at = [i \in 0..1 |-> IF i = 0 THEN cost[root] ELSE 0]
  OBVIOUS
<1>3. at \in [0..1 -> Nat] /\ at[0] = cost[root] /\ at[1] = 0
  BY <1>1, <1>2
<1>4. \A i \in 1..1 : at[i - 1] = at[i] + FrameCost(cost, w[i])
  BY <1>1, <1>3
<1>5. \A i \in 0..1 : at[i] <= at[0]
  BY <1>1, <1>3
<1>. QED  BY <1>1, <1>3, <1>4, <1>5 DEF Metered

\* A pending frame has still to be popped: the count is below the total.
LEMMA MoreToCome ==
  ASSUME NEW cost \in [Node -> Nat \ {0}], NEW total,
         NEW w \in Seq(Frames), w # <<>>, NEW g \in Nat,
         NEW at, Metered(at, cost, w, total, g)
  PROVE  total > g
<1>a. PICK L : L = Len(w)
  OBVIOUS
<1>1. L \in Nat \ {0} /\ w[L] \in Frames
  BY <1>a, TopFrame DEF TopOf
<1>2. FrameCost(cost, w[L]) \in Nat \ {0}
  BY <1>1, CostPositive
<1>3. at[L] = g /\ at[L - 1] = at[L] + FrameCost(cost, w[L]) /\ at[L - 1] <= at[0]
      /\ at[0] = total /\ at[0] \in Nat
  BY <1>1, <1>a DEF Metered
<1>. QED  BY <1>2, <1>3

\* A frame that costs one is popped.
LEMMA MeterPop ==
  ASSUME NEW cost \in [Node -> Nat \ {0}], NEW total,
         NEW w \in Seq(Frames), w # <<>>, NEW g \in Nat,
         NEW at, Metered(at, cost, w, total, g), FrameCost(cost, TopOf(w)) = 1
  PROVE  \E up : Metered(up, cost, RestOf(w), total, g + 1)
<1>a. PICK L, r : L = Len(w) /\ r = RestOf(w)
  OBVIOUS
<1>1. L \in Nat \ {0} /\ Len(r) = L - 1 /\ \A i \in 1..(L - 1) : r[i] = w[i]
  BY <1>a, TopFrame
<1>2. /\ at \in [0..L -> Nat] /\ at[0] = total /\ at[L] = g
      /\ \A i \in 1..L : at[i - 1] = at[i] + FrameCost(cost, w[i])
      /\ \A i \in 0..L : at[i] <= at[0]
  BY <1>a DEF Metered
<1>3. at[L - 1] = g + 1
  <2>1. at[L - 1] = at[L] + FrameCost(cost, w[L])
    BY <1>1, <1>2
  <2>. QED  BY <1>2, <1>a, <2>1 DEF TopOf
<1>4. PICK up : up = [i \in 0..(L - 1) |-> at[i]]
  OBVIOUS
<1>5. up \in [0..(L - 1) -> Nat] /\ \A i \in 0..(L - 1) : up[i] = at[i]
  BY <1>1, <1>2, <1>4
<1>6. Metered(up, cost, r, total, g + 1)
  <2>1. up[0] = at[0] /\ up[L - 1] = g + 1
    BY <1>1, <1>3, <1>5
  <2>2. \A i \in 1..(L - 1) : up[i - 1] = up[i] + FrameCost(cost, r[i])
    <3>. TAKE i \in 1..(L - 1)
    <3>1. i \in 1..L /\ i \in 0..(L - 1) /\ i - 1 \in 0..(L - 1)
      BY <1>1
    <3>. QED  BY <1>1, <1>2, <1>5, <3>1
  <2>3. \A i \in 0..(L - 1) : up[i] <= up[0]
    BY <1>1, <1>2, <1>5, <2>1
  <2>. QED  BY <1>1, <1>2, <1>5, <2>1, <2>2, <2>3 DEF Metered
<1>. QED  BY <1>6, <1>a

\* A wrapper costs one frame more than what it wraps.
LEMMA MeterReplace ==
  ASSUME NEW cost \in [Node -> Nat \ {0}], NEW total,
         NEW w \in Seq(Frames), w # <<>>, NEW g \in Nat,
         NEW at, Metered(at, cost, w, total, g),
         NEW u \in Seq(Frames), Len(u) = Len(w), \A i \in 1..(Len(w) - 1) : u[i] = w[i],
         FrameCost(cost, w[Len(w)]) = FrameCost(cost, u[Len(w)]) + 1
  PROVE  \E up : Metered(up, cost, u, total, g + 1)
<1>a. PICK L : L = Len(w)
  OBVIOUS
<1>1. L \in Nat \ {0} /\ Len(u) = L /\ u[L] \in Frames
  BY <1>a, TopFrame, ElementOfSeq
<1>b. PICK c : c = FrameCost(cost, u[L])
  OBVIOUS
<1>c. c \in Nat \ {0}
  BY <1>1, <1>b, CostPositive
<1>2. /\ at \in [0..L -> Nat] /\ at[0] = total /\ at[L] = g
      /\ \A i \in 1..L : at[i - 1] = at[i] + FrameCost(cost, w[i])
      /\ \A i \in 0..L : at[i] <= at[0]
  BY <1>a DEF Metered
<1>3. at[L - 1] = g + 1 + c /\ at[L - 1] <= at[0] /\ at[0] \in Nat
  <2>1. at[L - 1] = at[L] + FrameCost(cost, w[L])
    BY <1>1, <1>2
  <2>2. at[L - 1] <= at[0] /\ at[0] \in Nat
    BY <1>1, <1>2
  <2>. QED  BY <1>2, <1>a, <1>b, <1>c, <2>1, <2>2
<1>4. PICK up : up = [at EXCEPT ![L] = g + 1]
  OBVIOUS
<1>5. up \in [0..L -> Nat] /\ up[L] = g + 1 /\ \A i \in 0..(L - 1) : up[i] = at[i]
  BY <1>1, <1>2, <1>4
<1>6. Metered(up, cost, u, total, g + 1)
  <2>1. up[0] = at[0]
    BY <1>1, <1>5
  <2>2. \A i \in 1..L : up[i - 1] = up[i] + FrameCost(cost, u[i])
    <3>. TAKE i \in 1..L
    <3>1. CASE i < L
      <4>1. i \in 1..(L - 1) /\ i \in 0..(L - 1) /\ i - 1 \in 0..(L - 1)
        BY <1>1, <3>1
      <4>2. u[i] = w[i]
        BY <1>a, <4>1
      <4>. QED  BY <1>2, <1>5, <4>1, <4>2
    <3>2. CASE i = L
      <4>1. L - 1 \in 0..(L - 1)
        BY <1>1
      <4>. QED  BY <1>3, <1>5, <1>b, <1>c, <3>2, <4>1
    <3>. QED  BY <1>1, <3>1, <3>2
  <2>3. \A i \in 0..L : up[i] <= up[0]
    <3>. TAKE i \in 0..L
    <3>1. CASE i = L
      BY <1>3, <1>5, <1>c, <2>1, <3>1
    <3>2. CASE i # L
      BY <1>1, <1>2, <1>5, <2>1, <3>2
    <3>. QED  BY <3>1, <3>2
  <2>. QED  BY <1>1, <1>2, <1>5, <2>1, <2>2, <2>3 DEF Metered
<1>. QED  BY <1>6

\* An operator costs a frame to enter, what its operands cost, and its own frame.
LEMMA MeterPush ==
  ASSUME NEW cost \in [Node -> Nat \ {0}], NEW total,
         NEW w \in Seq(Frames), w # <<>>, NEW g \in Nat,
         NEW at, Metered(at, cost, w, total, g),
         NEW n \in Node, TopOf(w).tag = "Enter", TopOf(w).node = n,
         NEW k \in Seq(Node), NEW t, PrefixCosts(t, cost, k), cost[n] = t[Len(k)] + 1,
         NEW b, NEW u, OperatorPushed(u, w, n, k, b)
  PROVE  \E up : Metered(up, cost, u, total, g + 1)
<1>a. PICK L, K : L = Len(w) /\ K = Len(k)
  OBVIOUS
<1>2. L \in Nat \ {0} /\ K \in Nat
  BY <1>a, TopFrame, LenProperties
<1>3. /\ t \in [0..K -> Nat] /\ t[0] = 1
      /\ \A j \in 1..K : t[j] = t[j - 1] + cost[k[j]]
      /\ \A j \in 0..K : t[j] <= t[K]
      /\ cost[n] = t[K] + 1
  BY <1>a DEF PrefixCosts
<1>4. /\ at \in [0..L -> Nat] /\ at[0] = total /\ at[L] = g
      /\ \A i \in 1..L : at[i - 1] = at[i] + FrameCost(cost, w[i])
      /\ \A i \in 0..L : at[i] <= at[0]
  BY <1>a DEF Metered
<1>5. at[L - 1] = g + t[K] + 1 /\ at[L - 1] <= at[0] /\ at[0] \in Nat
  <2>1. at[L - 1] = at[L] + FrameCost(cost, w[L])
    BY <1>2, <1>4
  <2>2. FrameCost(cost, w[L]) = t[K] + 1
    BY <1>3, <1>a DEF FrameCost, TopOf
  <2>3. at[L - 1] <= at[0] /\ at[0] \in Nat
    BY <1>2, <1>4
  <2>4. t[K] \in Nat
    BY <1>2, <1>3
  <2>. QED  BY <1>4, <2>1, <2>2, <2>3, <2>4
<1>6. /\ Len(u) = L + K
      /\ \A i \in 1..(L - 1) : u[i] = w[i]
      /\ u[L] = CombineFrame(n, b)
      /\ \A p \in 1..K : u[L + p] = Enter(k[K + 1 - p], b \o SubSeq(k, 1, K - p))
  BY <1>a DEF OperatorPushed
<1>7. PICK up : up = [i \in 0..(L + K) |-> IF i < L THEN at[i] ELSE g + t[L + K - i]]
  OBVIOUS
<1>8. /\ up \in [0..(L + K) -> Nat]
      /\ \A i \in 0..(L - 1) : up[i] = at[i]
      /\ \A p \in 0..K : up[L + p] = g + t[K - p]
  <2>1. \A i \in 0..(L - 1) : i \in 0..(L + K) /\ i < L /\ at[i] \in Nat /\ up[i] = at[i]
    BY <1>2, <1>4, <1>7
  <2>2. \A p \in 0..K : up[L + p] = g + t[K - p] /\ g + t[K - p] \in Nat
    <3>. TAKE p \in 0..K
    <3>1. PICK i : i = L + p
      OBVIOUS
    <3>2. i \in 0..(L + K) /\ ~(i < L) /\ L + K - i = K - p /\ K - p \in 0..K
      BY <1>2, <3>1
    <3>3. up[i] = g + t[L + K - i]
      BY <1>7, <3>2
    <3>4. t[K - p] \in Nat
      BY <1>3, <3>2
    <3>. QED  BY <3>1, <3>2, <3>3, <3>4
  <2>3. \A i \in 0..(L + K) : (IF i < L THEN at[i] ELSE g + t[L + K - i]) \in Nat
    <3>. TAKE i \in 0..(L + K)
    <3>1. CASE i < L
      BY <1>2, <2>1, <3>1
    <3>2. CASE ~(i < L)
      <4>1. L + K - i \in 0..K
        BY <1>2, <3>2
      <4>2. t[L + K - i] \in Nat
        BY <1>3, <4>1
      <4>. QED  BY <3>2, <4>2
    <3>. QED  BY <3>1, <3>2
  <2>. QED  BY <1>7, <2>1, <2>2, <2>3
<1>9. \A i \in 1..(L + K) : up[i - 1] = up[i] + FrameCost(cost, u[i])
  <2>. TAKE i \in 1..(L + K)
  <2>1. CASE i < L
    <3>1. i \in 1..(L - 1) /\ i \in 0..(L - 1) /\ i - 1 \in 0..(L - 1) /\ i \in 1..L
      BY <1>2, <2>1
    <3>. QED  BY <1>4, <1>6, <1>8, <3>1
  <2>2. CASE i = L
    <3>1. FrameCost(cost, u[i]) = 1
      BY <1>6, <2>2 DEF FrameCost, CombineFrame
    <3>2. up[L] = g + t[K] /\ t[K] \in Nat
      <4>1. 0 \in 0..K /\ K \in 0..K /\ L + 0 = L /\ K - 0 = K
        BY <1>2
      <4>2. up[L + 0] = g + t[K - 0]
        BY <1>8, <4>1
      <4>3. t[K] \in Nat
        BY <1>3, <4>1
      <4>. QED  BY <4>1, <4>2, <4>3
    <3>3. up[L - 1] = g + t[K] + 1
      <4>1. L - 1 \in 0..(L - 1)
        BY <1>2
      <4>. QED  BY <1>5, <1>8, <4>1
    <3>. QED  BY <2>2, <3>1, <3>2, <3>3
  <2>3. CASE i > L
    <3>1. i - L \in 1..K /\ i = L + (i - L)
      BY <1>2, <2>3
    <3>2. PICK p \in 1..K : i = L + p
      BY ONLY <3>1
    <3>3. PICK j : j = K + 1 - p
      OBVIOUS
    <3>4. /\ j \in 1..K /\ p \in 0..K /\ p - 1 \in 0..K /\ i - 1 = L + (p - 1)
          /\ K - p = j - 1 /\ K - (p - 1) = j /\ j - 1 \in 0..K /\ j \in 0..K
      BY <1>2, <3>2, <3>3
    <3>5. up[i] = g + t[j - 1] /\ up[i - 1] = g + t[j]
      <4>1. up[L + p] = g + t[K - p] /\ up[L + (p - 1)] = g + t[K - (p - 1)]
        BY <1>8, <3>4
      <4>. QED  BY ONLY <3>2, <3>4, <4>1
    <3>6. FrameCost(cost, u[i]) = cost[k[j]]
      <4>1. u[i] = Enter(k[j], b \o SubSeq(k, 1, K - p))
        BY <1>6, <3>2, <3>3
      <4>. QED  BY <4>1 DEF FrameCost, Enter
    <3>7. t[j] = t[j - 1] + cost[k[j]] /\ t[j] \in Nat /\ t[j - 1] \in Nat
      BY <1>3, <3>4
    <3>8. cost[k[j]] \in Nat
      <4>1. k[j] \in Node
        BY <1>a, <3>4, ElementOfSeq
      <4>. QED  BY <4>1
    <3>. QED  BY <3>5, <3>6, <3>7, <3>8
  <2>. QED  BY <1>2, <2>1, <2>2, <2>3
<1>10. up[0] = at[0] /\ up[L + K] = g + 1
  <2>1. 0 \in 0..(L - 1) /\ K \in 0..K /\ K - K = 0
    BY <1>2
  <2>. QED  BY <1>3, <1>8, <2>1
<1>11. \A i \in 0..(L + K) : up[i] <= up[0]
  <2>. TAKE i \in 0..(L + K)
  <2>1. CASE i < L
    <3>1. i \in 0..(L - 1) /\ i \in 0..L
      BY <1>2, <2>1
    <3>. QED  BY <1>4, <1>8, <1>10, <3>1
  <2>2. CASE ~(i < L)
    <3>1. i - L \in 0..K /\ i = L + (i - L) /\ K - (i - L) \in 0..K /\ K \in 0..K
      BY <1>2, <2>2
    <3>2. PICK p \in 0..K : p = i - L
      BY <3>1
    <3>3. up[i] = g + t[K - p]
      BY <1>8, <3>1, <3>2
    <3>4. t[K - p] <= t[K] /\ t[K - p] \in Nat /\ t[K] \in Nat
      BY <1>3, <3>1, <3>2
    <3>. QED  BY <1>5, <1>10, <3>3, <3>4
  <2>. QED  BY <2>1, <2>2
<1>12. Metered(up, cost, u, total, g + 1)
  BY <1>4, <1>6, <1>8, <1>9, <1>10, <1>11 DEF Metered
<1>. QED  BY <1>12
=============================================================================
