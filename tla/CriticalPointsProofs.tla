------------------------ MODULE CriticalPointsProofs ------------------------
(***************************************************************************)
(* What holds of every scan and every decomposition, for every derivative, *)
(* every number of samples and every tolerance.                            *)
(***************************************************************************)
EXTENDS CriticalPoints, WellFoundedInduction, TLAPS

\* The kept sample is the one before the next, and has a value.
PrevIsLast ==
  state = "scanning" /\ prev # NoSample =>
    next > 0 /\ prev = (next - 1) * Step /\ f[prev] # Gap

\* push_unique keeps the roots further apart than it merges.
RootsApart == \A r, s \in roots : r < s => 2 * (s - r) > Merging

\* Cutting goes from left to right over the roots and the two ends.
CutOrder ==
  /\ state \in {"scanning", "failed"} => pieces = {} /\ left = 0
  /\ state \in {"cutting", "done"} => bounds = {0, End} \cup roots /\ left \in bounds
  /\ state = "done" => left = End

Apiece(p) == p.lo < p.hi /\ p.hi <= left /\ \A r \in roots : r <= p.lo \/ p.hi <= r
Disjoint == \A p, q \in pieces : p # q => p.hi <= q.lo \/ q.hi <= p.lo

Unlabelled(x) ==
  \E l \in roots \cup {0}, h \in roots \cup {End} :
    /\ l <= x /\ x < h /\ \A r \in roots : r <= l \/ h <= r
    /\ \E m \in Midpoints(l, h) : f[m] = Gap
Covered == \A x \in Points : x < left => (\E p \in pieces : p.lo <= x /\ x < p.hi) \/ Unlabelled(x)

\* The inductive invariant.
IInv ==
  /\ TypeOK /\ PrevIsLast /\ RootsApart /\ RootsJustified
  /\ CutOrder /\ (\A p \in pieces : Apiece(p)) /\ Disjoint /\ Covered

LEMMA Constants ==
  ASSUME config \in Configs
  PROVE  /\ Steps \in Nat /\ Steps > 0 /\ Step \in Nat /\ Step > 0 /\ Tol \in Nat
         /\ Steps * Step = End /\ End \in Nat
         /\ Merging \in Nat /\ Merging >= 3 * Step
         /\ Functions \subseteq [Points -> Int \cup {Gap}]
  <1>1. /\ config.max_search_iterations \in Nat /\ config.convergence_threshold \in Nat
        /\ config.numerical_tolerance \in Nat
    BY ConfigsAssumption
  <1>2. Steps \in Nat /\ Steps > 0 /\ Tol \in Nat
    BY <1>1 DEF Steps, StepsOf, Tol
  <1>3. End \in Nat /\ End > 0 /\ End % Steps = 0
    BY EndAssumption, GridAssumption DEF Steps
  <1>4. Step \in Nat /\ Step > 0 /\ Steps * Step = End
    <2> PICK n \in Nat : n = Steps
      BY <1>2
    <2>1. n > 0 /\ End % n = 0
      BY <1>2, <1>3
    <2>2. End = n * (End \div n) /\ End \div n \in Nat
      BY <1>3, <2>1
    <2>3. End \div n > 0
      BY <1>3, <2>1, <2>2
    <2> QED BY <2>2, <2>3 DEF Step
  <1>5. Merging \in Nat /\ Merging >= 3 * Step
    BY <1>1, <1>4 DEF Merging
  <1> QED BY <1>2, <1>3, <1>4, <1>5, FunctionsAssumption

\* The configuration is fixed, and with it the samples and the tolerances.
Same ==
  /\ config \in Configs /\ config' = config
  /\ Steps' = Steps /\ Step' = Step /\ Tol' = Tol /\ Merging' = Merging /\ Turns' = Turns

LEMMA SameConfig ==
  ASSUME config \in Configs, config' = config
  PROVE  Same
  BY DEF Same, Steps, Step, Tol, Merging, Turns

LEMMA ConfigFixed == [Next]_vars => config' = config
  BY DEF Next, vars, scan, cut, FailFirst, SkipGap, NearZero, Bisect, PassBy, Advance, Report,
         Label, Finish

\* Samples are in the order of their numbers.
LEMMA SampleOrder ==
  ASSUME config \in Configs, NEW i \in Int, NEW j \in Int, i <= j
  PROVE  i * Step <= j * Step
  <1> DEFINE s == Step
  <1>1. s \in Nat
    BY Constants
  <1>2. j - i \in Nat /\ (j - i) * s >= 0
    BY <1>1
  <1>3. (j - i) * s = j * s - i * s
    BY <1>1
  <1>4. i * s \in Int /\ j * s \in Int
    BY <1>1
  <1> HIDE DEF s
  <1>5. i * s <= j * s
    BY <1>2, <1>3, <1>4
  <1> QED BY <1>5 DEF s

LEMMA SamplePoint ==
  ASSUME config \in Configs, NEW i \in 0..Steps
  PROVE  i * Step \in Points
  <1>1. i \in Int /\ 0 \in Int /\ Steps \in Int /\ 0 <= i /\ i <= Steps /\ Step \in Int
    BY Constants
  <1>2. 0 * Step <= i * Step /\ i * Step <= Steps * Step
    BY <1>1, SampleOrder
  <1>3. 0 * Step = 0 /\ i * Step \in Int /\ Steps * Step \in Int
    BY <1>1
  <1>4. Steps * Step = End
    BY Constants
  <1> QED BY <1>2, <1>3, <1>4 DEF Points

LEMMA EndPoint == End \in Int /\ End > 0 /\ 0 \in Points /\ End \in Points
  BY EndAssumption DEF Points

LEMMA StepBefore ==
  ASSUME config \in Configs, NEW i \in Nat
  PROVE  /\ (i - 1) * Step = i * Step - Step /\ i * Step \in Nat
         /\ (i + 1 - 1) * Step = i * Step
  <1> DEFINE s == Step
  <1>1. s \in Nat
    BY Constants
  <1>2. (i - 1) * s = i * s - s /\ i * s \in Nat /\ (i + 1 - 1) * s = i * s
    BY <1>1
  <1> QED BY <1>2

\* No sample lies between a sample and the next.
LEMMA NoneBetween ==
  ASSUME config \in Configs, NEW n \in Nat, NEW i \in 0..Steps
  PROVE  i * Step <= (n - 1) * Step \/ n * Step <= i * Step
  <1>1. i \in Int /\ n \in Int /\ n - 1 \in Int
    BY Constants
  <1>2. CASE i <= n - 1
    BY <1>1, <1>2, SampleOrder
  <1>3. CASE n <= i
    BY <1>1, <1>3, SampleOrder
  <1> QED BY <1>1, <1>2, <1>3

\* A value that is not a gap is a number.
LEMMA Numbers ==
  ASSUME TypeOK, NEW x \in Points, f[x] # Gap
  PROVE  f[x] \in Int
  BY DEF TypeOK

\* push_unique adds at most the point it is given, and only far from the others.
LEMMA PushKeepsApart ==
  ASSUME config \in Configs, roots \subseteq Points, RootsApart, NEW x \in Points
  PROVE  /\ PushUnique(x) \subseteq roots \cup {x}
         /\ \A r, s \in PushUnique(x) : r < s => 2 * (s - r) > Merging
  <1>1. CASE \E r \in roots : Duplicate(r, x)
    BY <1>1 DEF PushUnique, RootsApart
  <1>2. CASE \A r \in roots : ~Duplicate(r, x)
    <2>1. PushUnique(x) = roots \cup {x}
      BY <1>2 DEF PushUnique
    <2>2. \A r \in roots : r \in Int /\ x \in Int /\ Merging \in Nat
      BY Constants DEF Points
    <2>3. \A r \in roots : /\ r < x => 2 * (x - r) > Merging
                           /\ x < r => 2 * (r - x) > Merging
      BY <1>2, <2>2 DEF Duplicate
    <2>4. \A r, s \in roots : r < s => 2 * (s - r) > Merging
      BY DEF RootsApart
    <2>5. ~(x < x)
      BY DEF Points
    <2> QED BY <2>1, <2>3, <2>4, <2>5
  <1> QED BY <1>1, <1>2

\* What RootsJustified asks of one root.
Justified(r) ==
  \/ WithinTol(r)
  \/ \E a, b \in Points :
       /\ a <= r /\ r <= b /\ (Jumps(a, b) \/ Narrowed(a, b))
       /\ \A i \in 0..Steps : i * Step <= a \/ b <= i * Step

\* Whatever a bisection between two samples in a row answers is justified.
LEMMA AnswerJustified ==
  ASSUME TypeOK, PrevIsLast, state = "scanning", next <= Steps, Bracketed,
         NEW r \in Bisected(prev, X)
  PROVE  r \in Points /\ Justified(r)
  <1>0. config \in Configs
    BY DEF TypeOK
  <1>1. /\ next \in Nat /\ next > 0 /\ next \in 0..Steps
        /\ prev = (next - 1) * Step /\ prev \in Points /\ prev \in Int
    BY <1>0, Constants DEF TypeOK, PrevIsLast, Bracketed, Points
  <1>2. X \in Points /\ X \in Int
    BY <1>0, <1>1, SamplePoint DEF X, Points
  <1>3. \A x \in prev..X : x \in Points /\ x \in Int /\ prev <= x /\ x <= X
    BY <1>1, <1>2, EndPoint DEF Points
  <1>4. ASSUME NEW a \in prev..X, NEW b \in prev..X, a <= r, r <= b,
               Jumps(a, b) \/ Narrowed(a, b)
        PROVE  Justified(r)
    <2>1. \A i \in 0..Steps : i * Step <= prev \/ X <= i * Step
      BY <1>0, <1>1, NoneBetween DEF X
    <2>2. \A i \in 0..Steps : i * Step \in Int
      BY <1>0, Constants
    <2>3. \A i \in 0..Steps : i * Step <= a \/ b <= i * Step
      BY <2>1, <2>2, <1>1, <1>2, <1>3
    <2> QED BY <2>3, <1>3, <1>4 DEF Justified
  <1>5. CASE WithinTol(prev)
    BY <1>1, <1>5 DEF Bisected, Justified
  <1>6. CASE ~WithinTol(prev) /\ WithinTol(X)
    BY <1>2, <1>6 DEF Bisected, Justified
  <1>7. CASE ~WithinTol(prev) /\ ~WithinTol(X)
    <2>1. /\ r \in prev..X
          /\ \/ WithinTol(r)
             \/ \E x \in prev..X : Jumps(r, x) \/ Jumps(x, r)
             \/ \E a, b \in prev..X : a < b /\ OutOfTurns(r, a, b, X - prev)
      BY <1>7 DEF Bisected
    <2>2. r \in Points /\ r \in Int /\ r <= r
      BY <2>1, <1>3
    <2>3. CASE WithinTol(r)
      BY <2>2, <2>3 DEF Justified
    <2>4. ASSUME NEW x \in prev..X, Jumps(r, x)
          PROVE  Justified(r)
      <3>1. r <= x
        BY <2>4, <2>2, <1>3 DEF Jumps
      <3> QED BY <3>1, <2>1, <2>2, <2>4, <1>4
    <2>5. ASSUME NEW x \in prev..X, Jumps(x, r)
          PROVE  Justified(r)
      <3>1. x <= r
        BY <2>5, <2>2, <1>3 DEF Jumps
      <3> QED BY <3>1, <2>1, <2>2, <2>5, <1>4
    <2>6. ASSUME NEW a \in prev..X, NEW b \in prev..X, a < b, OutOfTurns(r, a, b, X - prev)
          PROVE  Justified(r)
      <3>1. a \in Int /\ b \in Int /\ (r = a \/ r = b)
        BY <2>6, <1>3 DEF OutOfTurns
      <3>2. a <= r /\ r <= b
        BY <2>6, <3>1
      <3>3. X - prev = Step
        BY <1>0, <1>1, StepBefore, Constants DEF X
      <3>4. Crosses(a, b) /\ (b - a - 1) * 2 ^ Turns < X - prev
        BY <2>6 DEF OutOfTurns, Halved
      <3>5. (b - a - 1) * 2 ^ Turns < Step
        BY <3>3, <3>4
      <3>6. Narrowed(a, b)
        BY <2>6, <3>4, <3>5 DEF Narrowed
      <3> QED BY <3>2, <3>6, <1>4
    <2> QED BY <2>1, <2>2, <2>3, <2>4, <2>5, <2>6
  <1> QED BY <1>5, <1>6, <1>7

LEMMA JustifiedDef == RootsJustified <=> \A r \in roots : Justified(r)
  BY DEF RootsJustified, Justified

\* The part of the invariant about the roots, and about the pieces.
RootsInv == config \in Configs /\ roots \subseteq Points /\ RootsApart /\ RootsJustified

LEMMA PushKeepsRoots ==
  ASSUME RootsInv, NEW x \in Points, Justified(x), roots' = PushUnique(x), f' = f, config' = config
  PROVE  RootsInv'
  <1>0. Same
    BY SameConfig DEF RootsInv
  <1>1. /\ PushUnique(x) \subseteq roots \cup {x}
        /\ \A r, s \in PushUnique(x) : r < s => 2 * (s - r) > Merging
    BY PushKeepsApart DEF RootsInv
  <1>2. roots' \subseteq Points /\ RootsApart'
    BY <1>0, <1>1 DEF RootsInv, RootsApart, Same
  <1>3. \A r \in roots' : Justified(r)
    BY <1>1, JustifiedDef DEF RootsInv
  <1>4. RootsJustified'
    BY <1>0, <1>3 DEF RootsJustified, Justified, WithinTol, Jumps, Narrowed, Crosses, Same
  <1> QED BY <1>0, <1>2, <1>4 DEF RootsInv, Same

LEMMA SameRoots ==
  ASSUME RootsInv, roots' \subseteq roots, f' = f, config' = config
  PROVE  RootsInv'
  <1>1. Same
    BY SameConfig DEF RootsInv
  <1> QED
    BY <1>1 DEF RootsInv, RootsApart, RootsJustified, WithinTol, Jumps, Narrowed, Crosses, Same

CutInv ==
  /\ CutOrder /\ (\A p \in pieces : Apiece(p)) /\ Disjoint /\ Covered

\* Nothing is cut while the scan goes on.
LEMMA NothingCutYet ==
  ASSUME state' \in {"scanning", "failed"}, pieces' = {}, left' = 0
  PROVE  CutInv'
  BY DEF CutInv, CutOrder, Apiece, Disjoint, Covered, Points

LEMMA InitInv == Init => IInv
  <1> SUFFICES ASSUME Init PROVE IInv
    OBVIOUS
  <1>1. TypeOK
    <2>1. config \in Configs
      BY DEF Init
    <2> QED BY <2>1, Constants, EndPoint DEF Init, TypeOK
  <1>2. PrevIsLast /\ RootsApart /\ RootsJustified
    BY DEF Init, PrevIsLast, RootsApart, RootsJustified
  <1>3. CutOrder /\ (\A p \in pieces : Apiece(p)) /\ Disjoint
    BY DEF Init, CutOrder, Disjoint
  <1>4. Covered
    BY DEF Init, Covered, Points
  <1> QED BY <1>1, <1>2, <1>3, <1>4 DEF IInv

\* A sample with a value, whatever becomes of the roots.
LEMMA AdvanceInv ==
  ASSUME IInv, Advance, RootsInv', zeros' \in {zeros, zeros + 1}
  PROVE  IInv'
  <1>0. Same
    BY SameConfig DEF IInv, TypeOK, Advance
  <1> USE <1>0 DEF Same
  <1>1. /\ next \in Nat /\ next \in 0..Steps /\ X \in Points
        /\ samples \in 0..next /\ zeros \in 0..samples /\ state = "scanning"
    <2>1. next \in 0..Steps
      BY Constants DEF IInv, TypeOK, Advance, Sampling
    <2>2. X \in Points
      BY <2>1, SamplePoint DEF X
    <2> QED BY <2>1, <2>2 DEF IInv, TypeOK, Advance, Sampling
  <1>2. pieces' = {} /\ left' = 0 /\ state' = "scanning"
    BY <1>1 DEF IInv, CutOrder, Advance, cut
  <1>3. CutInv'
    BY <1>2, NothingCutYet
  <1>4. TypeOK'
    <2>1. next' \in 0..(Steps + 1) /\ samples' \in 0..next' /\ zeros' \in 0..samples'
      BY <1>1, Constants DEF Advance
    <2>2. f' \in [Points -> Int \cup {Gap}] /\ bounds' \subseteq Points /\ left' \in Points
      BY DEF IInv, TypeOK, Advance, cut
    <2> QED BY <1>1, <1>2, <2>1, <2>2 DEF TypeOK, Advance, RootsInv
  <1>5. PrevIsLast'
    <2>1. next' > 0 /\ next' - 1 = next /\ prev' = X /\ f' = f /\ f[X] # Gap
      BY <1>1 DEF Advance
    <2> QED BY <2>1 DEF PrevIsLast, X
  <1> QED BY <1>3, <1>4, <1>5 DEF IInv, CutInv, RootsInv

LEMMA FailFirstInv == IInv /\ FailFirst => IInv'
  <1> SUFFICES ASSUME IInv, FailFirst PROVE IInv'
    OBVIOUS
  <1>0. Same
    BY SameConfig DEF IInv, TypeOK, FailFirst, scan
  <1> USE <1>0 DEF Same
  <1>1. state = "scanning" /\ state' = "failed" /\ UNCHANGED <<config, f, next, prev, samples, zeros, roots, bounds, left, pieces>>
    BY DEF FailFirst, Sampling, scan, cut
  <1>2. pieces' = {} /\ left' = 0
    BY <1>1 DEF IInv, CutOrder
  <1>3. CutInv'
    BY <1>1, <1>2, NothingCutYet
  <1>4. RootsInv'
    BY <1>1, SameRoots DEF IInv, TypeOK, RootsInv
  <1>5. TypeOK' /\ PrevIsLast'
    BY <1>1, <1>2 DEF IInv, TypeOK, PrevIsLast
  <1> QED BY <1>3, <1>4, <1>5 DEF IInv, CutInv, RootsInv

LEMMA SkipGapInv == IInv /\ SkipGap => IInv'
  <1> SUFFICES ASSUME IInv, SkipGap PROVE IInv'
    OBVIOUS
  <1>0. Same
    BY SameConfig DEF IInv, TypeOK, SkipGap
  <1> USE <1>0 DEF Same
  <1>1. /\ state = "scanning" /\ state' = "scanning" /\ next \in 0..Steps /\ next' = next + 1
        /\ prev' = NoSample
        /\ UNCHANGED <<config, f, samples, zeros, roots, bounds, left, pieces>>
    BY Constants DEF SkipGap, Sampling, cut, IInv, TypeOK
  <1>2. pieces' = {} /\ left' = 0
    BY <1>1 DEF IInv, CutOrder
  <1>3. CutInv'
    BY <1>1, <1>2, NothingCutYet
  <1>4. RootsInv'
    BY <1>1, SameRoots DEF IInv, TypeOK, RootsInv
  <1>5. TypeOK'
    <2>1. next' \in 0..(Steps + 1) /\ samples' \in 0..next' /\ zeros' \in 0..samples'
      BY <1>1, Constants DEF IInv, TypeOK
    <2> QED BY <1>1, <1>2, <2>1 DEF IInv, TypeOK
  <1>6. PrevIsLast'
    BY <1>1 DEF PrevIsLast
  <1> QED BY <1>3, <1>4, <1>5, <1>6 DEF IInv, CutInv, RootsInv

LEMMA NearZeroInv == IInv /\ NearZero => IInv'
  <1> SUFFICES ASSUME IInv, NearZero PROVE IInv'
    OBVIOUS
  <1>0. Same
    BY SameConfig DEF IInv, TypeOK, NearZero, Advance
  <1> USE <1>0 DEF Same
  <1>1. X \in Points
    <2>1. next \in 0..Steps
      BY Constants DEF IInv, TypeOK, NearZero, Advance, Sampling
    <2> QED BY <2>1, SamplePoint DEF X
  <1>2. Justified(X)
    BY DEF NearZero, Justified
  <1>3. RootsInv
    BY DEF IInv, TypeOK, RootsInv
  <1>4. f' = f /\ roots' = PushUnique(X) /\ Advance /\ zeros' = zeros + 1
    BY DEF NearZero, Advance
  <1>5. RootsInv'
    BY <1>1, <1>2, <1>3, <1>4, PushKeepsRoots
  <1> QED BY <1>4, <1>5, AdvanceInv

LEMMA BisectInv == IInv /\ Bisect => IInv'
  <1> SUFFICES ASSUME IInv, Bisect PROVE IInv'
    OBVIOUS
  <1>0. Same
    BY SameConfig DEF IInv, TypeOK, Bisect, Advance
  <1> USE <1>0 DEF Same
  <1>1. RootsInv /\ TypeOK /\ PrevIsLast
    BY DEF IInv, TypeOK, RootsInv
  <1>2. f' = f /\ Advance /\ zeros' = zeros /\ state = "scanning" /\ next <= Steps /\ Bracketed
    BY DEF Bisect, Advance, Sampling
  <1>3. CASE roots' = roots
    <2>1. RootsInv'
      BY <1>1, <1>2, <1>3, SameRoots
    <2> QED BY <1>2, <2>1, AdvanceInv
  <1>4. CASE \E r \in Bisected(prev, X) : roots' = PushUnique(r)
    <2>1. PICK r \in Bisected(prev, X) : roots' = PushUnique(r)
      BY <1>4
    <2>2. r \in Points /\ Justified(r)
      BY <1>1, <1>2, AnswerJustified
    <2>3. RootsInv'
      BY <1>1, <1>2, <2>1, <2>2, PushKeepsRoots
    <2> QED BY <1>2, <2>3, AdvanceInv
  <1> QED BY <1>3, <1>4 DEF Bisect

LEMMA PassByInv == IInv /\ PassBy => IInv'
  <1> SUFFICES ASSUME IInv, PassBy PROVE IInv'
    OBVIOUS
  <1>0. Same
    BY SameConfig DEF IInv, TypeOK, PassBy, Advance
  <1> USE <1>0 DEF Same
  <1>1. RootsInv
    BY DEF IInv, TypeOK, RootsInv
  <1>2. f' = f /\ Advance /\ zeros' = zeros /\ roots' = roots
    BY DEF PassBy, Advance
  <1>3. RootsInv'
    BY <1>1, <1>2, SameRoots
  <1> QED BY <1>2, <1>3, AdvanceInv

LEMMA ReportInv == IInv /\ Report => IInv'
  <1> SUFFICES ASSUME IInv, Report PROVE IInv'
    OBVIOUS
  <1>0. Same
    BY SameConfig DEF IInv, TypeOK, Report, scan
  <1> USE <1>0 DEF Same
  <1>1. /\ state = "scanning" /\ state' = "cutting" /\ roots' = Reported
        /\ bounds' = {0, End} \cup roots'
        /\ UNCHANGED <<config, f, next, prev, samples, zeros, left, pieces>>
    BY DEF Report, CutAt, scan
  <1>2. pieces' = {} /\ left' = 0
    BY <1>1 DEF IInv, CutOrder
  <1>3. roots' \subseteq roots
    BY <1>1 DEF Reported
  <1>4. RootsInv'
    BY <1>1, <1>3, SameRoots DEF IInv, TypeOK, RootsInv
  <1>5. CutInv'
    BY <1>1, <1>2 DEF CutInv, CutOrder, Apiece, Disjoint, Covered, Points
  <1>6. PrevIsLast'
    BY <1>1 DEF PrevIsLast
  <1>7. TypeOK'
    <2>1. bounds' \subseteq Points /\ left' \in Points
      BY <1>1, <1>2, <1>4, EndPoint DEF RootsInv
    <2> QED BY <1>1, <1>2, <1>4, <2>1 DEF IInv, TypeOK, RootsInv
  <1> QED BY <1>4, <1>5, <1>6, <1>7 DEF IInv, CutInv, RootsInv

\* A window is either labelled or left out for want of a value at its midpoint.
LEMMA LabelInv == IInv /\ Label => IInv'
  <1> SUFFICES ASSUME IInv, Label PROVE IInv'
    OBVIOUS
  <1>0. Same
    BY SameConfig DEF IInv, TypeOK, Label, scan
  <1> USE <1>0 DEF Same
  <1>1. PICK h \in bounds :
          /\ Follows(left, h) /\ left' = h
          /\ \E m \in Midpoints(left, h) :
               pieces' = IF f[m] = Gap THEN pieces ELSE pieces \cup {Piece(left, h, f[m])}
    BY DEF Label
  <1>2. PICK m \in Midpoints(left, h) :
          pieces' = IF f[m] = Gap THEN pieces ELSE pieces \cup {Piece(left, h, f[m])}
    BY <1>1
  <1>3. state = "cutting" /\ UNCHANGED <<config, f, next, prev, samples, zeros, roots, state, bounds>>
    BY DEF Label, scan
  <1>4. bounds = {0, End} \cup roots /\ left \in bounds /\ bounds \subseteq Points
    BY <1>3 DEF IInv, TypeOK, CutOrder
  <1>5. /\ left \in Int /\ h \in Int /\ 0 <= left /\ left < h /\ h <= End /\ End \in Int
        /\ \A r \in roots : r \in Int /\ (r <= left \/ h <= r)
    BY <1>1, <1>4, EndPoint DEF Follows, Points
  <1>6. left \in roots \cup {0} /\ h \in roots \cup {End}
    <2>1. left # End /\ h # 0
      BY <1>5
    <2> QED BY <1>1, <1>4, <2>1
  <1>7. RootsInv'
    BY <1>3, SameRoots DEF IInv, TypeOK, RootsInv
  <1>8. PrevIsLast'
    BY <1>3 DEF PrevIsLast
  <1> DEFINE new == Piece(left, h, f[m])
  <1>9. pieces \subseteq pieces' /\ pieces' \subseteq pieces \cup {new}
    BY <1>2
  <1>10. new.lo = left /\ new.hi = h /\ new.increasing \in BOOLEAN
    BY DEF Piece
  <1> HIDE DEF new
  <1>11. \A p \in pieces : /\ p.lo \in Points /\ p.hi \in Points /\ p.increasing \in BOOLEAN
                           /\ p.lo < p.hi /\ p.hi <= left /\ \A r \in roots : r <= p.lo \/ p.hi <= r
    BY DEF IInv, TypeOK, Apiece
  <1>12. \A p \in pieces : p.hi <= h
    <2> SUFFICES ASSUME NEW p \in pieces PROVE p.hi <= h
      OBVIOUS
    <2>1. p.hi \in Int /\ p.hi <= left
      BY <1>11 DEF Points
    <2> QED BY <2>1, <1>5
  <1>13. TypeOK'
    <2>1. left' \in Points /\ left \in Points /\ h \in Points
      BY <1>1, <1>4
    <2>2. \A p \in pieces' : p.lo \in Points /\ p.hi \in Points /\ p.increasing \in BOOLEAN
      BY <1>9, <1>10, <1>11, <2>1
    <2> QED BY <1>3, <2>1, <2>2 DEF IInv, TypeOK
  <1>14. CutOrder'
    BY <1>1, <1>3, <1>4 DEF CutOrder
  <1>15. (\A p \in pieces : Apiece(p))'
    <2>1. \A p \in pieces' : /\ p.lo < p.hi /\ p.hi <= h
                              /\ \A r \in roots : r <= p.lo \/ p.hi <= r
      <3>1. h <= h
        BY <1>5
      <3> QED BY <1>5, <1>9, <1>10, <1>11, <1>12, <3>1
    <2> QED BY <2>1, <1>1, <1>3 DEF Apiece
  <1>16. Disjoint'
    BY <1>9, <1>10, <1>11 DEF IInv, Disjoint
  <1>17. Covered'
    <2> SUFFICES ASSUME NEW x \in Points, x < h
                 PROVE  (\E p \in pieces' : p.lo <= x /\ x < p.hi) \/ Unlabelled(x)'
      BY <1>1 DEF Covered
    <2>1. Unlabelled(x) => Unlabelled(x)'
      BY <1>3 DEF Unlabelled, Midpoints
    <2>2. CASE x < left
      BY <2>1, <2>2, <1>9 DEF IInv, Covered
    <2>3. CASE left <= x /\ f[m] = Gap
      <3>1. Unlabelled(x)
        BY <1>5, <1>6, <2>3 DEF Unlabelled
      <3> QED BY <3>1, <2>1
    <2>4. CASE left <= x /\ f[m] # Gap
      <3>1. new \in pieces'
        BY <1>2, <2>4 DEF new
      <3> QED BY <3>1, <1>10, <2>4
    <2>5. x \in Int
      BY DEF Points
    <2> QED BY <2>2, <2>3, <2>4, <2>5, <1>5
  <1> QED BY <1>7, <1>8, <1>13, <1>14, <1>15, <1>16, <1>17 DEF IInv, RootsInv

LEMMA FinishInv == IInv /\ Finish => IInv'
  <1> SUFFICES ASSUME IInv, Finish PROVE IInv'
    OBVIOUS
  <1>0. Same
    BY SameConfig DEF IInv, TypeOK, Finish, scan
  <1> USE <1>0 DEF Same
  <1>1. /\ state = "cutting" /\ state' = "done" /\ \A b \in bounds : b <= left
        /\ UNCHANGED <<config, f, next, prev, samples, zeros, roots, bounds, left, pieces>>
    BY DEF Finish, scan, cut
  <1>2. left = End
    <2>1. End \in bounds /\ left \in Points
      BY <1>1 DEF IInv, CutOrder, TypeOK
    <2>2. End <= left /\ left <= End /\ left \in Int
      BY <1>1, <2>1, EndPoint DEF Points
    <2> QED BY <2>2, EndPoint
  <1>3. RootsInv'
    BY <1>1, SameRoots DEF IInv, TypeOK, RootsInv
  <1>4. TypeOK' /\ PrevIsLast'
    BY <1>1 DEF IInv, TypeOK, PrevIsLast
  <1>5. CutInv'
    BY <1>1, <1>2 DEF IInv, CutInv, CutOrder, Apiece, Disjoint, Covered, Unlabelled, Midpoints
  <1> QED BY <1>3, <1>4, <1>5 DEF IInv, CutInv, RootsInv

\* One lemma per action.
LEMMA StepInv == IInv /\ [Next]_vars => IInv'
  <1> SUFFICES ASSUME IInv, [Next]_vars PROVE IInv'
    OBVIOUS
  <1>0. Same
    BY SameConfig, ConfigFixed DEF IInv, TypeOK
  <1> USE <1>0 DEF Same
  <1>1. CASE UNCHANGED vars
    <2>1. UNCHANGED <<config, f, next, prev, samples, zeros, roots, state, bounds, left, pieces>>
      BY <1>1 DEF vars, scan, cut
    <2>2. RootsInv'
      BY <2>1, SameRoots DEF IInv, TypeOK, RootsInv
    <2>3. TypeOK' /\ PrevIsLast'
      BY <2>1 DEF IInv, TypeOK, PrevIsLast
    <2>4. CutInv'
      BY <2>1 DEF IInv, CutInv, CutOrder, Apiece, Disjoint, Covered, Unlabelled, Midpoints
    <2> QED BY <2>2, <2>3, <2>4 DEF IInv, CutInv, RootsInv
  <1> QED
    BY <1>1, FailFirstInv, SkipGapInv, NearZeroInv, BisectInv, PassByInv, ReportInv, LabelInv,
       FinishInv DEF Next

\* The invariant holds of every scan.
THEOREM Invariance == Spec => []IInv
  BY InitInv, StepInv, PTL DEF Spec

\* Every variable keeps its type: samples are never more than the scan has taken, and
\* near-zero samples never more than those (scan_for_roots, split_intervals).
THEOREM TypeCorrect == Spec => []TypeOK
  <1>1. IInv => TypeOK
    BY DEF IInv
  <1> QED BY <1>1, Invariance, PTL

\* No scan reports a root it has no ground for, whether its bisection converged or ran
\* out of turns: what it answers is within tolerance, beside a jump, or in a bracket as
\* narrow as the budget makes it, and no bracket is formed across a sample without a
\* value, for any derivative, configuration and pattern of gaps (scan_for_roots).
THEOREM RootsHaveGrounds == Spec => []RootsJustified
  <1>1. IInv => RootsJustified
    BY DEF IInv
  <1> QED BY <1>1, Invariance, PTL

\* No scan reports one root twice: two reported roots are more than a step apart
\* (push_unique).
THEOREM NoRootTwice == Spec => []RootsDistinct
  <1>1. IInv => RootsDistinct
    <2> SUFFICES ASSUME IInv, NEW r \in roots, NEW s \in roots, r < s PROVE s - r > Step
      BY DEF RootsDistinct
    <2>1. r \in Int /\ s \in Int /\ 2 * (s - r) > Merging
      BY DEF IInv, TypeOK, RootsApart, Points
    <2>2. Merging \in Nat /\ Merging >= 3 * Step /\ Step \in Nat
      BY Constants DEF IInv, TypeOK
    <2> QED BY <2>1, <2>2
  <1> QED BY <1>1, Invariance, PTL

\* The pieces of every decomposition tile the range, whatever is left unlabelled
\* (split_intervals).
THEOREM PiecesTileRange == Spec => []PiecesTile
  <1>1. IInv => PiecesTile
    <2> SUFFICES ASSUME IInv PROVE PiecesTile
      OBVIOUS
    <2>1. \A p \in pieces : p.lo < p.hi /\ \A r \in roots : ~(p.lo < r /\ r < p.hi)
      <3> SUFFICES ASSUME NEW p \in pieces
                   PROVE  p.lo < p.hi /\ \A r \in roots : ~(p.lo < r /\ r < p.hi)
        OBVIOUS
      <3>1. p.lo < p.hi /\ p.lo \in Int /\ p.hi \in Int
        BY DEF IInv, TypeOK, Apiece, Points
      <3>2. \A r \in roots : r \in Int /\ (r <= p.lo \/ p.hi <= r)
        BY DEF IInv, TypeOK, Apiece, Points
      <3> QED BY <3>1, <3>2
    <2>2. \A p, q \in pieces : p # q => p.hi <= q.lo \/ q.hi <= p.lo
      BY DEF IInv, Disjoint
    <2>3. ASSUME state = "done", NEW x \in Points \ {End}
          PROVE  (\E p \in pieces : p.lo <= x /\ x < p.hi) \/ Unlabelled(x)
      <3>1. left = End /\ x < left
        BY <2>3, EndPoint DEF IInv, CutOrder, Points
      <3> QED BY <3>1, <2>3 DEF IInv, Covered
    <2> QED BY <2>1, <2>2, <2>3 DEF PiecesTile, Unlabelled
  <1> QED BY <1>1, Invariance, PTL
(***************************************************************************)
(* Nothing is lost: what the samples passed have shown is in the roots.    *)
(***************************************************************************)
ShownSoFar ==
  state = "scanning" =>
    /\ \A i \in 0..Steps : i < next => Shown(i)
    /\ \A r \in roots : r <= (next - 1) * Step
    /\ next > 0 /\ prev = NoSample => f[(next - 1) * Step] = Gap

KeptInv == ShownSoFar /\ NothingShownIsLost

LEMMA KeptInit == Init => KeptInv
  BY DEF Init, KeptInv, ShownSoFar, NothingShownIsLost

\* Whatever push_unique is given from the last bracket, a root is near; roots stay.
LEMMA PushShows ==
  ASSUME config \in Configs, config' = config, roots \subseteq Points, NEW l \in Int, NEW h \in Int, NEW x \in Points,
         l <= x, x <= h, \A r \in roots : r <= h, roots' = PushUnique(x)
  PROVE  /\ Near(l, h)' /\ roots \subseteq roots' /\ \A r \in roots' : r <= h
  <1>1. x \in Int /\ Merging \in Nat /\ Merging' = Merging /\ \A r \in roots : r \in Int
    BY Constants, SameConfig DEF Points, Same
  <1>2. CASE \E r \in roots : Duplicate(r, x)
    <2>1. PICK r \in roots : Duplicate(r, x)
      BY <1>2
    <2>2. 2 * r + Merging >= 2 * l /\ r <= h
      BY <1>1, <2>1 DEF Duplicate
    <2>3. roots' = roots
      BY <1>2 DEF PushUnique
    <2> QED BY <1>1, <2>1, <2>2, <2>3 DEF Near
  <1>3. CASE ~ \E r \in roots : Duplicate(r, x)
    <2>1. roots' = roots \cup {x}
      BY <1>3 DEF PushUnique
    <2>2. 2 * x + Merging >= 2 * l
      BY <1>1
    <2> QED BY <1>1, <2>1, <2>2 DEF Near
  <1> QED BY <1>2, <1>3

\* What has been shown stays shown as roots are added.
LEMMA ShownStays ==
  ASSUME config \in Configs, config' = config, NEW i \in 0..Steps, Shown(i),
         roots \subseteq roots', f' = f
  PROVE  Shown(i)'
  BY SameConfig DEF Shown, Near, WithinTol, Crosses, CanFail, Same

LEMMA BisectedBetween ==
  ASSUME NEW l \in Int, NEW h \in Int, l <= h, NEW r \in Bisected(l, h)
  PROVE  l <= r /\ r <= h
  <1>1. CASE WithinTol(l)
    BY <1>1 DEF Bisected
  <1>2. CASE ~WithinTol(l) /\ WithinTol(h)
    BY <1>2 DEF Bisected
  <1>3. CASE ~WithinTol(l) /\ ~WithinTol(h)
    BY <1>3 DEF Bisected
  <1> QED BY <1>1, <1>2, <1>3

\* What there is to show of the sample x, after a step.
LEMMA SampleShown ==
  ASSUME config \in Configs, config' = config,
         NEW n \in 0..Steps, NEW x \in Points, x = n * Step,
         WithinTol(x)' => Near(x, x)',
         n > 0 /\ Crosses(x - Step, x)' /\ ~CanFail(x - Step, x)' => Near(x - Step, x)'
  PROVE  Shown(n)'
  <1>1. Step \in Nat /\ x \in Int
    BY Constants DEF Points
  <1> QED BY <1>1, SameConfig DEF Shown, Same

\* One sample more, with a value.
LEMMA AdvanceKeeps ==
  ASSUME IInv, ShownSoFar, NearZero \/ Bisect \/ PassBy
  PROVE  ShownSoFar'
  <1>0. Same
    BY SameConfig DEF IInv, TypeOK, NearZero, Bisect, PassBy, Advance
  <1> USE <1>0 DEF Same
  <1>1. /\ Advance /\ state = "scanning" /\ next \in 0..Steps /\ next \in Nat
        /\ f' = f /\ next' = next + 1 /\ prev' = X /\ state' = state
        /\ f[X] # Gap /\ roots \subseteq Points
    BY Constants DEF NearZero, Bisect, PassBy, Advance, Sampling, IInv, TypeOK
  <1> PICK n \in 0..Steps : n = next
    BY <1>1
  <1>a. X = n * Step /\ X \in Points
    BY SamplePoint DEF X
  <1> PICK x \in Points : x = X
    BY <1>a
  <1>2. x = n * Step /\ x \in Int /\ n \in Nat /\ Step \in Nat /\ Step > 0
    BY <1>a, Constants DEF Points
  <1>3. (next - 1) * Step = x - Step /\ (next' - 1) * Step = x
    BY <1>1, <1>2, StepBefore
  <1>4. \A r \in roots : r \in Int /\ r <= x
    <2> SUFFICES ASSUME NEW r \in roots PROVE r \in Int /\ r <= x
      OBVIOUS
    <2>1. r \in Int /\ r <= x - Step
      BY <1>1, <1>3 DEF ShownSoFar, Points
    <2> QED BY <1>2, <2>1
  <1>5. prev' # NoSample
    BY <1>1, <1>2, NoSampleAssumption
  <1>6. prev # NoSample => prev = x - Step /\ n > 0 /\ prev \in Points
    BY <1>1, <1>3 DEF IInv, TypeOK, PrevIsLast
  <1>7. n > 0 /\ prev = NoSample => f[x - Step] = Gap
    BY <1>1, <1>3 DEF ShownSoFar
  <1>8. roots \subseteq roots' /\ Shown(n)' /\ \A r \in roots' : r <= x
    <2>1. CASE NearZero
      <3>a. roots' = PushUnique(x)
        BY <2>1 DEF NearZero
      <3>1. roots' = PushUnique(x) /\ x <= x /\ x - Step <= x /\ x - Step \in Int
        BY <1>2, <3>a
      <3>2. Near(x, x)' /\ roots \subseteq roots' /\ \A r \in roots' : r <= x
        BY <1>1, <1>2, <1>4, <3>1, PushShows
      <3>3. Near(x - Step, x)'
        BY <1>1, <1>2, <1>4, <3>1, PushShows
      <3>4. Shown(n)'
        BY <1>2, <3>2, <3>3, SampleShown
      <3> QED BY <3>2, <3>4
    <2>2. CASE Bisect
      <3>1. ~WithinTol(x) /\ prev # NoSample
        BY <2>2 DEF Bisect, Bracketed
      <3> PICK l \in Points : l = prev
        BY <1>6, <3>1
      <3>2. l = x - Step /\ n > 0 /\ l \in Int /\ l <= x
        BY <1>2, <1>6, <3>1
      <3>3. ~WithinTol(x)'
        BY <1>1, <3>1 DEF WithinTol
      <3>4. CASE \E r \in Bisected(prev, X) : roots' = PushUnique(r)
        <4>1. PICK r \in Bisected(prev, X) : roots' = PushUnique(r)
          BY <3>4
        <4>2. r \in Points
          <5>1. Bracketed /\ TypeOK /\ PrevIsLast /\ next <= Steps
            BY <1>1, <2>2 DEF Bisect, Advance, Sampling, IInv
          <5> QED BY <1>1, <4>1, <5>1, AnswerJustified
        <4>3. l <= r /\ r <= x
          BY <1>2, <3>2, <4>1, BisectedBetween
        <4>4. Near(l, x)' /\ roots \subseteq roots' /\ \A s \in roots' : s <= x
          BY <1>1, <1>2, <1>4, <3>2, <4>1, <4>2, <4>3, PushShows
        <4>5. Near(x - Step, x)'
          BY <3>2, <4>4
        <4>6. Shown(n)'
          BY <1>2, <3>3, <4>5, SampleShown
        <4> QED BY <4>4, <4>6
      <3>5. CASE CanFail(prev, X) /\ UNCHANGED roots
        <4>1. CanFail(x - Step, x)'
          BY <1>1, <3>2, <3>5 DEF CanFail
        <4>2. Shown(n)'
          BY <1>2, <3>3, <4>1, SampleShown
        <4> QED BY <1>4, <3>5, <4>2
      <3> QED BY <2>2, <3>4, <3>5 DEF Bisect
    <2>3. CASE PassBy
      <3>1. ~WithinTol(x) /\ ~Bracketed /\ roots' = roots
        BY <2>3 DEF PassBy
      <3>2. n > 0 => ~Crosses(x - Step, x)
        BY <1>6, <1>7, <3>1 DEF Bracketed, Crosses
      <3>3. ~WithinTol(x)' /\ (n > 0 => ~Crosses(x - Step, x)')
        BY <1>1, <3>1, <3>2 DEF WithinTol, Crosses
      <3>4. Shown(n)'
        BY <1>2, <3>3, SampleShown
      <3> QED BY <1>4, <3>1, <3>4
    <2> QED BY <2>1, <2>2, <2>3
  <1>9. \A i \in 0..Steps : i < next' => Shown(i)'
    <2> SUFFICES ASSUME NEW i \in 0..Steps, i < next + 1 PROVE Shown(i)'
      BY <1>1
    <2>1. CASE i = n
      BY <1>8, <2>1
    <2>2. CASE i # n
      <3>1. i < next
        BY <1>1, <2>2
      <3>2. Shown(i)
        BY <1>1, <3>1 DEF ShownSoFar
      <3> QED BY <1>1, <1>8, <3>2, ShownStays
    <2> QED BY <2>1, <2>2
  <1> QED BY <1>1, <1>3, <1>5, <1>8, <1>9 DEF ShownSoFar

LEMMA KeptStep == IInv /\ KeptInv /\ [Next]_vars => KeptInv'
  <1> SUFFICES ASSUME IInv, KeptInv, [Next]_vars PROVE KeptInv'
    OBVIOUS
  <1>0. Same
    BY SameConfig, ConfigFixed DEF IInv, TypeOK
  <1> USE <1>0 DEF Same
  <1>1. CASE NearZero \/ Bisect \/ PassBy
    <2>1. state' = "scanning"
      BY <1>1 DEF NearZero, Bisect, PassBy, Advance, Sampling
    <2> QED BY <1>1, <2>1, AdvanceKeeps DEF KeptInv, NothingShownIsLost
  <1>2. CASE SkipGap
    <2>1. /\ state = "scanning" /\ state' = "scanning" /\ next \in 0..Steps /\ next \in Nat
          /\ next' = next + 1 /\ UNCHANGED <<config, f, roots>> /\ f[X] = Gap /\ next > 0
      BY <1>2, Constants DEF SkipGap, Sampling, IInv, TypeOK
    <2> PICK n \in 0..Steps : n = next
      BY <2>1
    <2>a. X = n * Step /\ X \in Points
      BY SamplePoint DEF X
    <2> PICK x \in Points : x = X
      BY <2>a
    <2>2. x = n * Step /\ x \in Int /\ n \in Nat /\ Step \in Nat
      BY <2>a, Constants DEF Points
    <2>3. (next - 1) * Step = x - Step /\ (next' - 1) * Step = x
      BY <2>1, <2>2, StepBefore
    <2>4. Shown(n)'
      <3>1. ~WithinTol(x)' /\ ~Crosses(x - Step, x)'
        BY <2>1 DEF WithinTol, Crosses
      <3> QED BY <2>2, <3>1, SampleShown
    <2>5. \A i \in 0..Steps : i < next' => Shown(i)'
      <3> SUFFICES ASSUME NEW i \in 0..Steps, i < next + 1 PROVE Shown(i)'
        BY <2>1
      <3>1. CASE i = n
        BY <2>4, <3>1
      <3>2. CASE i # n
        <4>1. i < next
          BY <2>1, <3>2
        <4>2. Shown(i)
          BY <2>1, <4>1 DEF KeptInv, ShownSoFar
        <4> QED BY <2>1, <4>2, ShownStays
      <3> QED BY <3>1, <3>2
    <2>6. \A r \in roots' : r <= (next' - 1) * Step
      <3> SUFFICES ASSUME NEW r \in roots PROVE r <= x
        BY <2>1, <2>3
      <3>1. r \in Int /\ r <= x - Step
        BY <2>1, <2>3 DEF KeptInv, ShownSoFar, IInv, TypeOK, Points
      <3> QED BY <2>2, <3>1
    <2>7. f'[(next' - 1) * Step] = Gap
      BY <2>1, <2>3
    <2> QED BY <2>1, <2>5, <2>6, <2>7 DEF KeptInv, ShownSoFar, NothingShownIsLost
  <1>3. CASE FailFirst
    BY <1>3 DEF FailFirst, KeptInv, ShownSoFar, NothingShownIsLost
  <1>4. CASE Report
    <2>1. /\ state = "scanning" /\ state' = "cutting" /\ next > Steps /\ next \in Nat
          /\ roots' = Reported /\ UNCHANGED <<config, f, samples, zeros>>
      BY <1>4, Constants DEF Report, scan, IInv, TypeOK
    <2>2. CASE Vanishes
      BY <2>1, <2>2 DEF Vanishes, KeptInv, ShownSoFar, NothingShownIsLost
    <2>3. CASE ~Vanishes
      <3>1. roots' = roots
        BY <2>1, <2>3 DEF Reported
      <3>2. \A i \in 0..Steps : i < next
        BY <2>1, Constants
      <3>3. \A i \in 0..Steps : Shown(i)'
        BY <2>1, <3>1, <3>2, ShownStays DEF KeptInv, ShownSoFar
      <3> QED BY <2>1, <3>3 DEF KeptInv, ShownSoFar, NothingShownIsLost
    <2> QED BY <2>2, <2>3
  <1>5. CASE Label \/ Finish \/ UNCHANGED vars
    <2>1. UNCHANGED <<config, f, next, prev, roots, samples, zeros>>
      BY <1>5 DEF Label, Finish, vars, scan
    <2>2. /\ state' = "scanning" => state = "scanning"
          /\ state' \in {"cutting", "done"} => state \in {"cutting", "done"}
      BY <1>5 DEF Label, Finish, vars
    <2>3. \A i \in 0..Steps : Shown(i)' <=> Shown(i)
      BY <2>1 DEF Shown, Near, WithinTol, Crosses, CanFail
    <2>4. Vanishes' <=> Vanishes
      BY <2>1 DEF Vanishes
    <2> QED BY <2>1, <2>2, <2>3, <2>4 DEF KeptInv, ShownSoFar, NothingShownIsLost
  <1> QED BY <1>1, <1>2, <1>3, <1>4, <1>5 DEF Next

\* Every near-zero sample and every sign change the samples show has its root, however
\* roots close to one another are merged (scan_for_roots, push_unique).
THEOREM NoneLost == Spec => []NothingShownIsLost
  <1>1. KeptInv => NothingShownIsLost
    BY DEF KeptInv
  <1> QED BY <1>1, KeptInit, KeptStep, Invariance, PTL DEF Spec

(***************************************************************************)
(* The labels.  Induction is by the least number of a set.                 *)
(***************************************************************************)
LEMMA LeastNumber ==
  ASSUME NEW T, T \subseteq Nat, T # {}
  PROVE  \E x \in T : \A y \in T : x <= y
  <1> DEFINE R == OpToRel(<, Nat)
  <1>1. IsWellFoundedOn(R, Nat)
    BY NatLessThanWellFounded, Zenon
  <1>2. \A x, y \in Nat : x < y => <<x, y>> \in R
    BY SMT DEF OpToRel
  <1> HIDE DEF R
  <1>3. PICK x \in T : \A y \in T : ~ (<<y, x>> \in R)
    BY <1>1, WFMin
  <1>4. \A y \in T : x <= y
    <2> SUFFICES ASSUME NEW y \in T PROVE x <= y
      OBVIOUS
    <2>1. x \in Nat /\ y \in Nat
      OBVIOUS
    <2>2. ~(y < x)
      BY <1>2, <1>3, <2>1
    <2> QED BY <2>1, <2>2
  <1> QED BY <1>3, <1>4

\* A derivative that differs in sign at two points changes it between them.
LEMMA ChangeBetween ==
  ASSUME NEW x \in Points, NEW y \in Points, x < y, ~(f[x] > 0 <=> f[y] > 0)
  PROVE  \E z \in Changes : x < z /\ z <= y
  <1> DEFINE T == {z \in Points : x < z /\ ~(f[z] > 0 <=> f[x] > 0)}
  <1>1. T \subseteq Nat /\ T # {}
    <2>1. \A z \in Points : z \in Nat
      BY DEF Points
    <2> QED BY <2>1
  <1>2. PICK z \in T : \A w \in T : z <= w
    <2> HIDE DEF T
    <2> QED BY <1>1, LeastNumber
  <1>3. /\ z \in Points /\ x < z /\ z <= y /\ ~(f[z] > 0 <=> f[x] > 0)
        /\ z \in Int /\ x \in Int /\ x >= 0 /\ End \in Int /\ z <= End
    BY <1>2, EndPoint DEF Points
  <1>4. z - 1 \in Points /\ x <= z - 1 /\ z # 0
    BY <1>3 DEF Points
  <1>5. z - 1 \notin T
    <2>1. ~(z <= z - 1)
      BY <1>3
    <2> QED BY <1>2, <2>1
  <1>6. f[z - 1] > 0 <=> f[x] > 0
    <2>1. z - 1 = x \/ x < z - 1
      BY <1>3, <1>4
    <2> QED BY <1>4, <1>5, <2>1
  <1>7. z \in Changes
    BY <1>3, <1>4, <1>6 DEF Changes
  <1> QED BY <1>3, <1>7

\* Every point but the first lies between a sample and the next.
LEMMA SampleAbove ==
  ASSUME config \in Configs, NEW z \in Points, z > 0
  PROVE  \E i \in 0..Steps : i > 0 /\ i * Step - Step < z /\ z <= i * Step
  <1> DEFINE T == {i \in 0..Steps : z <= i * Step}
  <1>1. T \subseteq Nat /\ Steps \in T
    BY Constants DEF Points
  <1>2. PICK i \in T : \A j \in T : i <= j
    <2> HIDE DEF T
    <2> QED BY <1>1, LeastNumber
  <1>3. i \in 0..Steps /\ i \in Nat /\ z <= i * Step /\ z \in Int
    BY <1>2, Constants DEF Points
  <1>4. i > 0
    <2>1. i = 0 => i * Step = 0
      BY Constants
    <2> QED BY <1>3, <2>1
  <1>5. i - 1 \in 0..Steps /\ i - 1 \notin T
    BY <1>2, <1>3, <1>4, Constants
  <1>6. ~(z <= i * Step - Step)
    BY <1>3, <1>5, StepBefore
  <1>7. i * Step - Step \in Int
    BY <1>3, StepBefore, Constants
  <1> QED BY <1>3, <1>4, <1>6, <1>7

\* Where the samples resolve the derivative, a sign change has a root from the merging
\* distance and a step before it to less than a step after.
LEMMA ChangeHasRoot ==
  ASSUME IInv, KeptInv, state \in {"cutting", "done"}, Resolved, NEW z \in Changes
  PROVE  \E r \in roots : 2 * r + Merging + 2 * Step >= 2 * z /\ r < z + Step
  <1>c. config \in Configs
    BY DEF IInv, TypeOK
  <1> USE <1>c
  <1>1. /\ z \in Points /\ z \in Int /\ z > 0 /\ z - 1 \in Int
        /\ Step \in Nat /\ Step > 0 /\ Merging \in Nat
    BY Constants DEF Changes, Points
  <1>2. PICK i \in 0..Steps : i > 0 /\ i * Step - Step < z /\ z <= i * Step
    BY <1>1, SampleAbove
  <1> DEFINE h == i * Step
             l == i * Step - Step
  <1>3. /\ i \in Nat /\ h \in Points /\ l \in Points /\ h \in Int /\ l \in Int
        /\ l = (i - 1) * Step /\ i - 1 \in 0..Steps /\ h = l + Step
    <2>1. i \in Nat /\ i - 1 \in 0..Steps
      BY <1>2, Constants
    <2>2. (i - 1) * Step = i * Step - Step
      BY <2>1, StepBefore
    <2>3. h \in Points /\ l \in Points
      BY <2>1, <2>2, SamplePoint
    <2> QED BY <1>1, <2>1, <2>2, <2>3 DEF Points
  <1>4. l < z /\ z <= h
    BY <1>2
  <1>0. Shown(i) /\ Shown(i - 1)
    BY <1>2, <1>3 DEF KeptInv, NothingShownIsLost, Resolved
  <1>5. WithinTol(h) => Near(h, h)
    BY <1>0 DEF Shown
  <1>6. Crosses(l, h) /\ ~CanFail(l, h) => Near(l, h)
    BY <1>0, <1>2 DEF Shown
  <1>7. WithinTol(l) => Near(l, l)
    BY <1>0, <1>3 DEF Shown
  <1> HIDE DEF h, l
  <1>8. \A w \in Changes : w # z => w <= l \/ h < w
    <2> SUFFICES ASSUME NEW w \in Changes, w # z, l < w, w <= h PROVE FALSE
      <3>1. \A w \in Changes : w \in Int
        BY DEF Changes, Points
      <3> QED BY <1>3, <3>1
    <2>1. w \in Int /\ (w < z \/ z < w)
      BY <1>1 DEF Changes, Points
    <2>3. z - w >= Step \/ w - z >= Step
      BY <2>1 DEF Resolved
    <2> QED BY <1>1, <1>3, <1>4, <2>1, <2>3
  <1>9. z - 1 \in Points /\ ~(f[z - 1] > 0 <=> f[z] > 0)
    <2>1. z - 1 \in Points
      BY <1>1, EndPoint DEF Points
    <2> QED BY <2>1 DEF Changes
  <1>10. f[l] > 0 <=> f[z - 1] > 0
    <2>1. CASE l = z - 1
      BY <2>1
    <2>2. CASE l # z - 1
      <3>1. l < z - 1
        BY <1>1, <1>3, <1>4, <2>2
      <3>2. \A w \in Changes : ~(l < w /\ w <= z - 1)
        <4> SUFFICES ASSUME NEW w \in Changes, l < w, w <= z - 1 PROVE FALSE
          OBVIOUS
        <4>1. w \in Int
          BY DEF Changes, Points
        <4> QED BY <1>1, <1>3, <1>4, <1>8, <4>1
      <3> QED BY <1>3, <1>9, <3>1, <3>2, ChangeBetween
    <2> QED BY <2>1, <2>2
  <1>11. f[z] > 0 <=> f[h] > 0
    <2>1. CASE z = h
      BY <2>1
    <2>2. CASE z # h
      <3>1. z < h
        BY <1>1, <1>3, <1>4, <2>2
      <3>2. \A w \in Changes : ~(z < w /\ w <= h)
        <4> SUFFICES ASSUME NEW w \in Changes, z < w, w <= h PROVE FALSE
          OBVIOUS
        <4>1. w \in Int
          BY DEF Changes, Points
        <4> QED BY <1>1, <1>3, <1>4, <1>8, <4>1
      <3> QED BY <1>1, <1>3, <3>1, <3>2, ChangeBetween
    <2> QED BY <2>1, <2>2
  <1>12. /\ f[l] \in Int /\ f[h] \in Int /\ f[l] # Gap /\ f[h] # Gap
         /\ ~(f[l] > 0 <=> f[h] > 0)
    <2>1. f[l] # Gap /\ f[h] # Gap
      BY <1>3 DEF Resolved
    <2> QED BY <1>3, <1>9, <1>10, <1>11, <2>1, Numbers DEF IInv
  <1>13. WithinTol(l) \/ WithinTol(h) \/ Crosses(l, h)
    BY <1>12, Constants DEF WithinTol, Crosses
  <1>14. ~CanFail(l, h)
    <2>1. \A x \in l..h : x \in Points
      BY <1>3, EndPoint DEF Points
    <2> QED BY <2>1 DEF CanFail, Resolved
  <1>15. PICK r \in roots : 2 * r + Merging >= 2 * l /\ r <= h
    <2>1. \A r \in roots : r \in Int
      BY DEF IInv, TypeOK, Points
    <2>2. Near(l, l) \/ Near(h, h) \/ Near(l, h)
      BY <1>5, <1>6, <1>7, <1>13, <1>14
    <2>3. \A r \in roots : /\ r <= l => r <= h
                           /\ 2 * r + Merging >= 2 * h => 2 * r + Merging >= 2 * l
      BY <1>1, <1>3, <2>1
    <2> QED BY <2>2, <2>3 DEF Near
  <1>16. r \in Int
    BY DEF IInv, TypeOK, Points
  <1>17. 2 * r + Merging + 2 * Step >= 2 * z /\ r < z + Step
    BY <1>1, <1>3, <1>4, <1>15, <1>16
  <1> QED BY <1>17

\* A piece is labelled by the sign at its middle.
Labelled ==
  \A p \in pieces : \E m \in Midpoints(p.lo, p.hi) :
    f[m] # Gap /\ (p.increasing <=> f[m] > 0)

LEMMA LabelledInit == Init => Labelled
  BY DEF Init, Labelled

LEMMA LabelledStep == Labelled /\ [Next]_vars => Labelled'
  <1> SUFFICES ASSUME Labelled, [Next]_vars PROVE Labelled'
    OBVIOUS
  <1>1. CASE Label
    <2> PICK h \in bounds :
          \E m \in Midpoints(left, h) :
            pieces' = IF f[m] = Gap THEN pieces ELSE pieces \cup {Piece(left, h, f[m])}
      BY <1>1 DEF Label
    <2>1. PICK m \in Midpoints(left, h) :
            pieces' = IF f[m] = Gap THEN pieces ELSE pieces \cup {Piece(left, h, f[m])}
      OBVIOUS
    <2>2. f' = f
      BY <1>1 DEF Label, scan
    <2> SUFFICES ASSUME NEW p \in pieces'
                 PROVE  \E k \in Midpoints(p.lo, p.hi) : f[k] # Gap /\ (p.increasing <=> f[k] > 0)
      BY <2>2 DEF Labelled, Midpoints
    <2>3. CASE p \in pieces
      BY <2>3 DEF Labelled
    <2>4. CASE p \notin pieces
      <3>1. f[m] # Gap /\ p = Piece(left, h, f[m])
        BY <2>1, <2>4
      <3>2. p.lo = left /\ p.hi = h /\ p.increasing = (f[m] > 0)
        BY <3>1 DEF Piece
      <3>3. m \in Midpoints(p.lo, p.hi)
        BY <3>2
      <3> QED BY <3>1, <3>2, <3>3
    <2> QED BY <2>3, <2>4
  <1>2. CASE ~Label
    <2>1. UNCHANGED <<config, f, pieces>>
      BY <1>2 DEF Next, vars, scan, cut, FailFirst, SkipGap, NearZero, Bisect, PassBy, Advance,
                  Report, Finish
    <2> QED BY <2>1 DEF Labelled, Midpoints
  <1> QED BY <1>1, <1>2

\* The labels of every decomposition are right where the samples resolve the
\* derivative, up to what push_unique merges (split_intervals).
THEOREM LabelsAreRight == Spec => []LabelsRight
  <1>1. IInv /\ KeptInv /\ Labelled => LabelsRight
    <2> SUFFICES ASSUME IInv, KeptInv, Labelled, Resolved,
                        NEW p \in pieces, NEW x \in Inside(p), Against(p, x)
                 PROVE  FALSE
      BY DEF LabelsRight
    <2>1. /\ p.lo \in Points /\ p.hi \in Points /\ p.lo < p.hi
          /\ \A r \in roots : r \in Int /\ (r <= p.lo \/ p.hi <= r)
          /\ p.increasing \in BOOLEAN
      BY DEF IInv, TypeOK, Apiece, Points
    <2>2. state \in {"cutting", "done"}
      BY DEF IInv, TypeOK, CutOrder
    <2>3. PICK m \in Midpoints(p.lo, p.hi) : f[m] # Gap /\ (p.increasing <=> f[m] > 0)
      BY DEF Labelled
    <2>4. /\ p.lo \in Int /\ p.hi \in Int /\ 0 <= p.lo /\ p.hi <= End /\ End \in Int
          /\ Step \in Nat /\ Step > 0 /\ Merging \in Nat /\ Merging >= 3 * Step
          /\ Tol \in Nat
      <3>1. config \in Configs
        BY DEF IInv, TypeOK
      <3> QED BY <2>1, <3>1, EndPoint, Constants DEF Points
    <2>5. /\ m \in Int /\ p.lo + p.hi - 1 <= 2 * m /\ 2 * m <= p.lo + p.hi + 1
          /\ p.lo <= m /\ m <= p.hi /\ m \in Points
      <3>1. m \in Int /\ p.lo + p.hi - 1 <= 2 * m /\ 2 * m <= p.lo + p.hi + 1
        BY <2>4 DEF Midpoints
      <3> QED BY <2>1, <2>4, <3>1 DEF Points
    <2>6. /\ x \in Points /\ x \in Int /\ p.hi - p.lo >= Merging + 2 * Step
          /\ 2 * (x - p.lo) > Merging + 2 * Step /\ p.hi - x >= Step
      BY DEF Inside, Points
    <2>7. f[x] \in Int
      BY <2>6, Numbers DEF IInv, Resolved
    <2>8. ~(f[x] > 0 <=> f[m] > 0)
      BY <2>1, <2>3, <2>4, <2>7 DEF Against
    <2>9. PICK z \in Changes : (x < z /\ z <= m) \/ (m < z /\ z <= x)
      <3>1. CASE x < m
        BY <2>5, <2>6, <2>8, <3>1, ChangeBetween
      <3>2. CASE m < x
        BY <2>5, <2>6, <2>8, <3>2, ChangeBetween
      <3>3. x # m
        BY <2>8
      <3> QED BY <2>5, <2>6, <3>1, <3>2, <3>3
    <2>10. PICK r \in roots : 2 * r + Merging + 2 * Step >= 2 * z /\ r < z + Step
      BY <2>2, <2>9, ChangeHasRoot
    <2>11. z \in Int /\ r \in Int /\ (r <= p.lo \/ p.hi <= r)
      BY <2>1 DEF Changes, Points
    <2>12. CASE x < z /\ z <= m
      BY <2>4, <2>5, <2>6, <2>10, <2>11, <2>12
    <2>13. CASE m < z /\ z <= x
      BY <2>4, <2>5, <2>6, <2>10, <2>11, <2>13
    <2> QED BY <2>9, <2>12, <2>13
  <1> QED
    BY <1>1, KeptInit, KeptStep, LabelledInit, LabelledStep, Invariance, PTL DEF Spec

=============================================================================
