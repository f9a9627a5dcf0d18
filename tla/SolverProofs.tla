---------------------------- MODULE SolverProofs ----------------------------
(***************************************************************************)
(* What holds of every call of the solver dispatch, for every function,    *)
(* every seed, every growth of the window and every budget, if values past *)
(* the tolerance are large enough to be multiplied.                        *)
(***************************************************************************)
EXTENDS Solver, TLAPS

\* A call begins at its seed.
StartHolds == phase = "start" => a = seed /\ b = seed /\ turn = 0

\* While the window grows it is ordered, and the values at its ends are remembered.
WindowHolds ==
  phase \in {"low", "high"} =>
    /\ method \in {"bisection", "brent"}
    /\ a \in Points /\ b \in Points /\ a <= b
    /\ fa = f[a] /\ fb = f[b] /\ f[a] \in Values /\ f[b] \in Values
    /\ turn \in 0..MaxExpansions
    /\ phase = "high" => turn < MaxExpansions

\* Every loop is its method's own, and its points have values.
LoopHolds ==
  phase \in Methods =>
    /\ phase = method /\ a \in Points /\ turn \in 0..MaxIterations
    /\ phase # "newton" =>
         b \in Points /\ f[a] \in Values /\ f[b] \in Values /\ fa = f[a]
    /\ phase = "secant" => fb = f[b]

\* The inductive invariant.
IInv == TypeOK /\ StartHolds /\ WindowHolds /\ LoopHolds /\ BracketHolds

Numbers == Values \subseteq Int /\ Tol \in Nat

LEMMA AllNumbers == Numbers
  BY ValuesAssumption, LimitsAssumption DEF Numbers

\* Every expansion goes further.
LEMMA StepGrows ==
  ASSUME NEW k \in Nat, k < MaxExpansions
  PROVE  StepLength(k + 1) \in Nat \ {0}
  <1>1. MaxExpansions \in Nat
    BY LimitsAssumption
  <1>2. k + 1 \in 1..MaxExpansions /\ (k + 1) - 1 = k
        /\ k \in 0..MaxExpansions /\ k + 1 \in 0..MaxExpansions
    BY <1>1
  <1>3. Reach[k] \in Nat /\ Reach[k + 1] \in Nat
    BY <1>2, LimitsAssumption
  <1>4. Reach[(k + 1) - 1] < Reach[k + 1]
    BY <1>2, LimitsAssumption
  <1> QED BY <1>2, <1>3, <1>4 DEF StepLength

\* A function of the model has a finite value wherever it is defined.
LEMMA ValueOfDefined ==
  ASSUME TypeOK, NEW x, Defined(x)
  PROVE  x \in Points /\ Sample(x) = f[x] /\ f[x] \in Values
  BY DEF TypeOK, Defined, Sample

\* What a product does not tell apart: signs that differ, or an underflow.
LEMMA NotOpposite ==
  ASSUME NEW x \in Points, NEW y \in Points, Crosses(x, y), ~Misleading
  PROVE  Opposite(f[x], f[y])
  BY DEF Misleading, Crosses, Opposite

\* Half of a bracket, as bisection keeps it.
LEMMA HalfCrosses ==
  ASSUME NEW x \in Points, NEW y \in Points, NEW m \in Points,
         f[m] \in Values, f[m] # 0, Crosses(x, y), ~Misleading
  PROVE  IF Opposite(f[x], f[m]) THEN Crosses(x, m) ELSE Crosses(m, y)
  <1>1. f[x] \in Int /\ f[y] \in Int /\ f[m] \in Int
    BY AllNumbers DEF Numbers, Crosses
  <1>2. Opposite(f[x], f[m]) => Crosses(x, m)
    BY DEF Opposite, Crosses
  <1>3. ~Opposite(f[x], f[m]) => ~Crosses(x, m)
    BY NotOpposite
  <1> QED BY <1>1, <1>2, <1>3 DEF Crosses

\* Part of a bracket, as Brent keeps it: the new point is within tolerance, or the
\* product decides rightly.
LEMMA PartCrosses ==
  ASSUME NEW x \in Points, NEW y \in Points, NEW s \in Points,
         f[s] \in Values, Crosses(x, y), ~WithinTol(f[x]), ~WithinTol(f[s])
  PROVE  IF Opposite(f[x], f[s]) THEN Crosses(x, s) ELSE Crosses(s, y)
  <1>1. f[x] \in Int /\ f[y] \in Int /\ f[s] \in Int /\ f[x] \in Values
    BY AllNumbers DEF Numbers, Crosses
  <1>2. f[s] # 0
    BY <1>1, AllNumbers DEF WithinTol, Magnitude, Numbers
  <1>3. <<f[x], f[s]>> \notin Vanishing
    BY <1>1, ToleranceAssumption
  <1> QED BY <1>1, <1>2, <1>3 DEF Crosses, Opposite

\* If the better of two values is not within tolerance, neither is the other.
LEMMA BothOutside ==
  ASSUME NEW v \in Values, NEW w \in Values, ~WithinTol(w), Magnitude(w) <= Magnitude(v)
  PROVE  ~WithinTol(v)
  BY AllNumbers DEF WithinTol, Magnitude, Numbers

LEMMA CrossesCommutes == \A x, y : Crosses(x, y) <=> Crosses(y, x)
  BY DEF Crosses

\* Ranking exchanges two points with their values, or leaves them.
LEMMA Ranked ==
  ASSUME NEW x \in Points, NEW y \in Points, f[x] \in Values, f[y] \in Values,
         Rank(x, f[x], y, f[y]), UNCHANGED f
  PROVE  /\ a' \in Points /\ b' \in Points
         /\ fa' = f'[a'] /\ fb' = f'[b']
         /\ {a', b'} = {x, y}
         /\ (a' = x /\ b' = y) \/ (a' = y /\ b' = x)
         /\ Magnitude(fb') <= Magnitude(fa')
  <1>1. f[x] \in Int /\ f[y] \in Int
    BY AllNumbers DEF Numbers
  <1> QED BY <1>1 DEF Rank, Magnitude
LEMMA InitInv == Init => IInv
  <1> SUFFICES ASSUME Init PROVE IInv
    OBVIOUS
  <1>1. PICK q \in Calls : method = q.method /\ seed = q.seed
    BY DEF Init
  <1>2. method \in Methods /\ seed \in Points \cup {Infinite}
    BY <1>1, CallsAssumption
  <1>3. f \in [Points -> Values \cup {Undefined}]
    BY FunctionsAssumption DEF Init
  <1>4. turn \in 0..MaxIterations
    BY LimitsAssumption DEF Init
  <1> QED
    BY <1>2, <1>3, <1>4, PointsAssumption
    DEF Init, IInv, TypeOK, StartHolds, WindowHolds, LoopHolds, BracketHolds, Methods

\* Of a call that has its answer, only the types are left to prove.
LEMMA Answered ==
  ASSUME TypeOK', phase' \in {"ok", "err"}
  PROVE  IInv'
  BY DEF IInv, StartHolds, WindowHolds, LoopHolds, BracketHolds, Methods

\* The loops of bisect and brent start with the bracket they are given.
LEMMA Opened ==
  ASSUME IInv, NEW l \in Points, NEW h \in Points, l <= h, Crosses(l, h),
         method \in {"bisection", "brent"}, Open(l, f[l], h, f[h]),
         UNCHANGED call, lowAlive' \in BOOLEAN, highAlive' \in BOOLEAN
  PROVE  IInv'
  <1> USE DEF call, Open, To, answer, window, brents
  <1>1. f[l] \in Values /\ f[h] \in Values /\ UNCHANGED <<f, method, seed, how, root>>
    BY DEF Crosses
  <1>2. turn' = 0 /\ turn' \in 0..MaxIterations /\ phase' = method
    BY LimitsAssumption
  <1>3. CASE method = "bisection"
    <2>1. a' = l /\ fa' = f[l] /\ b' = h /\ fb' = f[h] /\ UNCHANGED <<c, d, halved>>
      BY <1>3
    <2>2. Crosses(a, b)'
      BY <1>1, <2>1 DEF Crosses
    <2> QED
      BY <1>1, <1>2, <1>3, <2>1, <2>2, PointsAssumption
      DEF IInv, TypeOK, StartHolds, WindowHolds, LoopHolds, BracketHolds, Methods
  <1>4. CASE method = "brent"
    <2>1. Rank(l, f[l], h, f[h]) /\ c' = a' /\ d' = a' /\ halved' = TRUE
      BY <1>4
    <2>2. /\ a' \in Points /\ b' \in Points
          /\ fa' = f'[a'] /\ fb' = f'[b'] /\ Magnitude(fb') <= Magnitude(fa')
          /\ (a' = l /\ b' = h) \/ (a' = h /\ b' = l)
      BY <1>1, <2>1, Ranked
    <2>3. Crosses(a, b)'
      BY <1>1, <2>2 DEF Crosses
    <2>4. fa' \in Values /\ fb' \in Values
      BY <1>1, <2>2
    <2> QED
      BY <1>1, <1>2, <1>4, <2>1, <2>2, <2>3, <2>4, PointsAssumption
      DEF IInv, TypeOK, StartHolds, WindowHolds, LoopHolds, BracketHolds, Methods
  <1> QED BY <1>3, <1>4

\* One case per action; first the prologue and the growth of the window.
LEMMA WindowInv ==
  ASSUME IInv, RejectSeed \/ StartWindow \/ ExpandLow \/ ExpandHigh \/ NoBracket
  PROVE  IInv'
  <1> USE DEF call, window, brents, alive, answer, Ok, Err, To
  <1>1. CASE RejectSeed
    <2>1. TypeOK' /\ phase' \in {"ok", "err"}
      BY <1>1 DEF RejectSeed, Starting, IInv, TypeOK
    <2> QED BY <2>1, Answered
  <1>2. CASE StartWindow
    <2> USE <1>2 DEF StartWindow, Starting
    <2>1. a = seed /\ b = seed /\ seed \in Points /\ UNCHANGED <<a, b>>
      BY DEF IInv, TypeOK, StartHolds
    <2>2. CASE ~Defined(seed)
      <3>1. TypeOK' /\ phase' \in {"ok", "err"}
        BY <2>2 DEF IInv, TypeOK
      <3> QED BY <3>1, Answered
    <2>3. CASE Defined(seed)
      <3>1. f[seed] \in Values /\ fa' = f[seed] /\ fb' = f[seed]
        BY <2>3, ValueOfDefined DEF IInv
      <3>2. phase' \in {"ok", "low"} /\ TypeOK'
        BY <2>1, <2>3, <3>1 DEF IInv, TypeOK
      <3>3. CASE phase' = "ok"
        BY <3>2, <3>3, Answered
      <3>4. CASE phase' = "low"
        <4>1. turn \in 0..MaxExpansions
          BY LimitsAssumption DEF IInv, StartHolds
        <4> QED
          BY <2>1, <3>1, <3>2, <3>4, <4>1, PointsAssumption
          DEF IInv, TypeOK, StartHolds, WindowHolds, LoopHolds, BracketHolds, Methods
      <3> QED BY <3>2, <3>3, <3>4
    <2> QED BY <2>2, <2>3
  <1>3. CASE ExpandLow
    <2> DEFINE next == a - StepLength(turn + 1)
    <2> USE <1>3 DEF ExpandLow, Expanding
    <2>1. /\ method \in {"bisection", "brent"} /\ a \in Points /\ b \in Points /\ a <= b
          /\ fa = f[a] /\ fb = f[b] /\ f[a] \in Values /\ f[b] \in Values
          /\ turn \in 0..MaxExpansions
      BY DEF IInv, WindowHolds
    <2>2. StepLength(turn + 1) \in Nat \ {0} /\ next <= a /\ a \in Int
      BY <2>1, StepGrows, PointsAssumption
    <2>3. CASE ~lowAlive \/ ~Defined(next)
      <3>1. TypeOK' /\ WindowHolds' /\ phase' = "high"
        BY <2>1, <2>3 DEF IInv, TypeOK, WindowHolds
      <3> QED BY <3>1 DEF IInv, StartHolds, LoopHolds, BracketHolds, Methods
    <2>4. CASE lowAlive /\ Defined(next)
      <3> HIDE DEF next
      <3>1. next \in Points /\ f[next] \in Values
        BY <2>4, ValueOfDefined DEF IInv
      <3>2. CASE f[next] = 0
        <4>1. TypeOK' /\ phase' \in {"ok", "err"}
          BY <2>4, <3>1, <3>2 DEF IInv, TypeOK, next
        <4> QED BY <4>1, Answered
      <3>3. CASE f[next] # 0 /\ Opposite(f[next], fa)
        <4>1. Open(next, f[next], a, f[a]) /\ Crosses(next, a)
          BY <2>1, <2>4, <3>1, <3>3 DEF Opposite, Crosses, next
        <4>2. UNCHANGED <<f, method, seed>> /\ lowAlive' \in BOOLEAN /\ highAlive' \in BOOLEAN
          BY <2>4 DEF IInv, TypeOK, next
        <4> QED BY <2>1, <2>2, <3>1, <4>1, <4>2, Opened
      <3>4. CASE f[next] # 0 /\ ~Opposite(f[next], fa)
        <4>1. a' = next /\ fa' = f[next] /\ phase' = "high"
              /\ UNCHANGED <<call, b, fb, brents, turn, alive, answer>>
          BY <2>4, <3>4 DEF next
        <4>2. next <= b
          BY <2>1, <2>2, <3>1, PointsAssumption
        <4>3. TypeOK' /\ WindowHolds'
          BY <2>1, <3>1, <4>1, <4>2 DEF IInv, TypeOK, WindowHolds
        <4> QED BY <4>1, <4>3 DEF IInv, StartHolds, LoopHolds, BracketHolds, Methods
      <3> QED BY <3>2, <3>3, <3>4
    <2> QED BY <2>3, <2>4
  <1>4. CASE ExpandHigh
    <2> DEFINE next == b + StepLength(turn + 1)
    <2> USE <1>4 DEF ExpandHigh
    <2>1. /\ method \in {"bisection", "brent"} /\ a \in Points /\ b \in Points /\ a <= b
          /\ fa = f[a] /\ fb = f[b] /\ f[a] \in Values /\ f[b] \in Values
          /\ turn \in 0..MaxExpansions /\ turn < MaxExpansions
      BY DEF IInv, WindowHolds
    <2>2. /\ StepLength(turn + 1) \in Nat \ {0} /\ b <= next /\ b \in Int
          /\ turn + 1 \in 0..MaxExpansions
      BY <2>1, StepGrows, LimitsAssumption, PointsAssumption
    <2>3. CASE ~highAlive \/ ~Defined(next)
      <3>1. TypeOK' /\ WindowHolds' /\ phase' = "low"
        BY <2>1, <2>2, <2>3 DEF IInv, TypeOK, WindowHolds
      <3> QED BY <3>1 DEF IInv, StartHolds, LoopHolds, BracketHolds, Methods
    <2>4. CASE highAlive /\ Defined(next)
      <3> HIDE DEF next
      <3>1. next \in Points /\ f[next] \in Values
        BY <2>4, ValueOfDefined DEF IInv
      <3>2. CASE f[next] = 0
        <4>1. TypeOK' /\ phase' \in {"ok", "err"}
          BY <2>4, <3>1, <3>2 DEF IInv, TypeOK, next
        <4> QED BY <4>1, Answered
      <3>3. CASE f[next] # 0 /\ Opposite(fb, f[next])
        <4>1. Open(b, f[b], next, f[next]) /\ Crosses(b, next)
          BY <2>1, <2>4, <3>1, <3>3 DEF Opposite, Crosses, next
        <4>2. UNCHANGED <<f, method, seed>> /\ lowAlive' \in BOOLEAN /\ highAlive' \in BOOLEAN
          BY <2>4 DEF IInv, TypeOK, next
        <4> QED BY <2>1, <2>2, <3>1, <4>1, <4>2, Opened
      <3>4. CASE f[next] # 0 /\ ~Opposite(fb, f[next])
        <4>1. b' = next /\ fb' = f[next] /\ phase' = "low" /\ turn' = turn + 1
              /\ UNCHANGED <<call, a, fa, brents, alive, answer>>
          BY <2>4, <3>4 DEF next
        <4>2. a <= next
          BY <2>1, <2>2, <3>1, PointsAssumption
        <4>3. TypeOK' /\ WindowHolds'
          BY <2>1, <2>2, <3>1, <4>1, <4>2, PointsAssumption DEF IInv, TypeOK, WindowHolds
        <4> QED BY <4>1, <4>3 DEF IInv, StartHolds, LoopHolds, BracketHolds, Methods
      <3> QED BY <3>2, <3>3, <3>4
    <2> QED BY <2>3, <2>4
  <1>5. CASE NoBracket
    <2>1. TypeOK' /\ phase' \in {"ok", "err"}
      BY <1>5 DEF NoBracket, IInv, TypeOK
    <2> QED BY <2>1, Answered
  <1> QED BY <1>1, <1>2, <1>3, <1>4, <1>5

LEMMA LoopInv ==
  ASSUME IInv,
         \/ BisectTurn \/ BisectEnds \/ BrentReturns \/ BrentTurn \/ BrentEnds
         \/ StartNewton \/ NewtonTurn \/ StartSecant \/ SecantTurn \/ OpenMethodEnds
  PROVE  IInv'
  <1> USE DEF call, window, brents, alive, answer, Ok, Err, To
  <1>0. ASSUME NEW m \in Methods, Turn(m)
        PROVE  turn' \in 0..MaxIterations /\ phase = m /\ UNCHANGED <<call, alive>>
    BY <1>0, LimitsAssumption DEF Turn, IInv, LoopHolds
  <1>1. CASE BisectTurn
    <2> USE <1>1 DEF BisectTurn
    <2>1. /\ turn' \in 0..MaxIterations
          /\ phase = "bisection" /\ UNCHANGED <<call, alive, brents>>
      BY <1>0 DEF Methods
    <2>2. /\ a \in Points /\ b \in Points /\ a <= b /\ fa = f[a]
          /\ f[a] \in Values /\ f[b] \in Values
          /\ Crosses(a, b) \/ Misleading
      BY <2>1 DEF IInv, LoopHolds, BracketHolds, Methods
    <2>3. PICK mid \in Midpoints(a, b) :
            IF ~Defined(mid) THEN Err /\ UNCHANGED window
            ELSE IF f[mid] = 0 THEN Ok(mid, "residual") /\ UNCHANGED window
            ELSE IF Close(a, b) THEN Ok(mid, "bracket") /\ UNCHANGED window
            ELSE /\ To("bisection")
                 /\ IF Opposite(fa, f[mid])
                      THEN b' = mid /\ UNCHANGED <<a, fa, fb>>
                      ELSE a' = mid /\ fa' = f[mid] /\ UNCHANGED <<b, fb>>
      OBVIOUS
    <2>4. mid \in Points /\ a <= mid /\ mid <= b
      BY <2>2, PointsAssumption DEF Midpoints
    <2>5. CASE UNCHANGED window
      <3>1. TypeOK' /\ (phase' \in {"ok", "err"} \/ phase' = "bisection")
        BY <2>1, <2>3, <2>4, <2>5 DEF IInv, TypeOK, Methods
      <3>2. CASE phase' \in {"ok", "err"}
        BY <3>1, <3>2, Answered
      <3>3. CASE phase' = "bisection"
        BY <2>1, <2>2, <2>5, <3>1, <3>3
        DEF IInv, StartHolds, WindowHolds, LoopHolds, BracketHolds, Crosses, Misleading, Methods
      <3> QED BY <3>1, <3>2, <3>3
    <2>6. CASE ~UNCHANGED window
      <3>1. /\ Defined(mid) /\ f[mid] # 0 /\ To("bisection")
            /\ IF Opposite(fa, f[mid])
                 THEN b' = mid /\ UNCHANGED <<a, fa, fb>>
                 ELSE a' = mid /\ fa' = f[mid] /\ UNCHANGED <<b, fb>>
        BY <2>3, <2>6
      <3>2. f[mid] \in Values
        BY <3>1, ValueOfDefined DEF IInv
      <3>3. /\ a' \in Points /\ b' \in Points /\ a' <= b' /\ fa' = f'[a']
            /\ f'[a'] \in Values /\ f'[b'] \in Values
        BY <2>1, <2>2, <2>4, <3>1, <3>2
      <3>4. (Crosses(a, b) \/ Misleading)'
        <4>1. CASE Misleading
          BY <2>1, <4>1 DEF Misleading, Crosses
        <4>2. CASE ~Misleading
          <5>1. Crosses(a, b) /\ (IF Opposite(f[a], f[mid]) THEN Crosses(a, mid) ELSE Crosses(mid, b))
            BY <2>2, <2>4, <3>1, <3>2, <4>2, HalfCrosses
          <5> QED BY <2>1, <2>2, <3>1, <5>1 DEF Crosses
        <4> QED BY <4>1, <4>2
      <3>5. TypeOK'
        BY <2>1, <3>1, <3>3, PointsAssumption DEF IInv, TypeOK, Methods
      <3> QED
        BY <2>1, <3>1, <3>3, <3>4, <3>5
        DEF IInv, StartHolds, WindowHolds, LoopHolds, BracketHolds, Methods
    <2> QED BY <2>5, <2>6
  <1>2. CASE BisectEnds
    <2>1. TypeOK' /\ phase' \in {"ok", "err"}
      BY <1>2 DEF BisectEnds, OutOfTurns, ConvergedOrErr, Midpoints, IInv, TypeOK
    <2> QED BY <2>1, Answered
  <1>3. CASE BrentReturns
    <2>1. turn' \in 0..MaxIterations /\ UNCHANGED <<call, alive>> /\ phase = "brent"
      BY <1>0, <1>3 DEF BrentReturns, Methods
    <2>2. b \in Points
      BY <2>1 DEF IInv, LoopHolds, Methods
    <2>3. TypeOK' /\ phase' \in {"ok", "err"}
      BY <1>3, <2>1, <2>2 DEF BrentReturns, IInv, TypeOK
    <2> QED BY <2>3, Answered
  <1>4. CASE BrentTurn
    <2> USE <1>4 DEF BrentTurn
    <2>1. turn' \in 0..MaxIterations /\ UNCHANGED <<call, alive>> /\ phase = "brent"
      BY <1>0 DEF Methods
    <2>2. /\ a \in Points /\ b \in Points /\ fa = f[a] /\ fb = f[b]
          /\ f[a] \in Values /\ f[b] \in Values /\ method = "brent"
          /\ Magnitude(fb) <= Magnitude(fa) /\ Crosses(a, b) /\ ~WithinTol(fb)
      BY <2>1 DEF IInv, LoopHolds, BracketHolds, OnRoot, Methods
    <2>3. PICK s \in Interpolated \cup Midpoints(a, b) :
            /\ halved' \in BOOLEAN
            /\ IF ~Defined(s) THEN Err /\ UNCHANGED <<window, c, d>>
               ELSE To("brent") /\ d' = c /\ c' = b /\ Replace(s)
      OBVIOUS
    <2>4. s \in Points
      BY DEF Interpolated, Midpoints
    <2>5. CASE ~Defined(s)
      <3>1. TypeOK' /\ phase' \in {"ok", "err"}
        BY <2>1, <2>3, <2>5 DEF IInv, TypeOK
      <3> QED BY <3>1, Answered
    <2>6. CASE Defined(s)
      <3>1. /\ To("brent") /\ d' = c /\ c' = b /\ Replace(s)
            /\ f[s] \in Values
        BY <2>3, <2>6, ValueOfDefined DEF IInv
      <3>2. ~WithinTol(f[a])
        BY <2>2, BothOutside
      <3>3. /\ a' \in Points /\ b' \in Points /\ fa' = f'[a'] /\ fb' = f'[b']
            /\ Magnitude(fb') <= Magnitude(fa')
            /\ IF Opposite(f[a], f[s]) THEN {a', b'} = {a, s} ELSE {a', b'} = {s, b}
        BY <2>1, <2>2, <2>4, <3>1, Ranked DEF Replace
      <3>4. (Crosses(a, b) \/ OnRoot)'
        <4>1. CASE WithinTol(f[s])
          <5>1. s \in {a', b'} /\ f'[s] = f[s] /\ f[s] \in Int /\ UNCHANGED f
            BY <2>1, <3>1, <3>3, AllNumbers DEF Numbers
          <5>2. Magnitude(fb') <= Magnitude(f[s])
            BY <3>3, <5>1 DEF Magnitude
          <5>3. fb' \in Int
            BY <2>2, <3>1, <3>3, <5>1, AllNumbers DEF Numbers
          <5>4. WithinTol(fb')
            BY <4>1, <5>1, <5>2, <5>3, AllNumbers DEF WithinTol, Magnitude, Numbers
          <5> QED BY <3>1, <5>4 DEF OnRoot, WithinTol, Magnitude
        <4>2. CASE ~WithinTol(f[s])
          <5>1. IF Opposite(f[a], f[s]) THEN Crosses(a, s) ELSE Crosses(s, b)
            BY <2>2, <2>4, <3>1, <3>2, <4>2, PartCrosses
          <5>2. Crosses(a', b')
            BY <3>3, <5>1, CrossesCommutes
          <5> QED BY <2>1, <5>2 DEF Crosses
        <4> QED BY <4>1, <4>2
      <3>5. f'[a'] \in Values /\ f'[b'] \in Values
        BY <2>1, <2>2, <3>1, <3>3
      <3>6. TypeOK'
        BY <2>1, <2>2, <2>3, <3>1, <3>3, <3>5, PointsAssumption DEF IInv, TypeOK, Methods
      <3> QED
        BY <2>1, <2>2, <3>1, <3>3, <3>4, <3>5, <3>6
        DEF IInv, StartHolds, WindowHolds, LoopHolds, BracketHolds, Methods
    <2> QED BY <2>5, <2>6
  <1>5. CASE BrentEnds
    <2>1. b \in Points
      BY <1>5 DEF BrentEnds, OutOfTurns, IInv, LoopHolds, Methods
    <2>2. TypeOK' /\ phase' \in {"ok", "err"}
      BY <1>5, <2>1 DEF BrentEnds, OutOfTurns, ConvergedOrErr, IInv, TypeOK
    <2> QED BY <2>2, Answered
  <1>6. CASE StartNewton
    <2>1. a = seed /\ seed \in Points /\ method = "newton" /\ turn = 0 /\ phase' = "newton"
      BY <1>6 DEF StartNewton, Starting, IInv, TypeOK, StartHolds
    <2>2. turn \in 0..MaxIterations /\ TypeOK'
      BY <1>6, <2>1, LimitsAssumption DEF StartNewton, Starting, IInv, TypeOK, Methods
    <2> QED
      BY <1>6, <2>1, <2>2
      DEF StartNewton, Starting, IInv, StartHolds, WindowHolds, LoopHolds, BracketHolds
  <1>7. CASE NewtonTurn
    <2> USE <1>7 DEF NewtonTurn
    <2>1. /\ turn' \in 0..MaxIterations /\ UNCHANGED <<call, alive, b, fa, fb, brents>>
          /\ phase = "newton"
      BY <1>0 DEF Methods
    <2>2. a \in Points /\ method = "newton"
      BY <2>1 DEF IInv, LoopHolds, Methods
    <2>3. a' \in Points /\ phase' \in {"ok", "err", "newton"} /\ TypeOK'
      BY <2>1, <2>2 DEF IInv, TypeOK, Methods
    <2>4. CASE phase' = "newton"
      BY <2>1, <2>2, <2>3, <2>4
      DEF IInv, StartHolds, WindowHolds, LoopHolds, BracketHolds
    <2> QED BY <2>3, <2>4, Answered
  <1>8. CASE StartSecant
    <2> USE <1>8 DEF StartSecant, Starting
    <2>1. a = seed /\ seed \in Points /\ method = "secant" /\ turn = 0 /\ a' = a
      BY DEF IInv, TypeOK, StartHolds
    <2>2. b' \in Int /\ turn \in 0..MaxIterations
      BY <2>1, PointsAssumption, LimitsAssumption
    <2>3. CASE Defined(a) /\ Defined(b')
      <3>1. f[a] \in Values /\ f[b'] \in Values /\ b' \in Points
            /\ fa' = f[a] /\ fb' = f[b'] /\ phase' = "secant"
        BY <2>3, ValueOfDefined DEF IInv
      <3>2. TypeOK'
        BY <2>1, <2>2, <2>3, <3>1 DEF IInv, TypeOK, Methods
      <3> QED
        BY <2>1, <2>2, <2>3, <3>1, <3>2
        DEF IInv, StartHolds, WindowHolds, LoopHolds, BracketHolds
    <2>4. CASE ~(Defined(a) /\ Defined(b'))
      <3>1. TypeOK' /\ phase' \in {"ok", "err"}
        BY <2>1, <2>2, <2>4 DEF IInv, TypeOK
      <3> QED BY <3>1, Answered
    <2> QED BY <2>3, <2>4
  <1>9. CASE SecantTurn
    <2> USE <1>9 DEF SecantTurn
    <2>1. turn' \in 0..MaxIterations /\ UNCHANGED <<call, alive, brents>> /\ phase = "secant"
      BY <1>0 DEF Methods
    <2>2. /\ a \in Points /\ b \in Points /\ fa = f[a] /\ fb = f[b]
          /\ f[a] \in Values /\ f[b] \in Values /\ method = "secant"
      BY <2>1 DEF IInv, LoopHolds, Methods
    <2>3. CASE UNCHANGED window
      <3>1. phase' \in {"ok", "err", "secant"} /\ TypeOK'
        BY <2>1, <2>2, <2>3 DEF IInv, TypeOK, Methods
      <3>2. CASE phase' = "secant"
        BY <2>1, <2>2, <2>3, <3>1, <3>2
        DEF IInv, StartHolds, WindowHolds, LoopHolds, BracketHolds
      <3> QED BY <3>1, <3>2, Answered
    <2>4. CASE ~UNCHANGED window
      <3>1. PICK next \in Points :
              /\ a' = b /\ fa' = fb /\ b' = next
              /\ IF Defined(next) THEN fb' = f[next] /\ To("secant")
                 ELSE Err /\ UNCHANGED fb
        BY <2>4
      <3>2. CASE Defined(next)
        <4>1. f[next] \in Values /\ fb' = f[next] /\ phase' = "secant"
          BY <3>1, <3>2, ValueOfDefined DEF IInv
        <4>2. TypeOK'
          BY <2>1, <2>2, <3>1, <3>2, <4>1, PointsAssumption DEF IInv, TypeOK, Methods
        <4> QED
          BY <2>1, <2>2, <3>1, <4>1, <4>2
          DEF IInv, StartHolds, WindowHolds, LoopHolds, BracketHolds
      <3>3. CASE ~Defined(next)
        <4>1. TypeOK' /\ phase' \in {"ok", "err"}
          BY <2>1, <2>2, <3>1, <3>3, PointsAssumption DEF IInv, TypeOK
        <4> QED BY <4>1, Answered
      <3> QED BY <3>2, <3>3
    <2> QED BY <2>3, <2>4
  <1>10. CASE OpenMethodEnds
    <2>1. TypeOK' /\ phase' \in {"ok", "err"}
      BY <1>10 DEF OpenMethodEnds, OutOfTurns, IInv, TypeOK
    <2> QED BY <2>1, Answered
  <1> QED BY <1>1, <1>2, <1>3, <1>4, <1>5, <1>6, <1>7, <1>8, <1>9, <1>10

LEMMA StepInv == IInv /\ [Next]_vars => IInv'
  <1>1. ASSUME IInv, UNCHANGED vars PROVE IInv'
    <2> USE <1>1 DEF vars, call, window, brents, alive, answer, IInv
    <2>1. TypeOK'
      BY DEF TypeOK
    <2>2. StartHolds' /\ WindowHolds' /\ LoopHolds'
      BY DEF StartHolds, WindowHolds, LoopHolds
    <2>3. BracketHolds'
      BY DEF BracketHolds, Crosses, Misleading, OnRoot, WithinTol, Magnitude
    <2> QED BY <2>1, <2>2, <2>3
  <1> QED BY <1>1, WindowInv, LoopInv DEF Next

\* Every reachable state satisfies the inductive invariant.
THEOREM Invariance == Spec => []IInv
  BY InitInv, StepInv, PTL DEF Spec

\* The variables keep their types, for every function, seed and budget.
THEOREM TypeCorrect == Spec => []TypeOK
  <1>1. IInv => TypeOK
    BY DEF IInv
  <1> QED BY <1>1, Invariance, PTL

\* Neither bisection nor Brent's method, through its exchanges of ends, loses the
\* sign change that the growth of the window found, or forgets on which side it is.
THEOREM BracketNeverLost == Spec => []BracketHolds
  <1>1. IInv => BracketHolds
    BY DEF IInv
  <1> QED BY <1>1, Invariance, PTL

LEMMA SignsOfFactors ==
  \A p, q \in Int : p * q < 0 => (p < 0 /\ q > 0) \/ (p > 0 /\ q < 0)
  OBVIOUS

\* Wherever Brent goes, it stays between the ends of its bracket.
LEMMA StaysBetween ==
  ASSUME a \in Points, b \in Points, NEW s \in Interpolated \cup Midpoints(a, b)
  PROVE  s \in Points /\ Low <= s /\ s <= High
  <1>1. a \in Int /\ b \in Int /\ s \in Int /\ s \in Points
    BY PointsAssumption DEF Interpolated, Midpoints
  <1>2. CASE s \in Midpoints(a, b)
    BY <1>1, <1>2 DEF Midpoints, Low, High
  <1>3. CASE s \in Interpolated
    <2> DEFINE p == 4 * s - (3 * a + b)
               q == s - b
    <2>1. p \in Int /\ q \in Int /\ p * q < 0
      BY <1>1, <1>3 DEF Interpolated
    <2>2. (p < 0 /\ q > 0) \/ (p > 0 /\ q < 0)
      <3> HIDE DEF p, q
      <3> QED BY <2>1, SignsOfFactors
    <2>3. (s <= a /\ s >= b) \/ (s >= a /\ s <= b)
      BY <1>1, <2>2
    <2> QED BY <1>1, <2>3 DEF Low, High
  <1> QED BY <1>2, <1>3

LEMMA WithinTolAbstract ==
  ASSUME NEW x \in Points, f[x] \in Values, WithinTol(f[x])
  PROVE  Abstract!WithinTol(x)
  <1>1. \A v \in Values : WithinTol(v) => -Tol <= v /\ v <= Tol
    BY AllNumbers DEF WithinTol, Magnitude, Numbers
  <1> QED BY <1>1 DEF Abstract!WithinTol

\* The three ways a search that has no bracket goes on: it looks, it finds a point
\* within tolerance, or it ends with an answer that claims nothing.
LEMMA LookStep ==
  ASSUME SearchState = "given", SearchState' = "given", UNCHANGED <<f, answer>>
  PROVE  Abstract!Next
  <1>1. phase \notin {"ok", "err"} /\ ~OnRoot /\ phase' \notin {"ok", "err"} /\ ~OnRoot'
    BY DEF SearchState
  <1> QED BY <1>1 DEF answer, Abstract!Look, Abstract!Next

LEMMA FoundStep ==
  ASSUME SearchState = "given", phase' = "ok", how' = "residual", UNCHANGED f,
         root' \in Points, f[root'] \in Values, WithinTol(f[root'])
  PROVE  Abstract!Next
  <1>1. SearchState' = "answered" /\ ~OnRoot' /\ ~Unsure'
    BY DEF SearchState, OnRoot, Unsure
  <1>2. Abstract!WithinTol(root')
    BY WithinTolAbstract
  <1> QED BY <1>1, <1>2 DEF Abstract!Converge, Abstract!Next, Abstract!WithinTol

LEMMA GiveUpStep ==
  ASSUME SearchState # "answered", UNCHANGED f, phase' = "err" \/ Unsure'
  PROVE  Abstract!Next
  <1>1. SearchState' = "answered" /\ ~OnRoot' /\ ~(phase' = "ok" /\ ~Unsure')
    BY DEF SearchState, OnRoot, Unsure
  <1> QED BY <1>1 DEF Abstract!GiveUp, Abstract!Next

\* The loops open the bracket they are given, unless its better end is within
\* tolerance already, or bisection cannot rely on the signs.
LEMMA OpenStep ==
  ASSUME IInv, IInv', phase \in {"low", "high"}, NEW l \in Points, NEW h \in Points,
         l <= h, Crosses(l, h), Open(l, f[l], h, f[h]), UNCHANGED call
  PROVE  Abstract!Next
  <1> USE DEF call, To, answer
  <1>1. /\ method \in {"bisection", "brent"} /\ phase' = method
        /\ UNCHANGED <<f, method, how, root>>
    BY DEF Open, IInv, WindowHolds
  <1>2. SearchState = "given" /\ ~OnRoot /\ phase \notin {"ok", "err"}
    BY DEF SearchState, OnRoot
  <1>3. /\ a' \in Points /\ b' \in Points /\ a' \in Int /\ b' \in Int
        /\ f'[b'] \in Values
    BY <1>1, PointsAssumption DEF IInv, LoopHolds, Methods
  <1>4. CASE method = "bisection" /\ ~Misleading
    <2>1. a' <= b' /\ Crosses(a, b)' /\ ~Misleading'
      BY <1>1, <1>4 DEF Open, Crosses, Misleading
    <2>2. SearchState' = "bracketed" /\ ~OnRoot' /\ Low' = a' /\ High' = b'
      BY <1>1, <1>4, <2>1 DEF SearchState, OnRoot, Low, High
    <2> QED
      BY <1>1, <1>2, <2>1, <2>2 DEF Crosses, Abstract!Crosses, Abstract!Open, Abstract!Next
  <1>5. CASE method = "bisection" /\ Misleading
    <2>1. SearchState' = "given"
      BY <1>1, <1>5 DEF SearchState, OnRoot, Misleading, Crosses
    <2> QED BY <1>1, <1>2, <2>1, LookStep
  <1>6. CASE method = "brent" /\ ~OnRoot'
    <2>1. Crosses(a, b)'
      BY <1>1, <1>6 DEF IInv, BracketHolds
    <2>2. SearchState' = "bracketed" /\ Low' <= High' /\ {Low', High'} = {a', b'}
      BY <1>1, <1>3, <1>6 DEF SearchState, Low, High
    <2>3. Abstract!Crosses(Low, High)'
      BY <2>1, <2>2 DEF Crosses, Abstract!Crosses
    <2> QED
      BY <1>1, <1>2, <1>6, <2>2, <2>3 DEF Abstract!Crosses, Abstract!Open, Abstract!Next
  <1>7. CASE method = "brent" /\ OnRoot'
    <2>1. b' \in Points /\ f[b'] \in Values /\ WithinTol(f[b'])
      BY <1>1, <1>3, <1>7 DEF IInv, BracketHolds, OnRoot, WithinTol, Magnitude
    <2>2. Abstract!WithinTol(b') /\ SearchState' = "answered"
      BY <1>7, <2>1, WithinTolAbstract DEF SearchState
    <2> QED
      BY <1>1, <1>2, <1>7, <2>1, <2>2 DEF Abstract!WithinTol, Abstract!Converge, Abstract!Next
  <1> QED BY <1>1, <1>4, <1>5, <1>6, <1>7

\* Every step of a call is a step of the abstract search, or a stutter.
LEMMA GivenStep ==
  ASSUME IInv, IInv',
         \/ RejectSeed \/ StartWindow \/ ExpandLow \/ ExpandHigh \/ NoBracket
         \/ StartNewton \/ NewtonTurn \/ StartSecant \/ SecantTurn \/ OpenMethodEnds
  PROVE  Abstract!Next
  <1> USE DEF call, window, Ok, Err, To
  <1>0. ASSUME NEW v \in Values, v = 0 PROVE WithinTol(v)
    BY <1>0, AllNumbers DEF WithinTol, Magnitude, Numbers
  <1>1. /\ UNCHANGED f
        /\ phase \in {"start", "low", "high", "newton", "secant"} /\ SearchState = "given"
    BY DEF RejectSeed, StartWindow, ExpandLow, ExpandHigh, NoBracket, StartNewton, NewtonTurn,
           StartSecant, SecantTurn, OpenMethodEnds, Starting, Expanding, Turn, OutOfTurns,
           SearchState, OnRoot
  <1>2. CASE phase' = "err"
    BY <1>1, <1>2, GiveUpStep
  <1>3. CASE phase' \in {"start", "low", "high", "newton", "secant"} /\ UNCHANGED answer
    <2>1. SearchState' = "given"
      BY <1>3 DEF SearchState, OnRoot
    <2> QED BY <1>1, <1>3, <2>1, LookStep
  <1>4. CASE RejectSeed \/ NoBracket \/ OpenMethodEnds
    BY <1>2, <1>4 DEF RejectSeed, NoBracket, OpenMethodEnds
  <1>5. CASE StartNewton \/ StartSecant
    BY <1>2, <1>3, <1>5 DEF StartNewton, StartSecant
  <1>6. CASE StartWindow
    <2>1. CASE Defined(seed) /\ f[seed] = 0
      <3>1. seed \in Points /\ f[seed] \in Values
        BY <2>1, ValueOfDefined DEF IInv
      <3>2. phase' = "ok" /\ root' = seed /\ how' = "residual"
        BY <1>6, <2>1 DEF StartWindow
      <3> QED BY <1>0, <1>1, <2>1, <3>1, <3>2, FoundStep
    <2>2. CASE ~(Defined(seed) /\ f[seed] = 0)
      BY <1>2, <1>3, <1>6, <2>2 DEF StartWindow
    <2> QED BY <2>1, <2>2
  <1>7. CASE ExpandLow
    <2> DEFINE next == a - StepLength(turn + 1)
    <2>1. CASE ~lowAlive \/ ~Defined(next)
      BY <1>3, <1>7, <2>1 DEF ExpandLow
    <2>2. CASE lowAlive /\ Defined(next)
      <3>1. next \in Points /\ f[next] \in Values
        BY <2>2, ValueOfDefined DEF IInv
      <3>2. CASE f[next] = 0
        <4>1. phase' = "ok" /\ root' = next /\ how' = "residual"
          BY <1>7, <2>2, <3>2 DEF ExpandLow
        <4> QED BY <1>0, <1>1, <3>1, <3>2, <4>1, FoundStep
      <3>3. CASE f[next] # 0 /\ Opposite(f[next], fa)
        <4>1. /\ a \in Points /\ fa = f[a] /\ f[a] \in Values /\ phase = "low"
              /\ turn \in Nat /\ turn < MaxExpansions
          BY <1>7 DEF ExpandLow, Expanding, IInv, WindowHolds
        <4>2. next <= a
          BY <4>1, StepGrows, PointsAssumption
        <4>3. Open(next, f[next], a, f[a]) /\ UNCHANGED call
          BY <1>7, <2>2, <3>3, <4>1 DEF ExpandLow, Expanding
        <4>4. Crosses(next, a)
          BY <3>1, <3>3, <4>1 DEF Opposite, Crosses
        <4> HIDE DEF next
        <4> QED BY <3>1, <4>1, <4>2, <4>3, <4>4, OpenStep
      <3>4. CASE f[next] # 0 /\ ~Opposite(f[next], fa)
        BY <1>3, <1>7, <2>2, <3>4 DEF ExpandLow
      <3> QED BY <3>2, <3>3, <3>4
    <2> QED BY <2>1, <2>2
  <1>8. CASE ExpandHigh
    <2> DEFINE next == b + StepLength(turn + 1)
    <2>1. CASE ~highAlive \/ ~Defined(next)
      BY <1>3, <1>8, <2>1 DEF ExpandHigh
    <2>2. CASE highAlive /\ Defined(next)
      <3>1. next \in Points /\ f[next] \in Values
        BY <2>2, ValueOfDefined DEF IInv
      <3>2. CASE f[next] = 0
        <4>1. phase' = "ok" /\ root' = next /\ how' = "residual"
          BY <1>8, <2>2, <3>2 DEF ExpandHigh
        <4> QED BY <1>0, <1>1, <3>1, <3>2, <4>1, FoundStep
      <3>3. CASE f[next] # 0 /\ Opposite(fb, f[next])
        <4>1. /\ b \in Points /\ fb = f[b] /\ f[b] \in Values /\ phase = "high"
              /\ turn \in Nat /\ turn < MaxExpansions
          BY <1>8 DEF ExpandHigh, IInv, WindowHolds
        <4>2. b <= next
          BY <4>1, StepGrows, PointsAssumption
        <4>3. Open(b, f[b], next, f[next]) /\ UNCHANGED call
          BY <1>8, <2>2, <3>3, <4>1 DEF ExpandHigh
        <4>4. Crosses(b, next)
          BY <3>1, <3>3, <4>1 DEF Opposite, Crosses
        <4> HIDE DEF next
        <4> QED BY <3>1, <4>1, <4>2, <4>3, <4>4, OpenStep
      <3>4. CASE f[next] # 0 /\ ~Opposite(fb, f[next])
        BY <1>3, <1>8, <2>2, <3>4 DEF ExpandHigh
      <3> QED BY <3>2, <3>3, <3>4
    <2> QED BY <2>1, <2>2
  <1>9. CASE NewtonTurn
    <2>1. a \in Points /\ phase = "newton" /\ method' = "newton"
      BY <1>9 DEF NewtonTurn, Turn, IInv, LoopHolds, Methods
    <2>2. CASE Defined(a) /\ WithinTol(f[a])
      <3>1. f[a] \in Values
        BY <2>2, ValueOfDefined DEF IInv
      <3>2. phase' = "ok" /\ root' = a /\ how' = "residual"
        BY <1>9, <2>2 DEF NewtonTurn
      <3> QED BY <1>1, <2>1, <2>2, <3>1, <3>2, FoundStep
    <2>3. CASE ~(Defined(a) /\ WithinTol(f[a]))
      <3>1. \/ phase' = "err"
            \/ phase' = "ok" /\ how' = "step"
            \/ phase' = "newton" /\ UNCHANGED answer
        BY <1>9, <2>3 DEF NewtonTurn
      <3> QED BY <1>1, <1>2, <1>3, <3>1, GiveUpStep DEF Unsure
    <2> QED BY <2>2, <2>3
  <1>10. CASE SecantTurn
    <2>1. b \in Points /\ fb = f[b] /\ f[b] \in Values
      BY <1>10 DEF SecantTurn, Turn, IInv, LoopHolds, Methods
    <2>2. CASE WithinTol(fb)
      <3>1. phase' = "ok" /\ root' = b /\ how' = "residual"
        BY <1>10, <2>2 DEF SecantTurn
      <3> QED BY <1>1, <2>1, <2>2, <3>1, FoundStep
    <2>3. CASE ~WithinTol(fb)
      <3>1. \/ phase' = "err"
            \/ phase' = "ok" /\ how' = "step"
            \/ phase' = "secant" /\ UNCHANGED answer
        BY <1>10, <2>3 DEF SecantTurn
      <3> QED BY <1>1, <1>2, <1>3, <3>1, GiveUpStep DEF Unsure
    <2> QED BY <2>2, <2>3
  <1> QED BY <1>4, <1>5, <1>6, <1>7, <1>8, <1>9, <1>10

\* Bisection shrinks its bracket, where it can rely on the signs.
LEMMA BisectStep ==
  ASSUME IInv, IInv', BisectTurn \/ BisectEnds
  PROVE  Abstract!Next
  <1> USE DEF call, window, Ok, Err, To
  <1>1. UNCHANGED <<f, method>> /\ phase = "bisection" /\ method = "bisection"
    BY DEF BisectTurn, BisectEnds, Turn, OutOfTurns, IInv, LoopHolds, Methods
  <1>2. /\ a \in Points /\ b \in Points /\ a <= b /\ fa = f[a]
        /\ Low = a /\ High = b /\ ~OnRoot /\ SearchState # "answered"
    BY <1>1 DEF IInv, LoopHolds, BracketHolds, Methods, Low, High, OnRoot, SearchState
  <1>3. Misleading => SearchState = "given"
    BY <1>1, <1>2 DEF SearchState
  <1>4. ~Misleading => SearchState = "bracketed"
    BY <1>1, <1>2 DEF SearchState
  <1>5. CASE phase' = "err"
    BY <1>1, <1>2, <1>5, GiveUpStep
  <1>6. ASSUME NEW m \in Midpoints(a, b), Defined(m), WithinTol(f[m]),
               Ok(m, "residual"), UNCHANGED window
        PROVE  Abstract!Next
    <2>1. m \in Points /\ a <= m /\ m <= b /\ f[m] \in Values
      BY <1>2, <1>6, PointsAssumption, ValueOfDefined DEF Midpoints, IInv
    <2>2. CASE Misleading
      BY <1>1, <1>3, <1>6, <2>1, <2>2, FoundStep
    <2>3. CASE ~Misleading
      <3>1. SearchState' = "answered" /\ ~OnRoot' /\ ~Unsure' /\ Low' = a /\ High' = b
        BY <1>2, <1>6 DEF SearchState, OnRoot, Unsure, Low, High
      <3>2. Abstract!WithinTol(m)
        BY <1>6, <2>1, WithinTolAbstract
      <3>3. a <= a /\ b <= b
        BY <1>2, PointsAssumption
      <3> QED
        BY <1>1, <1>2, <1>4, <1>6, <2>1, <2>3, <3>1, <3>2, <3>3
        DEF Abstract!WithinTol, Abstract!Converge, Abstract!Next
    <2> QED BY <2>2, <2>3
  <1>7. CASE BisectEnds
    <2>1. PICK m \in Midpoints(a, b) : ConvergedOrErr(m)
      BY <1>7 DEF BisectEnds
    <2>2. UNCHANGED window
      BY <1>7 DEF BisectEnds, OutOfTurns
    <2>3. CASE Defined(m) /\ WithinTol(Sample(m))
      <3>1. Sample(m) = f[m]
        BY <2>3, ValueOfDefined DEF IInv
      <3> QED BY <1>6, <2>1, <2>2, <2>3, <3>1 DEF ConvergedOrErr
    <2>4. CASE ~(Defined(m) /\ WithinTol(Sample(m)))
      BY <1>5, <2>1, <2>4 DEF ConvergedOrErr
    <2> QED BY <2>3, <2>4
  <1>8. CASE BisectTurn
    <2>1. PICK mid \in Midpoints(a, b) :
            IF ~Defined(mid) THEN Err /\ UNCHANGED window
            ELSE IF f[mid] = 0 THEN Ok(mid, "residual") /\ UNCHANGED window
            ELSE IF Close(a, b) THEN Ok(mid, "bracket") /\ UNCHANGED window
            ELSE /\ To("bisection")
                 /\ IF Opposite(fa, f[mid])
                      THEN b' = mid /\ UNCHANGED <<a, fa, fb>>
                      ELSE a' = mid /\ fa' = f[mid] /\ UNCHANGED <<b, fb>>
      BY <1>8 DEF BisectTurn
    <2>2. mid \in Points /\ a <= mid /\ mid <= b /\ a \in Int /\ b \in Int
      BY <1>2, PointsAssumption DEF Midpoints
    <2>3. CASE ~Defined(mid)
      BY <1>5, <2>1, <2>3
    <2>4. CASE Defined(mid) /\ f[mid] = 0
      <3>1. WithinTol(f[mid])
        BY <2>4, AllNumbers DEF WithinTol, Magnitude, Numbers
      <3> QED BY <1>6, <2>1, <2>4, <3>1
    <2>5. CASE Defined(mid) /\ f[mid] # 0 /\ Close(a, b)
      <3>1. phase' = "ok" /\ root' = mid /\ how' = "bracket" /\ UNCHANGED <<a, b>>
        BY <2>1, <2>5
      <3>2. Misleading' = Misleading
        BY <1>1 DEF Misleading, Crosses
      <3>3. CASE Misleading
        BY <1>1, <1>2, <3>1, <3>2, <3>3, GiveUpStep DEF Unsure
      <3>4. CASE ~Misleading
        <4>1. SearchState' = "answered" /\ ~OnRoot' /\ ~Unsure' /\ Low' = a /\ High' = b
          BY <1>2, <3>1, <3>2, <3>4 DEF SearchState, OnRoot, Unsure, Low, High
        <4>2. b - a <= Narrow
          BY <1>2, <2>2, <2>5 DEF Close, Distance, Magnitude
        <4>3. a <= a /\ b <= b
          BY <2>2
        <4> QED
          BY <1>1, <1>2, <1>4, <2>2, <3>1, <3>4, <4>1, <4>2, <4>3
          DEF Abstract!Converge, Abstract!Next
      <3> QED BY <3>3, <3>4
    <2>6. CASE Defined(mid) /\ f[mid] # 0 /\ ~Close(a, b)
      <3>1. /\ phase' = "bisection" /\ UNCHANGED answer
            /\ (a' = a /\ b' = mid) \/ (a' = mid /\ b' = b)
        BY <2>1, <2>6
      <3>2. Misleading' = Misleading /\ ~OnRoot'
        BY <1>1, <3>1 DEF Misleading, Crosses, OnRoot
      <3>3. CASE Misleading
        <4>1. SearchState' = "given"
          BY <3>1, <3>2, <3>3 DEF SearchState
        <4> QED BY <1>1, <1>3, <3>1, <3>3, <4>1, LookStep
      <3>4. CASE ~Misleading
        <4>1. SearchState' = "bracketed"
          BY <3>1, <3>2, <3>4 DEF SearchState
        <4>2. a' <= b' /\ a <= a' /\ b' <= b /\ Low' = a' /\ High' = b'
          BY <1>2, <2>2, <3>1 DEF Low, High
        <4>3. Crosses(a, b)'
          BY <3>1, <3>2, <3>4 DEF IInv, BracketHolds
        <4> QED
          BY <1>1, <1>2, <1>4, <3>1, <3>2, <3>4, <4>1, <4>2, <4>3
          DEF answer, Crosses, Abstract!Crosses, Abstract!Shrink, Abstract!Next
      <3> QED BY <3>3, <3>4
    <2> QED BY <2>3, <2>4, <2>5, <2>6
  <1> QED BY <1>7, <1>8

\* Brent's method shrinks its bracket, until a point within tolerance is reached;
\* the turn after that only returns it.
LEMMA BrentStep ==
  ASSUME IInv, IInv', BrentReturns \/ BrentTurn \/ BrentEnds
  PROVE  [Abstract!Next]_(Abstract!vars)
  <1> USE DEF call, window, Ok, Err, To
  <1>1. UNCHANGED <<f, method>> /\ phase = "brent" /\ method = "brent"
    BY DEF BrentReturns, BrentTurn, BrentEnds, Turn, OutOfTurns, IInv, LoopHolds, Methods
  <1>2. /\ a \in Points /\ b \in Points /\ a \in Int /\ b \in Int
        /\ fa = f[a] /\ fb = f[b] /\ f[a] \in Values /\ f[b] \in Values
    BY <1>1, PointsAssumption DEF IInv, LoopHolds, BracketHolds, Methods
  <1>3. OnRoot <=> WithinTol(fb)
    BY <1>1 DEF OnRoot
  <1>4. CASE WithinTol(fb)
    <2>1. UNCHANGED <<a, b>> /\ phase' = "ok" /\ root' = b /\ how' = "residual"
      <3>1. CASE BrentReturns
        BY <1>4, <3>1 DEF BrentReturns
      <3>2. CASE BrentTurn
        BY <1>4, <3>2 DEF BrentTurn
      <3>3. CASE BrentEnds
        <4>1. f[b] # Undefined
          BY <1>2, ValuesAssumption
        <4>2. ConvergedOrErr(b) /\ UNCHANGED <<a, b>> /\ Sample(b) = f[b] /\ Defined(b)
          BY <1>2, <3>3, <4>1 DEF BrentEnds, OutOfTurns, Sample, Defined
        <4> QED BY <1>2, <1>4, <4>2 DEF ConvergedOrErr
      <3> QED BY <3>1, <3>2, <3>3
    <2>2. /\ SearchState = "answered" /\ SearchState' = "answered" /\ Low' = Low /\ High' = High
          /\ OnRoot /\ ~OnRoot' /\ ~Unsure'
      BY <1>3, <1>4, <2>1 DEF SearchState, OnRoot, Unsure, Low, High
    <2> QED BY <1>1, <2>1, <2>2 DEF Abstract!vars
  <1>5. CASE ~WithinTol(fb)
    <2>1. ~OnRoot /\ SearchState = "bracketed" /\ Crosses(a, b)
      BY <1>1, <1>3, <1>5 DEF SearchState, IInv, BracketHolds
    <2>2. CASE phase' = "err"
      BY <1>1, <2>1, <2>2, GiveUpStep
    <2>3. CASE BrentEnds
      BY <1>2, <1>5, <2>2, <2>3 DEF BrentEnds, ConvergedOrErr, Sample
    <2>4. CASE BrentReturns
      <3>1. Close(a, b) /\ UNCHANGED <<a, b>> /\ phase' = "ok" /\ root' = b /\ how' = "bracket"
        BY <1>5, <2>4 DEF BrentReturns
      <3>2. /\ SearchState' = "answered" /\ ~OnRoot' /\ ~Unsure'
            /\ Low' = Low /\ High' = High
        BY <1>1, <3>1 DEF SearchState, OnRoot, Unsure, Low, High
      <3>3. High - Low <= Narrow /\ Low <= Low /\ Low <= b /\ b <= High /\ High <= High
        BY <1>2, <3>1 DEF Close, Distance, Magnitude, Low, High
      <3> QED
        BY <1>1, <1>2, <2>1, <3>1, <3>2, <3>3 DEF Abstract!Converge, Abstract!Next
    <2>5. CASE BrentTurn /\ phase' # "err"
      <3>1. PICK s \in Interpolated \cup Midpoints(a, b) :
              Defined(s) /\ To("brent") /\ Replace(s)
        BY <2>5 DEF BrentTurn
      <3>2. s \in Points /\ Low <= s /\ s <= High /\ s \in Int /\ f[s] \in Values
        BY <1>2, <3>1, StaysBetween, PointsAssumption, ValueOfDefined DEF IInv
      <3>3. \/ (a' = a /\ b' = s) \/ (a' = s /\ b' = a)
            \/ (a' = b /\ b' = s) \/ (a' = s /\ b' = b)
        BY <1>1, <1>2, <3>1, <3>2, Ranked DEF Replace
      <3>4. /\ a' \in Int /\ b' \in Int /\ Low <= Low' /\ Low' <= High' /\ High' <= High
            /\ Low' <= b' /\ b' <= High' /\ {Low', High'} = {a', b'}
        BY <1>2, <3>2, <3>3 DEF Low, High
      <3>5. UNCHANGED answer /\ phase' = "brent" /\ b' \in Points
        BY <1>2, <3>1, <3>2, <3>3
      <3>6. CASE OnRoot'
        <4>1. fb' = f[b'] /\ f[b'] \in Values /\ WithinTol(f[b'])
          BY <1>1, <3>5, <3>6 DEF IInv, LoopHolds, BracketHolds, OnRoot, WithinTol, Magnitude, Methods
        <4>2. Abstract!WithinTol(b') /\ SearchState' = "answered"
          BY <3>5, <3>6, <4>1, WithinTolAbstract DEF SearchState
        <4> QED
          BY <1>1, <2>1, <3>4, <3>5, <3>6, <4>2
          DEF Abstract!WithinTol, Abstract!Converge, Abstract!Next
      <3>7. CASE ~OnRoot'
        <4>1. Crosses(a, b)' /\ SearchState' = "bracketed"
          BY <3>5, <3>7 DEF IInv, BracketHolds, SearchState
        <4>2. Abstract!Crosses(Low, High)'
          BY <3>4, <4>1 DEF Crosses, Abstract!Crosses
        <4>3. phase # "ok" /\ phase' # "ok"
          BY <1>1, <3>5
        <4> QED
          BY <1>1, <2>1, <3>4, <3>5, <3>7, <4>1, <4>2, <4>3
          DEF answer, Abstract!Crosses, Abstract!Shrink, Abstract!Next
      <3> QED BY <3>6, <3>7
    <2> QED BY <2>2, <2>3, <2>4, <2>5
  <1> QED BY <1>4, <1>5

LEMMA RefinementStep ==
  IInv /\ IInv' /\ [Next]_vars => [Abstract!Next]_(Abstract!vars)
  <1>1. UNCHANGED vars => UNCHANGED Abstract!vars
    BY DEF vars, call, window, brents, alive, answer, Abstract!vars,
           SearchState, Low, High, OnRoot, Unsure, Misleading, Crosses, WithinTol, Magnitude
  <1> QED BY <1>1, GivenStep, BisectStep, BrentStep DEF Next

\* The dispatcher implements the abstract search: with bisection and Brent's method,
\* and with Newton and secant where they stop on a residual, an answer is within
\* tolerance or inside a narrow bracket with a sign change, and exhausting the
\* turns never looks like convergence.
THEOREM Refinement == Spec => ImplementsBracketing
  <1>1. Init => Abstract!Init
    BY DEF Init, Abstract!Init, SearchState, OnRoot, Unsure
  <1> QED
    BY <1>1, RefinementStep, Invariance, PTL DEF Spec, ImplementsBracketing, Abstract!Spec

(***************************************************************************)
(* Nothing overlooked: what the window has sampled on its way.             *)
(***************************************************************************)
Below(k) == seed - Reach[k]
Above(k) == seed + Reach[k]

\* A sample that shows the search nothing: a value of the seed's sign, unless products
\* underflow.
Silent(x) ==
  /\ x \in Points /\ f[x] \in Values /\ f[x] # 0
  /\ Misleading \/ (f[x] > 0 <=> f[seed] > 0)

\* A side that is alive has come as far as the expansions begun; one that is frozen
\* has no value at its next sample.
LowSide(n, k) ==
  /\ a = Below(k)
  /\ lowAlive => k = n
  /\ ~lowAlive => k < MaxExpansions /\ ~Defined(Below(k + 1))
  /\ \A j \in 0..k : Silent(Below(j))
HighSide(n, k) ==
  /\ b = Above(k)
  /\ highAlive => k = n
  /\ ~highAlive => k < MaxExpansions /\ ~Defined(Above(k + 1))
  /\ \A j \in 0..k : Silent(Above(j))

Begun == IF phase = "high" THEN turn + 1 ELSE turn

SampledHolds ==
  /\ phase = "start" => lowAlive /\ highAlive
  /\ phase \in {"low", "high"} =>
       /\ seed \in Points
       /\ \E k \in 0..MaxExpansions : LowSide(Begun, k)
       /\ \E k \in 0..MaxExpansions : HighSide(turn, k)

SearchInv == SampledHolds /\ NothingOverlooked

LEMMA SearchInit == Init => SearchInv
  BY DEF Init, SearchInv, SampledHolds, NothingOverlooked

\* What can be seen of a side ends where the search froze it, or ran out of expansions.
LEMMA NothingBelow ==
  ASSUME NEW k \in 0..MaxExpansions, \A j \in 0..k : Silent(Below(j)), seed \in Points,
         k = MaxExpansions \/ ~Defined(Below(k + 1)), NEW x \in Visible(-1)
  PROVE  Silent(x)
  <1>0. MaxExpansions \in Nat /\ k \in Nat /\ seed \in Int
    BY LimitsAssumption, PointsAssumption
  <1>1. PICK i \in 0..MaxExpansions :
          x = seed + (-1) * Reach[i] /\ \A j \in 0..i : Defined(seed + (-1) * Reach[j])
    BY DEF Visible
  <1>2. \A j \in 0..MaxExpansions : seed + (-1) * Reach[j] = Below(j)
    BY <1>0, LimitsAssumption DEF Below
  <1>3. x = Below(i) /\ \A j \in 0..i : Defined(Below(j))
    BY <1>0, <1>1, <1>2
  <1>4. i <= k
    <2> SUFFICES ASSUME k < i PROVE FALSE
      BY <1>0
    <2>1. k + 1 \in 0..i /\ k # MaxExpansions
      BY <1>0
    <2> QED BY <1>3, <2>1
  <1> QED BY <1>0, <1>3, <1>4

LEMMA NothingAbove ==
  ASSUME NEW k \in 0..MaxExpansions, \A j \in 0..k : Silent(Above(j)), seed \in Points,
         k = MaxExpansions \/ ~Defined(Above(k + 1)), NEW x \in Visible(1)
  PROVE  Silent(x)
  <1>0. MaxExpansions \in Nat /\ k \in Nat /\ seed \in Int
    BY LimitsAssumption, PointsAssumption
  <1>1. PICK i \in 0..MaxExpansions :
          x = seed + 1 * Reach[i] /\ \A j \in 0..i : Defined(seed + 1 * Reach[j])
    BY DEF Visible
  <1>2. \A j \in 0..MaxExpansions : seed + 1 * Reach[j] = Above(j)
    BY <1>0, LimitsAssumption DEF Above
  <1>3. x = Above(i) /\ \A j \in 0..i : Defined(Above(j))
    BY <1>0, <1>1, <1>2
  <1>4. i <= k
    <2> SUFFICES ASSUME k < i PROVE FALSE
      BY <1>0
    <2>1. k + 1 \in 0..i /\ k # MaxExpansions
      BY <1>0
    <2> QED BY <1>3, <2>1
  <1> QED BY <1>0, <1>3, <1>4

\* Values of one sign show no sign change.
LEMMA SilentPair ==
  ASSUME NEW x, NEW y, Silent(x), Silent(y), ~Misleading
  PROVE  ~Crosses(x, y) /\ f[x] # 0
  <1>1. f[x] \in Int /\ f[y] \in Int
    BY AllNumbers DEF Silent, Numbers
  <1> QED BY <1>1 DEF Silent, Crosses

\* The next sample of a side, if it shows nothing, is silent like the last.
LEMMA SilentNext ==
  ASSUME NEW x \in Points, NEW y \in Points, Silent(x), f[y] \in Values, f[y] # 0,
         ~Opposite(f[x], f[y]) \/ ~Opposite(f[y], f[x])
  PROVE  Silent(y)
  <1>1. f[x] \in Int /\ f[y] \in Int
    BY AllNumbers DEF Silent, Numbers
  <1>2. CASE Misleading
    BY <1>2 DEF Silent
  <1>3. CASE ~Misleading
    <2>1. ~Crosses(x, y)
      BY <1>3, NotOpposite, CrossesCommutes
    <2> QED BY <1>1, <1>3, <2>1 DEF Silent, Crosses
  <1> QED BY <1>2, <1>3

\* None of this changes while the call stays the same.
LEMMA SameCall ==
  ASSUME UNCHANGED call
  PROVE  /\ \A x : Silent(x)' <=> Silent(x)
         /\ \A k : Below(k)' = Below(k) /\ Above(k)' = Above(k)
         /\ \A x : Defined(x)' <=> Defined(x)
         /\ Misleading' <=> Misleading
  BY DEF call, Silent, Below, Above, Defined, Sample, Misleading, Crosses

LEMMA SilentSeed ==
  ASSUME seed \in Points, Defined(seed), f[seed] # 0, TypeOK
  PROVE  \A j \in 0..0 : Silent(Below(j)) /\ Silent(Above(j)) /\ Below(j) = seed /\ Above(j) = seed
  <1>1. seed \in Int /\ Reach[0] = 0 /\ f[seed] \in Values
    BY PointsAssumption, LimitsAssumption, ValueOfDefined
  <1> QED BY <1>1 DEF Silent, Below, Above

LEMMA SearchWindow ==
  ASSUME IInv, IInv', SearchInv,
         RejectSeed \/ StartWindow \/ ExpandLow \/ ExpandHigh \/ NoBracket
  PROVE  SearchInv'
  <1> USE DEF window, brents, alive, answer, Ok, Err, To
  <1>0. UNCHANGED call
    BY DEF RejectSeed, StartWindow, ExpandLow, ExpandHigh, NoBracket, Starting, Expanding
  <1>00. MaxExpansions \in Nat /\ 0 \in 0..MaxExpansions
    BY LimitsAssumption
  <1>1. CASE RejectSeed
    BY <1>0, <1>1 DEF RejectSeed, call, SearchInv, SampledHolds, NothingOverlooked
  <1>2. CASE StartWindow
    <2>1. /\ seed # Infinite /\ seed \in Points /\ a = seed /\ b = seed /\ turn = 0
          /\ lowAlive /\ highAlive /\ UNCHANGED <<a, b, alive, turn>> /\ seed' = seed
      BY <1>0, <1>2 DEF StartWindow, Starting, call, IInv, TypeOK, StartHolds, SearchInv, SampledHolds
    <2>2. CASE ~Defined(seed)
      <3>1. phase' = "err" /\ ~Defined(seed)'
        BY <1>0, <1>2, <2>2, SameCall DEF StartWindow, call, Defined, Sample
      <3> QED BY <3>1 DEF SearchInv, SampledHolds, NothingOverlooked
    <2>3. CASE Defined(seed) /\ f[seed] = 0
      BY <1>2, <2>3 DEF StartWindow, SearchInv, SampledHolds, NothingOverlooked
    <2>4. CASE Defined(seed) /\ f[seed] # 0
      <3>1. phase' = "low"
        BY <1>2, <2>4 DEF StartWindow
      <3>2. LowSide(0, 0)' /\ HighSide(0, 0)'
        BY <1>0, <2>1, <2>4, SilentSeed, SameCall DEF IInv, LowSide, HighSide
      <3> QED
        BY <1>00, <2>1, <3>1, <3>2 DEF SearchInv, SampledHolds, NothingOverlooked, Begun
    <2> QED BY <2>2, <2>3, <2>4
  <1>3. CASE ExpandLow
    <2> DEFINE next == a - StepLength(turn + 1)
    <2>1. /\ phase = "low" /\ turn \in 0..MaxExpansions /\ turn < MaxExpansions
          /\ a \in Points /\ fa = f[a] /\ seed \in Points /\ UNCHANGED highAlive
          /\ turn + 1 \in 0..MaxExpansions /\ seed' = seed
      BY <1>0, <1>00, <1>3 DEF ExpandLow, Expanding, IInv, WindowHolds, SearchInv, SampledHolds, call
    <2>2. PICK k \in 0..MaxExpansions : LowSide(turn, k)
      BY <2>1 DEF SearchInv, SampledHolds, Begun
    <2>3. PICK m \in 0..MaxExpansions : HighSide(turn, m)
      BY <2>1 DEF SearchInv, SampledHolds
    <2>4. UNCHANGED <<b, turn>> => \E i \in 0..MaxExpansions : HighSide(turn, i)'
      <3>1. UNCHANGED <<b, turn>> => HighSide(turn, m)'
        BY <1>0, <2>1, <2>3, SameCall DEF HighSide
      <3> QED BY <3>1
    <2>5. lowAlive => next = Below(turn + 1)
      BY <2>1, <2>2, LimitsAssumption, PointsAssumption DEF LowSide, Below, StepLength
    <2> HIDE DEF next
    <2>6. CASE ~lowAlive \/ ~Defined(next)
      <3>1. /\ phase' = "high" /\ ~lowAlive' /\ UNCHANGED <<a, b, turn>>
        BY <1>3, <2>6 DEF ExpandLow, next
      <3>2. LowSide(turn + 1, k)'
        BY <1>0, <2>1, <2>2, <2>5, <2>6, <3>1, SameCall DEF LowSide
      <3> QED
        BY <2>1, <2>4, <3>1, <3>2 DEF SearchInv, SampledHolds, NothingOverlooked, Begun
    <2>7. CASE lowAlive /\ Defined(next)
      <3>1. next \in Points /\ f[next] \in Values
        BY <2>7, ValueOfDefined DEF IInv
      <3>2. CASE f[next] = 0
        <4>1. phase' = "ok"
          BY <1>3, <2>7, <3>2 DEF ExpandLow, next
        <4> QED BY <4>1 DEF SearchInv, SampledHolds, NothingOverlooked
      <3>3. CASE f[next] # 0 /\ Opposite(f[next], fa)
        <4>1. phase' = method /\ method \in {"bisection", "brent"}
          BY <1>3, <2>1, <2>7, <3>3 DEF ExpandLow, Open, next, IInv, WindowHolds
        <4> QED BY <4>1 DEF SearchInv, SampledHolds, NothingOverlooked
      <3>4. CASE f[next] # 0 /\ ~Opposite(f[next], fa)
        <4>1. a' = next /\ phase' = "high" /\ UNCHANGED <<b, turn, lowAlive>>
          BY <1>3, <2>7, <3>4 DEF ExpandLow, next
        <4>2. k = turn /\ a = Below(turn) /\ \A j \in 0..turn : Silent(Below(j))
          BY <2>2, <2>7 DEF LowSide
        <4>3. Silent(next)
          BY <2>1, <3>1, <3>4, <4>2, SilentNext
        <4>4. \A j \in 0..(turn + 1) : Silent(Below(j))
          <5> SUFFICES ASSUME NEW j \in 0..(turn + 1) PROVE Silent(Below(j))
            OBVIOUS
          <5>1. j = turn + 1 \/ j \in 0..turn
            BY <2>1
          <5> QED BY <5>1, <2>5, <2>7, <4>2, <4>3
        <4>5. LowSide(turn + 1, turn + 1)'
          BY <1>0, <2>5, <2>7, <4>1, <4>4, SameCall DEF LowSide
        <4> QED
          BY <2>1, <2>4, <4>1, <4>5 DEF SearchInv, SampledHolds, NothingOverlooked, Begun
      <3> QED BY <3>2, <3>3, <3>4
    <2> QED BY <2>6, <2>7
  <1>4. CASE ExpandHigh
    <2> DEFINE next == b + StepLength(turn + 1)
    <2>1. /\ phase = "high" /\ turn \in 0..MaxExpansions /\ turn < MaxExpansions
          /\ b \in Points /\ fb = f[b] /\ seed \in Points /\ UNCHANGED lowAlive
          /\ turn + 1 \in 0..MaxExpansions /\ seed' = seed
      BY <1>0, <1>00, <1>4 DEF ExpandHigh, IInv, WindowHolds, SearchInv, SampledHolds, call
    <2>2. PICK k \in 0..MaxExpansions : LowSide(turn + 1, k)
      BY <2>1 DEF SearchInv, SampledHolds, Begun
    <2>3. PICK m \in 0..MaxExpansions : HighSide(turn, m)
      BY <2>1 DEF SearchInv, SampledHolds
    <2>4. a' = a /\ turn' = turn + 1 => \E i \in 0..MaxExpansions : LowSide(turn, i)'
      <3>1. a' = a /\ turn' = turn + 1 => LowSide(turn, k)'
        BY <1>0, <2>1, <2>2, SameCall DEF LowSide
      <3> QED BY <3>1
    <2>5. highAlive => next = Above(turn + 1)
      BY <2>1, <2>3, LimitsAssumption, PointsAssumption DEF HighSide, Above, StepLength
    <2> HIDE DEF next
    <2>6. CASE ~highAlive \/ ~Defined(next)
      <3>1. phase' = "low" /\ ~highAlive' /\ UNCHANGED <<a, b>> /\ turn' = turn + 1
        BY <1>4, <2>6 DEF ExpandHigh, next
      <3>2. HighSide(turn, m)'
        BY <1>0, <2>1, <2>3, <2>5, <2>6, <3>1, SameCall DEF HighSide
      <3> QED
        BY <2>1, <2>4, <3>1, <3>2 DEF SearchInv, SampledHolds, NothingOverlooked, Begun
    <2>7. CASE highAlive /\ Defined(next)
      <3>1. next \in Points /\ f[next] \in Values
        BY <2>7, ValueOfDefined DEF IInv
      <3>2. CASE f[next] = 0
        <4>1. phase' = "ok"
          BY <1>4, <2>7, <3>2 DEF ExpandHigh, next
        <4> QED BY <4>1 DEF SearchInv, SampledHolds, NothingOverlooked
      <3>3. CASE f[next] # 0 /\ Opposite(fb, f[next])
        <4>1. phase' = method /\ method \in {"bisection", "brent"}
          BY <1>4, <2>7, <3>3 DEF ExpandHigh, Open, next, IInv, WindowHolds
        <4> QED BY <4>1 DEF SearchInv, SampledHolds, NothingOverlooked
      <3>4. CASE f[next] # 0 /\ ~Opposite(fb, f[next])
        <4>1. b' = next /\ phase' = "low" /\ turn' = turn + 1 /\ UNCHANGED <<a, highAlive>>
          BY <1>4, <2>7, <3>4 DEF ExpandHigh, next
        <4>2. m = turn /\ b = Above(turn) /\ \A j \in 0..turn : Silent(Above(j))
          BY <2>3, <2>7 DEF HighSide
        <4>3. Silent(next)
          BY <2>1, <3>1, <3>4, <4>2, SilentNext
        <4>4. \A j \in 0..(turn + 1) : Silent(Above(j))
          <5> SUFFICES ASSUME NEW j \in 0..(turn + 1) PROVE Silent(Above(j))
            OBVIOUS
          <5>1. j = turn + 1 \/ j \in 0..turn
            BY <2>1
          <5> QED BY <5>1, <2>5, <2>7, <4>2, <4>3
        <4>5. HighSide(turn, turn)'
          BY <1>0, <2>5, <2>7, <4>1, <4>4, SameCall DEF HighSide
        <4> QED
          BY <2>1, <2>4, <4>1, <4>5 DEF SearchInv, SampledHolds, NothingOverlooked, Begun
      <3> QED BY <3>2, <3>3, <3>4
    <2> QED BY <2>6, <2>7
  <1>5. CASE NoBracket
    <2>1. /\ phase = "low" /\ seed \in Points /\ phase' = "err"
          /\ turn = MaxExpansions \/ ~(lowAlive \/ highAlive)
          /\ UNCHANGED <<a, b, alive, turn>>
      BY <1>5 DEF NoBracket, SearchInv, SampledHolds
    <2>2. PICK k \in 0..MaxExpansions : LowSide(turn, k)
      BY <2>1 DEF SearchInv, SampledHolds, Begun
    <2>3. PICK m \in 0..MaxExpansions : HighSide(turn, m)
      BY <2>1 DEF SearchInv, SampledHolds
    <2>4. \A x \in Visible(-1) : Silent(x)
      BY <2>1, <2>2, NothingBelow DEF LowSide
    <2>5. \A x \in Visible(1) : Silent(x)
      BY <2>1, <2>3, NothingAbove DEF HighSide
    <2>6. Misleading \/ \A x, y \in Visible(-1) \cup Visible(1) : ~Crosses(x, y) /\ f[x] # 0
      BY <2>4, <2>5, SilentPair
    <2>7. (Misleading \/ \A x, y \in Visible(-1) \cup Visible(1) : ~Crosses(x, y) /\ f[x] # 0)'
      BY <1>0, <2>6 DEF call, Misleading, Crosses, Visible, Defined, Sample
    <2> QED BY <2>1, <2>7 DEF SearchInv, SampledHolds, NothingOverlooked
  <1> QED BY <1>1, <1>2, <1>3, <1>4, <1>5

\* A loop that fails does so with its bracket in hand.
LEMMA SearchLoop ==
  ASSUME IInv, IInv',
         \/ BisectTurn \/ BisectEnds \/ BrentReturns \/ BrentTurn \/ BrentEnds
         \/ StartNewton \/ NewtonTurn \/ StartSecant \/ SecantTurn \/ OpenMethodEnds
  PROVE  SearchInv'
  <1> USE DEF window, answer, Ok, Err, To, Methods
  <1>1. UNCHANGED call
    BY DEF BisectTurn, BisectEnds, BrentReturns, BrentTurn, BrentEnds, StartNewton, NewtonTurn,
           StartSecant, SecantTurn, OpenMethodEnds, Starting, Turn, OutOfTurns, call
  <1>2. phase' \in {"ok", "err"} \cup Methods
    BY DEF BisectTurn, BisectEnds, BrentReturns, BrentTurn, BrentEnds, StartNewton, NewtonTurn,
           StartSecant, SecantTurn, OpenMethodEnds, ConvergedOrErr
  <1>3. SampledHolds'
    BY <1>2 DEF SampledHolds
  <1>4. CASE phase' # "err"
    BY <1>3, <1>4 DEF SearchInv, NothingOverlooked
  <1>5. CASE BisectTurn \/ BisectEnds
    <2>1. Crosses(a, b) \/ Misleading
      BY <1>5 DEF BisectTurn, BisectEnds, Turn, OutOfTurns, IInv, BracketHolds
    <2>2. phase' = "err" => UNCHANGED window
      BY <1>5 DEF BisectTurn, BisectEnds, OutOfTurns
    <2> QED
      BY <1>1, <1>3, <2>1, <2>2 DEF SearchInv, NothingOverlooked, Crosses, Misleading, call
  <1>6. CASE BrentReturns \/ BrentTurn \/ BrentEnds
    <2>1. phase' = "err" => UNCHANGED window
      BY <1>6 DEF BrentReturns, BrentTurn, BrentEnds, OutOfTurns
    <2>2. phase' = "err" => ~OnRoot
      <3>1. CASE BrentReturns \/ BrentTurn
        BY <3>1 DEF BrentReturns, BrentTurn, OnRoot
      <3>2. CASE BrentEnds
        <4>1. b \in Points /\ fb = f[b] /\ f[b] \in Values /\ f[b] # Undefined
          BY <3>2, ValuesAssumption DEF BrentEnds, OutOfTurns, IInv, LoopHolds, BracketHolds
        <4>2. Sample(b) = f[b] /\ Defined(b)
          BY <4>1 DEF Sample, Defined
        <4> QED BY <3>2, <4>1, <4>2 DEF BrentEnds, ConvergedOrErr, OnRoot
      <3> QED BY <1>6, <3>1, <3>2
    <2>3. Crosses(a, b) \/ OnRoot
      BY <1>6 DEF BrentReturns, BrentTurn, BrentEnds, Turn, OutOfTurns, IInv, BracketHolds
    <2> QED BY <1>1, <1>3, <2>1, <2>2, <2>3 DEF SearchInv, NothingOverlooked, Crosses, call
  <1>7. CASE StartNewton \/ NewtonTurn \/ StartSecant \/ SecantTurn \/ OpenMethodEnds
    <2>1. method' \in {"newton", "secant"}
      BY <1>1, <1>7 DEF StartNewton, NewtonTurn, StartSecant, SecantTurn, OpenMethodEnds,
                        Starting, Turn, OutOfTurns, IInv, LoopHolds, call
    <2> QED BY <1>3, <2>1 DEF SearchInv, NothingOverlooked
  <1> QED BY <1>4, <1>5, <1>6, <1>7

LEMMA SearchStep == IInv /\ IInv' /\ SearchInv /\ [Next]_vars => SearchInv'
  <1>1. ASSUME SearchInv, UNCHANGED vars PROVE SearchInv'
    <2> USE <1>1 DEF vars, call, window, brents, alive, answer, SearchInv
    <2>1. SampledHolds'
      BY SameCall DEF SampledHolds, LowSide, HighSide, Begun
    <2>2. NothingOverlooked'
      BY DEF NothingOverlooked, Crosses, Misleading, Visible, Defined, Sample
    <2> QED BY <2>1, <2>2
  <1> QED BY <1>1, SearchWindow, SearchLoop DEF Next

\* "No sign change found" is never said of a sign change the search could have seen:
\* a side that has stopped growing hides nothing of the other (bracket_around), and a
\* loop gives up only with a sign change in hand.
THEOREM NoneOverlooked == Spec => []NothingOverlooked
  <1>1. SearchInv => NothingOverlooked
    BY DEF SearchInv
  <1> QED BY <1>1, SearchInit, SearchStep, Invariance, PTL DEF Spec

=============================================================================
