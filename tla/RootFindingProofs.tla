-------------------------- MODULE RootFindingProofs --------------------------
(***************************************************************************)
(* What holds of every call of the root finders, for every function, every *)
(* tolerance whose square does not underflow and every iteration budget.   *)
(***************************************************************************)
EXTENDS RootFinding, TLAPS

\* The inductive invariant: the type, the bracket of bisection, and what the
\* other two methods have evaluated.
IInv == TypeOK /\ BracketHolds /\ SecantRemembers /\ NewtonStands

\* A function of the model has a finite value wherever it is defined.
LEMMA ValueOfDefined ==
  ASSUME NEW g \in Functions, NEW x \in Points, g[x] # Undefined
  PROVE  g[x] \in Values /\ g[x] \in Int
  BY FunctionsAssumption, ValuesAssumption

\* Both halves of a bracket: if the midpoint is no root, the half that is kept
\* still has a sign change, whichever way the comparison of signs comes out.
LEMMA HalfCrosses ==
  ASSUME NEW v \in Values, NEW w \in Values, NEW m \in Values,
         ~WithinTol(v), ~WithinTol(w), ~WithinTol(m),
         (v < 0 /\ w > 0) \/ (v > 0 /\ w < 0)
  PROVE  /\ Opposite(v, m)  => (v < 0 /\ m > 0) \/ (v > 0 /\ m < 0)
         /\ ~Opposite(v, m) => (m < 0 /\ w > 0) \/ (m > 0 /\ w < 0)
  <1>1. v \in Int /\ w \in Int /\ m \in Int /\ Tol \in Nat
    BY ValuesAssumption, LimitsAssumption
  <1>2. <<v, m>> \notin Vanishing
    BY ToleranceAssumption
  <1>3. m # 0
    BY <1>1 DEF WithinTol, Magnitude
  <1> QED BY <1>1, <1>2, <1>3 DEF Opposite

\* Ends that are no roots and not of the same sign are of opposite signs.
LEMMA EndsCross ==
  ASSUME NEW v \in Values, NEW w \in Values,
         ~WithinTol(v), ~WithinTol(w), ~SameSign(v, w)
  PROVE  (v < 0 /\ w > 0) \/ (v > 0 /\ w < 0)
  <1>1. v \in Int /\ w \in Int /\ Tol \in Nat
    BY ValuesAssumption, LimitsAssumption
  <1>2. <<v, w>> \notin Vanishing
    BY ToleranceAssumption
  <1>3. v # 0 /\ w # 0
    BY <1>1 DEF WithinTol, Magnitude
  <1> QED BY <1>1, <1>2, <1>3 DEF SameSign

LEMMA WithinTolBoolean == \A v : WithinTol(v) \in BOOLEAN
  BY DEF WithinTol

LEMMA InitInv == Init => IInv
  <1> SUFFICES ASSUME Init PROVE IInv
    OBVIOUS
  <1>1. PICK c \in Calls : method = c.method /\ a = c.a /\ b = c.b
    BY DEF Init
  <1>2. /\ c.method \in {"bisection", "newton", "secant"}
        /\ c.a \in Points \cup {Infinite} /\ c.b \in Points \cup {Infinite}
    BY CallsAssumption
  <1>3. /\ method \in {"bisection", "newton", "secant"}
        /\ a \in Points \cup {Infinite} /\ b \in Points \cup {Infinite}
    BY <1>1, <1>2
  <1>4. f \in Functions /\ fa = 0 /\ fb = 0 /\ mid = a /\ root = a /\ phase = "start"
    BY DEF Init
  <1>5. iteration \in 0..MaxIterations /\ converged \in BOOLEAN
    <2>1. iteration = 0 /\ converged = FALSE
      BY DEF Init
    <2>2. iteration \in 0..MaxIterations
      BY <2>1, LimitsAssumption
    <2> QED BY <2>1, <2>2
  <1>6. TypeOK
    BY <1>3, <1>4, <1>5 DEF TypeOK
  <1> QED
    BY <1>6 DEF Init, IInv, BracketHolds, SecantRemembers, NewtonStands

\* One case per action.
LEMMA StepInv == IInv /\ [Next]_vars => IInv'
  <1> SUFFICES ASSUME IInv, [Next]_vars PROVE IInv'
    OBVIOUS
  <1> USE DEF IInv
  <1>1. CASE BisectionStart
    <2> USE <1>1 DEF BisectionStart, Starting
    <2>1. CASE Infinite \in {a, b}
      BY <2>1 DEF TypeOK, BracketHolds, SecantRemembers, NewtonStands, Err
    <2>2. CASE Infinite \notin {a, b}
      <3>1. a' \in Points /\ b' \in Points /\ a' <= b' /\ mid' = a'
        BY <2>2, PointsAssumption DEF TypeOK, Lower, Higher
      <3>2. fa' = IF f[a'] # Undefined THEN f[a'] ELSE fa
        BY <2>2 DEF Defined
      <3>3. fa' \in Values \cup {0}
        BY <3>1, <3>2, ValueOfDefined DEF TypeOK
      <3>4. CASE phase' = "loop"
        <4>1. /\ f[a'] # Undefined /\ f[b'] # Undefined
              /\ ~WithinTol(f[a']) /\ ~WithinTol(f[b']) /\ ~SameSign(f[a'], f[b'])
              /\ UNCHANGED <<root, converged>>
          BY <2>2, <3>4 DEF Err, Ok, GoOn, Defined
        <4>2. f[a'] \in Values /\ f[b'] \in Values
          BY <4>1, <3>1, ValueOfDefined DEF TypeOK
        <4>3. Crosses(a, b)'
          BY <4>1, <4>2, EndsCross DEF Crosses
        <4> QED
          BY <4>1, <4>2, <4>3, <3>1, <3>2, <3>3, <3>4
          DEF TypeOK, BracketHolds, SecantRemembers, NewtonStands
      <3>5. CASE phase' # "loop"
        <4>1. phase' \in {"ok", "err"} /\ root' \in Points \cup {Infinite} /\ converged' \in BOOLEAN
          BY <2>2, <3>1, <3>5 DEF Err, Ok, GoOn, TypeOK
        <4> QED
          BY <4>1, <3>1, <3>3 DEF TypeOK, BracketHolds, SecantRemembers, NewtonStands
      <3> QED BY <3>4, <3>5
    <2> QED BY <2>1, <2>2
  <1>2. CASE BisectionTurn
    <2> USE <1>2 DEF BisectionTurn, Turn
    <2>1. /\ a \in Points /\ b \in Points /\ a <= b
          /\ Crosses(a, b) /\ ~WithinTol(f[a]) /\ ~WithinTol(f[b]) /\ fa = f[a]
      BY DEF BracketHolds
    <2>2. PICK m \in Midpoints(a, b) :
            /\ mid' = m
            /\ IF ~Defined(m) THEN Err /\ UNCHANGED <<a, b, fa>>
               ELSE IF WithinTol(f[m]) \/ b - a <= Narrow
                 THEN Ok(m, TRUE) /\ UNCHANGED <<a, b, fa>>
               ELSE GoOn /\ KeepHalf(m)
      OBVIOUS
    <2>3. m \in Points /\ a <= m /\ m <= b
      BY DEF Midpoints
    <2>4. iteration' \in 0..MaxIterations
      BY LimitsAssumption DEF TypeOK
    <2>5. CASE GoOn
      <3>1. Defined(m) /\ ~WithinTol(f[m]) /\ KeepHalf(m)
        BY <2>2, <2>5 DEF GoOn, Err, Ok
      <3>2. f[m] \in Values /\ f[a] \in Values /\ f[b] \in Values
        BY <2>1, <2>3, <3>1, ValueOfDefined DEF Defined, Crosses, TypeOK
      <3>3. CASE Opposite(fa, f[m])
        <4>1. a' = a /\ fa' = fa /\ b' = m
          BY <3>1, <3>3 DEF KeepHalf
        <4>2. Crosses(a, m)
          BY <3>2, <3>3, <2>1 DEF Crosses, Opposite
        <4>3. Crosses(a, b)'
          BY <4>1, <4>2 DEF Crosses
        <4> QED
          BY <4>1, <4>3, <3>1, <3>2, <2>1, <2>2, <2>3, <2>4, <2>5
          DEF TypeOK, BracketHolds, SecantRemembers, NewtonStands, GoOn
      <3>4. CASE ~Opposite(fa, f[m])
        <4>1. a' = m /\ fa' = f[m] /\ b' = b
          BY <3>1, <3>4 DEF KeepHalf
        <4>2. Crosses(m, b)
          BY <3>1, <3>2, <3>4, <2>1, HalfCrosses DEF Crosses
        <4>3. Crosses(a, b)'
          BY <4>1, <4>2 DEF Crosses
        <4> QED
          BY <4>1, <4>3, <3>1, <3>2, <2>1, <2>2, <2>3, <2>4, <2>5
          DEF TypeOK, BracketHolds, SecantRemembers, NewtonStands, GoOn
      <3> QED BY <3>3, <3>4
    <2>6. CASE ~GoOn
      <3>1. /\ UNCHANGED <<a, b, fa>> /\ phase' \in {"ok", "err"}
            /\ root' \in Points \cup {Infinite} /\ converged' \in BOOLEAN
        BY <2>2, <2>3, <2>6 DEF Err, Ok, TypeOK
      <3> QED
        BY <3>1, <2>2, <2>3, <2>4 DEF TypeOK, BracketHolds, SecantRemembers, NewtonStands
    <2> QED BY <2>5, <2>6
  <1>3. CASE BisectionEnds
    BY <1>3 DEF BisectionEnds, OutOfTurns, Ok, TypeOK, BracketHolds, SecantRemembers, NewtonStands
  <1>4. CASE NewtonStart
    BY <1>4 DEF NewtonStart, Starting, Err, GoOn, TypeOK, BracketHolds, SecantRemembers, NewtonStands
  <1>5. CASE NewtonTurn
    <2> USE <1>5 DEF NewtonTurn, Turn
    <2>1. a \in Points
      BY DEF NewtonStands
    <2>2. iteration' \in 0..MaxIterations
      BY LimitsAssumption DEF TypeOK
    <2>3. /\ a' \in Points /\ phase' \in {"loop", "ok", "err"}
          /\ root' \in Points \cup {Infinite} /\ converged' \in BOOLEAN
      <3>1. CASE phase' = "err"
        BY <2>1, <3>1 DEF Err, Ok, GoOn, TypeOK
      <3>2. CASE phase' # "err"
        BY <2>1, <3>2, WithinTolBoolean DEF Err, Ok, GoOn, TypeOK
      <3> QED BY <3>1, <3>2
    <2> QED
      BY <2>2, <2>3 DEF TypeOK, BracketHolds, SecantRemembers, NewtonStands
  <1>6. CASE NewtonEnds
    BY <1>6 DEF NewtonEnds, OutOfTurns, Ok, TypeOK, BracketHolds, SecantRemembers, NewtonStands
  <1>7. CASE SecantStart
    <2> USE <1>7 DEF SecantStart, Starting
    <2>1. CASE Infinite \in {a, b} \/ a = b \/ ~Defined(a) \/ ~Defined(b)
      BY <2>1 DEF TypeOK, BracketHolds, SecantRemembers, NewtonStands, Err
    <2>2. CASE ~(Infinite \in {a, b} \/ a = b \/ ~Defined(a) \/ ~Defined(b))
      <3>1. a \in Points /\ b \in Points
        BY <2>2 DEF TypeOK
      <3>2. f[a] \in Values /\ f[b] \in Values /\ fa' = f[a] /\ fb' = f[b]
        BY <2>2, <3>1, ValueOfDefined DEF Defined, TypeOK
      <3>3. /\ phase' \in {"loop", "ok"}
            /\ root' \in Points \cup {Infinite} /\ converged' \in BOOLEAN
        BY <2>2, <3>1 DEF Ok, GoOn, TypeOK
      <3> QED
        BY <3>1, <3>2, <3>3 DEF TypeOK, BracketHolds, SecantRemembers, NewtonStands
    <2> QED BY <2>1, <2>2
  <1>8. CASE SecantTurn
    <2> USE <1>8 DEF SecantTurn, Turn
    <2>1. /\ a \in Points /\ b \in Points
          /\ fa = f[a] /\ fb = f[b] /\ f[a] \in Values /\ f[b] \in Values
      BY DEF SecantRemembers
    <2>2. iteration' \in 0..MaxIterations
      BY LimitsAssumption DEF TypeOK
    <2>3. CASE UNCHANGED <<a, b, fa, fb>>
      <3>1. /\ phase' \in {"ok", "err"}
            /\ root' \in Points \cup {Infinite} /\ converged' \in BOOLEAN
        BY <2>1, <2>3 DEF Ok, Err, GoOn, TypeOK, Defined, WithinTol
      <3> QED
        BY <2>2, <2>3, <3>1 DEF TypeOK, BracketHolds, SecantRemembers, NewtonStands
    <2>4. CASE ~UNCHANGED <<a, b, fa, fb>>
      <3>1. PICK next \in Points :
              /\ a' = b /\ fa' = fb /\ b' = next
              /\ IF ~Defined(next) THEN Err /\ UNCHANGED fb
                 ELSE /\ fb' = f[next]
                      /\ IF next = b THEN Ok(next, WithinTol(f[next])) ELSE GoOn
        BY <2>4
      <3>2. CASE ~Defined(next)
        BY <2>1, <2>2, <3>1, <3>2
        DEF TypeOK, BracketHolds, SecantRemembers, NewtonStands, Err
      <3>3. CASE Defined(next)
        <4>1. f[next] \in Values /\ fb' = f[next]
          BY <3>1, <3>3, ValueOfDefined DEF Defined, TypeOK
        <4>2. /\ phase' \in {"loop", "ok"}
              /\ root' \in Points \cup {Infinite} /\ converged' \in BOOLEAN
          BY <3>1, <3>3, WithinTolBoolean DEF Ok, GoOn, TypeOK
        <4> QED
          BY <2>1, <2>2, <3>1, <4>1, <4>2
          DEF TypeOK, BracketHolds, SecantRemembers, NewtonStands
      <3> QED BY <3>2, <3>3
    <2> QED BY <2>3, <2>4
  <1>9. CASE SecantEnds
    BY <1>9
    DEF SecantEnds, OutOfTurns, Ok, TypeOK, BracketHolds, SecantRemembers, NewtonStands, WithinTol
  <1>10. CASE UNCHANGED vars
    BY <1>10 DEF vars, TypeOK, BracketHolds, SecantRemembers, NewtonStands, Crosses
  <1> QED
    BY <1>1, <1>2, <1>3, <1>4, <1>5, <1>6, <1>7, <1>8, <1>9, <1>10 DEF Next

LEMMA UndecidedStep == Undecided /\ [Next]_vars => Undecided'
  <1> SUFFICES ASSUME Undecided, [Next]_vars, phase' # "ok" PROVE converged' = FALSE
    BY DEF Undecided
  <1> USE DEF Undecided, Ok, Err, GoOn
  <1>1. CASE BisectionStart
    BY <1>1 DEF BisectionStart, Starting
  <1>2. CASE BisectionTurn
    BY <1>2 DEF BisectionTurn, Turn
  <1>3. CASE NewtonStart \/ NewtonTurn
    BY <1>3 DEF NewtonStart, NewtonTurn, Starting, Turn
  <1>4. CASE SecantStart \/ SecantTurn
    BY <1>4 DEF SecantStart, SecantTurn, Starting, Turn
  <1>5. CASE BisectionEnds \/ NewtonEnds \/ SecantEnds
    BY <1>5 DEF BisectionEnds, NewtonEnds, SecantEnds
  <1>6. CASE UNCHANGED vars
    BY <1>6 DEF vars
  <1> QED BY <1>1, <1>2, <1>3, <1>4, <1>5, <1>6 DEF Next

\* Every reachable state satisfies the inductive invariant.
THEOREM Invariance == Spec => [](IInv /\ Undecided)
  <1>1. Init => Undecided
    BY DEF Init, Undecided
  <1> QED BY <1>1, InitInv, StepInv, UndecidedStep, PTL DEF Spec

\* The variables keep their types, for every function and every budget.
THEOREM TypeCorrect == Spec => []TypeOK
  <1>1. IInv => TypeOK
    BY DEF IInv
  <1> QED BY <1>1, Invariance, PTL

\* Bisection never loses the sign change it was given, as long as products of
\* values past the tolerance do not underflow.
THEOREM BracketNeverLost == Spec => []BracketHolds
  <1>1. IInv => BracketHolds
    BY DEF IInv
  <1> QED BY <1>1, Invariance, PTL

LEMMA UnconvergedStep ==
  IInv /\ UnconvergedIsBest /\ [Next]_vars => UnconvergedIsBest'
  <1> SUFFICES ASSUME IInv, UnconvergedIsBest, [Next]_vars,
                      method' = "bisection", phase' = "ok", ~converged'
               PROVE  /\ a' <= b' /\ Crosses(a, b)'
                      /\ root' \in {a', b'} /\ ~WithinTol(f'[root'])
    BY DEF UnconvergedIsBest
  <1>1. CASE BisectionEnds
    BY <1>1 DEF BisectionEnds, OutOfTurns, Ok, IInv, BracketHolds, Crosses
  <1>2. CASE BisectionStart \/ BisectionTurn
    BY <1>2 DEF BisectionStart, BisectionTurn, Ok, Err, GoOn
  <1>3. CASE NewtonStart \/ NewtonTurn \/ NewtonEnds
    BY <1>3 DEF NewtonStart, NewtonTurn, NewtonEnds, Starting, Turn, OutOfTurns
  <1>4. CASE SecantStart \/ SecantTurn \/ SecantEnds
    BY <1>4 DEF SecantStart, SecantTurn, SecantEnds, Starting, Turn, OutOfTurns
  <1>5. CASE UNCHANGED vars
    BY <1>5 DEF vars, UnconvergedIsBest, Crosses
  <1> QED BY <1>1, <1>2, <1>3, <1>4, <1>5 DEF Next

\* When bisection runs out of turns, the estimate it returns is an end of a
\* bracket that still has a sign change, and the tolerance is not met there.
THEOREM BestEstimate == Spec => []UnconvergedIsBest
  <1>1. Init => UnconvergedIsBest
    BY DEF Init, UnconvergedIsBest
  <1> QED BY <1>1, UnconvergedStep, Invariance, PTL DEF Spec

\* Each step of a call is a step of the abstract search, or a stutter: before
\* the loop of bisection the search looks around or opens the bracket, in the
\* loop it shrinks it, and every return converges or gives up.
LEMMA RefinementStep ==
  IInv /\ IInv' /\ Undecided /\ [Next]_vars => [Abstract!Next]_(Abstract!vars)
  <1> SUFFICES ASSUME IInv, IInv', Undecided, [Next]_vars
               PROVE  [Abstract!Next]_(Abstract!vars)
    OBVIOUS
  <1>p. phase' \in {"start", "loop", "ok", "err"}
    BY DEF IInv, TypeOK
  <1> USE DEF IInv
  <1>a. ASSUME NEW v \in Values PROVE WithinTol(v) => -Tol <= v /\ v <= Tol
    BY ValuesAssumption, LimitsAssumption DEF WithinTol, Magnitude
  <1>b. ASSUME phase \notin {"ok", "err"}, phase' = "err", UNCHANGED <<f, converged>>
        PROVE  Abstract!GiveUp
    BY <1>b DEF Abstract!GiveUp, SearchState, Undecided
  <1>c. ASSUME phase \notin {"ok", "err"}, phase' = "ok", UNCHANGED f, converged' = FALSE
        PROVE  Abstract!GiveUp
    BY <1>c DEF Abstract!GiveUp, SearchState
  <1>d. ASSUME SearchState = "given", phase' = "ok", UNCHANGED f, converged' = TRUE,
               root' \in Points, f[root'] \in Values, WithinTol(f[root'])
        PROVE  Abstract!Converge
    <2>1. SearchState' = "answered"
      BY <1>d DEF SearchState
    <2>2. Abstract!WithinTol(root')
      BY <1>a, <1>d DEF Abstract!WithinTol
    <2> QED BY <1>d, <2>1, <2>2 DEF Abstract!Converge
  <1>1. CASE BisectionStart
    <2> USE <1>1 DEF BisectionStart, Starting
    <2>0. phase' # "start"
      BY DEF Err, Ok, GoOn
    <2>1. CASE phase' = "err"
      BY <2>1, <1>b DEF Err, Ok, GoOn, Abstract!Next
    <2>2. CASE phase' = "loop"
      <3>1. /\ a' <= b' /\ Crosses(a, b)'
            /\ UNCHANGED <<f, converged, root>> /\ method' = "bisection"
        BY <2>2 DEF BracketHolds, Err, Ok, GoOn
      <3>2. SearchState = "given" /\ SearchState' = "bracketed"
        BY <2>2, <3>1 DEF SearchState
      <3> QED BY <3>1, <3>2 DEF Abstract!Open, Abstract!Next, Abstract!Crosses, Crosses
    <2>3. CASE phase' = "ok"
      <3>1. Infinite \notin {a, b} /\ a' \in Points /\ b' \in Points
        BY <2>3 DEF Err, Lower, Higher, TypeOK
      <3>2. /\ Defined(a') /\ Defined(b') /\ converged' = TRUE
            /\ (root' = a' /\ WithinTol(f[a'])) \/ (root' = b' /\ WithinTol(f[b']))
        BY <2>3, <3>1 DEF Err, Ok, GoOn
      <3>3. f[root'] \in Values /\ root' \in Points /\ WithinTol(f[root'])
        BY <3>1, <3>2, ValueOfDefined DEF Defined, TypeOK
      <3>4. SearchState = "given"
        BY DEF SearchState
      <3> QED BY <2>3, <3>2, <3>3, <3>4, <1>d DEF Abstract!Next
    <2> QED BY <1>p, <2>0, <2>1, <2>2, <2>3
  <1>2. CASE BisectionTurn
    <2> USE <1>2 DEF BisectionTurn, Turn
    <2>0. phase' # "start"
      BY DEF Err, Ok, GoOn
    <2>1. a \in Points /\ b \in Points /\ a <= b /\ SearchState = "bracketed"
      BY DEF BracketHolds, SearchState
    <2>2. PICK m \in Midpoints(a, b) :
            /\ mid' = m
            /\ IF ~Defined(m) THEN Err /\ UNCHANGED <<a, b, fa>>
               ELSE IF WithinTol(f[m]) \/ b - a <= Narrow
                 THEN Ok(m, TRUE) /\ UNCHANGED <<a, b, fa>>
               ELSE GoOn /\ KeepHalf(m)
      OBVIOUS
    <2>3. m \in Points /\ a <= m /\ m <= b
      BY DEF Midpoints
    <2>4. CASE phase' = "err"
      BY <2>2, <2>4, <1>b DEF Err, Ok, GoOn, Abstract!Next
    <2>5. CASE phase' = "loop"
      <3>1. UNCHANGED <<f, method, converged, root>> /\ KeepHalf(m)
        BY <2>2, <2>5 DEF Err, Ok, GoOn
      <3>2. a <= a' /\ a' <= b' /\ b' <= b
        BY <3>1, <2>1, <2>3, PointsAssumption DEF KeepHalf
      <3>3. Crosses(a, b)' /\ SearchState' = "bracketed"
        BY <2>5, <3>1 DEF BracketHolds, SearchState
      <3> QED
        BY <2>1, <3>1, <3>2, <3>3 DEF Abstract!Shrink, Abstract!Next, Abstract!Crosses, Crosses
    <2>6. CASE phase' = "ok"
      <3>1. /\ Defined(m) /\ root' = m /\ converged' = TRUE /\ UNCHANGED <<a, b, f>>
            /\ WithinTol(f[m]) \/ b - a <= Narrow
        BY <2>2, <2>6 DEF Err, Ok, GoOn
      <3>2. f[m] \in Values
        BY <2>3, <3>1, ValueOfDefined DEF Defined, TypeOK
      <3>3. Abstract!WithinTol(root') \/ b - a <= Narrow
        BY <1>a, <3>1, <3>2 DEF Abstract!WithinTol
      <3>4. SearchState' = "answered"
        BY <2>6 DEF SearchState
      <3>5. a <= a' /\ a' <= root' /\ root' <= b' /\ b' <= b
        BY <2>1, <2>3, <3>1, PointsAssumption
      <3> QED BY <2>1, <2>3, <3>1, <3>3, <3>4, <3>5 DEF Abstract!Converge, Abstract!Next
    <2> QED BY <1>p, <2>0, <2>4, <2>5, <2>6
  <1>3. CASE BisectionEnds
    BY <1>3, <1>c DEF BisectionEnds, OutOfTurns, Ok, Abstract!Next
  <1>4. CASE NewtonStart
    <2>1. CASE Err
      BY <1>4, <2>1, <1>b DEF NewtonStart, Starting, Err, Abstract!Next
    <2>2. CASE ~Err
      <3>1. SearchState = "given" /\ SearchState' = "given" /\ UNCHANGED <<f, converged, root>>
        BY <1>4, <2>2 DEF NewtonStart, Starting, GoOn, SearchState
      <3> QED BY <3>1 DEF Abstract!Look, Abstract!Next
    <2> QED BY <2>1, <2>2
  <1>5. CASE NewtonTurn
    <2> USE <1>5 DEF NewtonTurn, Turn
    <2>0. phase' # "start"
      BY DEF Err, Ok, GoOn
    <2>1. a \in Points /\ SearchState = "given"
      BY DEF NewtonStands, SearchState
    <2>2. CASE phase' = "err"
      BY <2>2, <1>b DEF Err, Ok, GoOn, Abstract!Next
    <2>3. CASE phase' = "loop"
      <3>1. SearchState' = "given" /\ UNCHANGED <<f, converged, root>>
        BY <2>3 DEF Err, Ok, GoOn, SearchState
      <3> QED BY <2>1, <3>1 DEF Abstract!Look, Abstract!Next
    <2>4. CASE phase' = "ok" /\ WithinTol(f[a])
      <3>1. root' = a /\ converged' = TRUE /\ Defined(a)
        BY <2>4 DEF Err, Ok
      <3>2. f[a] \in Values
        BY <2>1, <3>1, ValueOfDefined DEF Defined, TypeOK
      <3> QED BY <2>1, <2>4, <3>1, <3>2, <1>d DEF Abstract!Next
    <2>5. CASE phase' = "ok" /\ ~WithinTol(f[a])
      <3>1. converged' = FALSE
        BY <2>5 DEF Err, Ok, GoOn
      <3> QED BY <2>5, <3>1, <1>c DEF Abstract!Next
    <2> QED BY <1>p, <2>0, <2>2, <2>3, <2>4, <2>5
  <1>6. CASE NewtonEnds
    BY <1>6, <1>c DEF NewtonEnds, OutOfTurns, Ok, Abstract!Next
  <1>7. CASE SecantStart
    <2> USE <1>7 DEF SecantStart, Starting
    <2>0. phase' # "start"
      BY DEF Err, Ok, GoOn
    <2>1. SearchState = "given"
      BY DEF SearchState
    <2>2. CASE phase' = "err"
      BY <2>2, <1>b DEF Err, Ok, GoOn, Abstract!Next
    <2>3. CASE phase' = "loop"
      <3>1. SearchState' = "given" /\ UNCHANGED <<f, converged, root>>
        BY <2>3 DEF Err, Ok, GoOn, SearchState
      <3> QED BY <2>1, <3>1 DEF Abstract!Look, Abstract!Next
    <2>4. CASE phase' = "ok"
      <3>1. root' = a /\ converged' = TRUE /\ Defined(a) /\ WithinTol(f[a]) /\ Infinite \notin {a, b}
        BY <2>4 DEF Err, Ok, GoOn
      <3>2. f[a] \in Values /\ a \in Points
        BY <3>1, ValueOfDefined DEF Defined, TypeOK
      <3> QED BY <2>1, <2>4, <3>1, <3>2, <1>d DEF Abstract!Next
    <2> QED BY <1>p, <2>0, <2>2, <2>3, <2>4
  <1>8. CASE SecantTurn
    <2> USE <1>8 DEF SecantTurn, Turn
    <2>0. phase' # "start"
      BY DEF Err, Ok, GoOn
    <2>1. /\ b \in Points /\ fb = f[b] /\ f[b] \in Values /\ SearchState = "given"
      BY DEF SecantRemembers, SearchState
    <2>2. CASE phase' = "err"
      BY <2>2, <1>b DEF Err, Ok, GoOn, Abstract!Next
    <2>3. CASE phase' = "loop"
      <3>1. SearchState' = "given" /\ UNCHANGED <<f, converged, root>>
        BY <2>3 DEF Err, Ok, GoOn, SearchState
      <3> QED BY <2>1, <3>1 DEF Abstract!Look, Abstract!Next
    <2>4. CASE phase' = "ok" /\ converged' = FALSE
      BY <2>4, <1>c DEF Abstract!Next
    <2>5. CASE phase' = "ok" /\ converged' # FALSE
      <3>1. CASE WithinTol(fb)
        BY <2>1, <2>5, <3>1, <1>d DEF Ok, Abstract!Next
      <3>2. CASE ~WithinTol(fb)
        <4>1. PICK next \in Points :
                /\ b' = next
                /\ IF ~Defined(next) THEN Err /\ UNCHANGED fb
                   ELSE /\ fb' = f[next]
                        /\ IF next = b THEN Ok(next, WithinTol(f[next])) ELSE GoOn
          BY <2>5, <3>2 DEF Err
        <4>2. Defined(next) /\ Ok(next, WithinTol(f[next]))
          BY <2>5, <4>1 DEF Err, GoOn
        <4>3. f[next] \in Values
          BY <4>2, ValueOfDefined DEF Defined, TypeOK
        <4>4. WithinTol(f[next]) /\ converged' = TRUE /\ root' = next
          BY <2>5, <4>2, WithinTolBoolean DEF Ok
        <4> QED BY <2>1, <2>5, <4>3, <4>4, <1>d DEF Abstract!Next
      <3> QED BY <3>1, <3>2
    <2> QED BY <1>p, <2>0, <2>2, <2>3, <2>4, <2>5
  <1>9. CASE SecantEnds
    <2> USE <1>9 DEF SecantEnds, OutOfTurns, Ok
    <2>1. /\ b \in Points /\ fb = f[b] /\ f[b] \in Values /\ SearchState = "given"
      BY DEF SecantRemembers, SearchState
    <2>2. CASE WithinTol(fb)
      <3>1. converged' = TRUE
        BY <2>2, WithinTolBoolean
      <3> QED BY <2>1, <2>2, <3>1, <1>d DEF Abstract!Next
    <2>3. CASE ~WithinTol(fb)
      <3>1. converged' = FALSE
        BY <2>3, WithinTolBoolean
      <3> QED BY <3>1, <1>c DEF Abstract!Next
    <2> QED BY <2>2, <2>3
  <1>10. CASE UNCHANGED vars
    BY <1>10 DEF vars, Abstract!vars, SearchState
  <1> QED
    BY <1>1, <1>2, <1>3, <1>4, <1>5, <1>6, <1>7, <1>8, <1>9, <1>10 DEF Next

\* The three root finders implement the abstract search: "converged" is only
\* said of a point within tolerance or of a narrow bracket with a sign change.
THEOREM Refinement == Spec => ImplementsBracketing
  <1>1. Init => Abstract!Init
    BY DEF Init, Abstract!Init, SearchState
  <1> QED
    BY <1>1, RefinementStep, Invariance, PTL DEF Spec, ImplementsBracketing, Abstract!Spec
=============================================================================
