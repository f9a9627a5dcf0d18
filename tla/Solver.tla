-------------------------------- MODULE Solver --------------------------------
(***************************************************************************)
(* `solve_with_method` (numerical/methods.rs): a bracket grown outward     *)
(* from one seed, then bisection or Brent's method on it; or Newton or     *)
(* secant from the seed.  A step is the prologue of a call, one side of    *)
(* one expansion, or one turn of a loop.                                   *)
(*                                                                         *)
(* Arguments and values are abstracted as in RootFinding.  Beyond Points   *)
(* the function has no value.  Where an interpolation leads is any point   *)
(* that the code accepts.  After k expansions a side has come Reach[k].    *)
(***************************************************************************)
EXTENDS Integers

CONSTANTS
  Points,          \* floats, as consecutive integers
  Infinite,        \* a seed that is not finite
  Values,          \* finite values of the function
  Undefined,       \* the sampler fails
  Vanishing,       \* the pairs of values whose product underflows to zero
  Functions,       \* the functions solved
  Calls,           \* the calls made, as [method, seed]
  Tol,             \* ARITHMA_SOLVE_RESIDUAL_TOL
  Narrow,          \* ARITHMA_SOLVE_STEP_TOL, in floats
  MaxIterations,   \* ARITHMA_SOLVE_MAX_ITERATIONS
  MaxExpansions,   \* ARITHMA_SOLVE_MAX_EXPANSIONS, or as many as the step stays finite
  Reach,           \* from the seed to an end of the window, expansion by expansion
  Offset           \* from the seed to secant's second point

Methods == {"bisection", "brent", "newton", "secant"}

ASSUME PointsAssumption == Points \subseteq Int /\ Infinite \notin Points
ASSUME ValuesAssumption == Values \subseteq Int /\ Undefined \notin Values
ASSUME FunctionsAssumption == Functions \subseteq [Points -> Values \cup {Undefined}]
ASSUME CallsAssumption == Calls \subseteq [method : Methods, seed : Points \cup {Infinite}]
ASSUME LimitsAssumption ==
  /\ Tol \in Nat /\ Narrow \in Nat /\ MaxIterations \in Nat /\ MaxExpansions \in Nat
  /\ Offset \in Nat \ {0}
  /\ Reach \in [0..MaxExpansions -> Nat] /\ Reach[0] = 0
  /\ \A k \in 1..MaxExpansions : Reach[k - 1] < Reach[k]

VARIABLES
  f,             \* the function
  method, seed,  \* the call
  a, b,          \* the window, then the bracket (Brent's b is its better end), or secant's points
  fa, fb,        \* the values remembered for them
  c, d,          \* Brent's b of one and of two turns ago
  halved,        \* Brent's last point was a midpoint
  lowAlive, highAlive,   \* the sides of the window that still have values
  turn,          \* expansions, then turns, begun
  phase,         \* "start", "low" and "high" of an expansion, a method's loop, "ok" or "err"
  how,           \* what an answer rests on: "residual", "bracket" or "step"
  root           \* the answer

call == <<f, method, seed>>
window == <<a, b, fa, fb>>
brents == <<c, d, halved>>
alive == <<lowAlive, highAlive>>
answer == <<how, root>>
vars == <<call, window, brents, alive, turn, phase, answer>>

Magnitude(v) == IF v < 0 THEN -v ELSE v
WithinTol(v) == Magnitude(v) <= Tol

Opposite(v, w) == ((v < 0 /\ w > 0) \/ (v > 0 /\ w < 0)) /\ <<v, w>> \notin Vanishing

\* The product of two values past the tolerance does not underflow.
ASSUME ToleranceAssumption ==
  \A v, w \in Values : ~WithinTol(v) /\ ~WithinTol(w) => <<v, w>> \notin Vanishing

\* Sampler::f
Sample(x) == IF x \in Points THEN f[x] ELSE Undefined
Defined(x) == Sample(x) # Undefined

Distance(x, y) == Magnitude(x - y)
Close(x, y) == Distance(x, y) <= Narrow

Init ==
  /\ f \in Functions
  /\ \E q \in Calls : method = q.method /\ seed = q.seed
  /\ a = seed /\ b = seed /\ fa = 0 /\ fb = 0
  /\ c = seed /\ d = seed /\ halved = TRUE
  /\ lowAlive = TRUE /\ highAlive = TRUE
  /\ turn = 0
  /\ phase = "start"
  /\ how = "residual" /\ root = seed

Ok(x, ground) == phase' = "ok" /\ root' = x /\ how' = ground
Err           == phase' = "err" /\ UNCHANGED answer
To(p)         == phase' = p /\ UNCHANGED answer
-----------------------------------------------------------------------------
(***************************************************************************)
(* The prologue, and bracket_around.                                       *)
(***************************************************************************)
Starting(ms) == phase = "start" /\ method \in ms /\ UNCHANGED <<call, brents, alive, turn>>

RejectSeed == Starting(Methods) /\ seed = Infinite /\ Err /\ UNCHANGED window

StartWindow ==
  /\ Starting({"bisection", "brent"})
  /\ seed # Infinite
  /\ UNCHANGED <<a, b>>
  /\ IF ~Defined(seed) THEN Err /\ UNCHANGED <<fa, fb>>
     ELSE /\ fa' = f[seed] /\ fb' = f[seed]
          /\ IF f[seed] = 0 THEN Ok(seed, "residual") ELSE To("low")

\* The end with the smaller residual is b.
Rank(x, fx, y, fy) ==
  IF Magnitude(fx) < Magnitude(fy)
    THEN a' = y /\ fa' = fy /\ b' = x /\ fb' = fx
    ELSE a' = x /\ fa' = fx /\ b' = y /\ fb' = fy

\* What bisect or brent makes of the bracket it is given.
Open(l, fl, h, fh) ==
  /\ turn' = 0
  /\ To(method)
  /\ IF method = "brent"
       THEN Rank(l, fl, h, fh) /\ c' = a' /\ d' = a' /\ halved' = TRUE
       ELSE a' = l /\ fa' = fl /\ b' = h /\ fb' = fh /\ UNCHANGED brents

\* step, in the k-th expansion
StepLength(k) == Reach[k] - Reach[k - 1]

Expanding(side) ==
  /\ phase = side
  /\ turn < MaxExpansions
  /\ lowAlive \/ highAlive
  /\ UNCHANGED call

\* A side that is frozen stays, and the other goes on alone.
ExpandLow ==
  LET next == a - StepLength(turn + 1) IN
  /\ Expanding("low")
  /\ UNCHANGED highAlive
  /\ IF ~lowAlive \/ ~Defined(next)
       THEN lowAlive' = FALSE /\ To("high") /\ UNCHANGED <<window, brents, turn>>
     ELSE
       /\ UNCHANGED lowAlive
       /\ IF f[next] = 0 THEN Ok(next, "residual") /\ UNCHANGED <<window, brents, turn>>
          ELSE IF Opposite(f[next], fa) THEN Open(next, f[next], a, fa)
          ELSE a' = next /\ fa' = f[next] /\ To("high") /\ UNCHANGED <<b, fb, brents, turn>>

ExpandHigh ==
  LET next == b + StepLength(turn + 1) IN
  /\ phase = "high"
  /\ UNCHANGED <<call, lowAlive>>
  /\ IF ~highAlive \/ ~Defined(next)
       THEN highAlive' = FALSE /\ turn' = turn + 1 /\ To("low") /\ UNCHANGED <<window, brents>>
     ELSE
       /\ UNCHANGED highAlive
       /\ IF f[next] = 0 THEN Ok(next, "residual") /\ UNCHANGED <<window, brents, turn>>
          ELSE IF Opposite(fb, f[next]) THEN Open(b, fb, next, f[next])
          ELSE b' = next /\ fb' = f[next] /\ turn' = turn + 1 /\ To("low")
               /\ UNCHANGED <<a, fa, brents>>

\* Variant for the mutants: one frozen side ends the search.
NoBracketOneSided ==
  /\ phase = "low"
  /\ turn = MaxExpansions \/ ~(lowAlive /\ highAlive)
  /\ Err
  /\ UNCHANGED <<call, window, brents, alive, turn>>

NoBracket ==
  /\ phase = "low"
  /\ turn = MaxExpansions \/ ~(lowAlive \/ highAlive)
  /\ Err
  /\ UNCHANGED <<call, window, brents, alive, turn>>
-----------------------------------------------------------------------------
(***************************************************************************)
(* The loops.                                                              *)
(***************************************************************************)
Turn(m) ==
  /\ phase = m
  /\ turn < MaxIterations
  /\ turn' = turn + 1
  /\ UNCHANGED <<call, alive>>

OutOfTurns(m) ==
  /\ phase = m
  /\ turn = MaxIterations
  /\ UNCHANGED <<call, window, brents, alive, turn>>

\* Variant for the mutants: the cap looks like convergence.
OkAnyway(x) == Ok(x, "residual")

\* converged_or_err
ConvergedOrErr(x) ==
  IF Defined(x) /\ WithinTol(Sample(x)) THEN Ok(x, "residual") ELSE Err

Midpoints(x, y) == {m \in Points : 2 * m - (x + y) \in {-1, 0, 1}}

BisectTurn ==
  /\ Turn("bisection")
  /\ \E mid \in Midpoints(a, b) :
       IF ~Defined(mid) THEN Err /\ UNCHANGED window
       ELSE IF f[mid] = 0 THEN Ok(mid, "residual") /\ UNCHANGED window
       ELSE IF Close(a, b) THEN Ok(mid, "bracket") /\ UNCHANGED window
       ELSE /\ To("bisection")
            /\ IF Opposite(fa, f[mid])
                 THEN b' = mid /\ UNCHANGED <<a, fa, fb>>
                 ELSE a' = mid /\ fa' = f[mid] /\ UNCHANGED <<b, fb>>
  /\ UNCHANGED brents

BisectEnds == OutOfTurns("bisection") /\ \E mid \in Midpoints(a, b) : ConvergedOrErr(mid)

\* The points an interpolation may lead to: between b and a quarter of the way from
\* a, and a step less than half the one before the last.
Interpolated ==
  LET before == IF halved THEN Distance(b, c) ELSE Distance(c, d)
  IN {s \in Points : /\ (4 * s - (3 * a + b)) * (s - b) < 0
                     /\ 2 * Distance(s, b) < before
                     /\ before >= Narrow}

\* Variant for the mutants: the better end is not made b again.
ReplaceUnranked(s) ==
  IF Opposite(fa, f[s]) THEN b' = s /\ fb' = f[s] /\ UNCHANGED <<a, fa>>
                        ELSE a' = s /\ fa' = f[s] /\ UNCHANGED <<b, fb>>

\* The ends are ranked again around the new point.
Replace(s) == IF Opposite(fa, f[s]) THEN Rank(a, fa, s, f[s]) ELSE Rank(s, f[s], b, fb)

BrentReturns ==
  /\ Turn("brent")
  /\ WithinTol(fb) \/ Close(a, b)
  /\ Ok(b, IF WithinTol(fb) THEN "residual" ELSE "bracket")
  /\ UNCHANGED <<window, brents>>

BrentTurn ==
  /\ Turn("brent")
  /\ ~WithinTol(fb) /\ ~Close(a, b)
  /\ \E s \in Interpolated \cup Midpoints(a, b) :
       /\ halved' \in {h \in BOOLEAN : s \in IF h THEN Midpoints(a, b) ELSE Interpolated}
       /\ IF ~Defined(s) THEN Err /\ UNCHANGED <<window, c, d>>
          ELSE /\ To("brent")
               /\ d' = c /\ c' = b
               /\ Replace(s)

BrentEnds == OutOfTurns("brent") /\ ConvergedOrErr(b)

StartNewton ==
  /\ Starting({"newton"}) /\ seed # Infinite /\ To("newton") /\ UNCHANGED window

\* The central difference may have no value or vanish, and the step may leave the
\* finite floats; a step that hardly moves is the answer, not evaluated.
NewtonTurn ==
  /\ Turn("newton")
  /\ UNCHANGED <<b, fa, fb, brents>>
  /\ IF ~Defined(a) THEN Err /\ UNCHANGED a
     ELSE IF WithinTol(f[a]) THEN Ok(a, "residual") /\ UNCHANGED a
     ELSE \/ Err /\ UNCHANGED a
          \/ \E next \in Points :
               IF Close(next, a) THEN Ok(next, "step") /\ UNCHANGED a
               ELSE a' = next /\ To("newton")

StartSecant ==
  /\ Starting({"secant"})
  /\ seed # Infinite
  /\ UNCHANGED a /\ b' = seed + Offset
  /\ IF Defined(a) /\ Defined(b')
       THEN fa' = f[a] /\ fb' = f[b'] /\ To("secant")
       ELSE Err /\ UNCHANGED <<fa, fb>>

SecantTurn ==
  /\ Turn("secant")
  /\ UNCHANGED brents
  /\ IF WithinTol(fb) THEN Ok(b, "residual") /\ UNCHANGED window
     ELSE \/ Err /\ UNCHANGED window
          \/ /\ fa # fb
             /\ \E next \in Points :
                  IF Close(next, b) THEN Ok(next, "step") /\ UNCHANGED window
                  ELSE /\ a' = b /\ fa' = fb /\ b' = next
                       /\ IF Defined(next) THEN fb' = f[next] /\ To("secant")
                          ELSE Err /\ UNCHANGED fb

\* Newton and secant are not asked for their residual at the cap.
OpenMethodEnds == (OutOfTurns("newton") \/ OutOfTurns("secant")) /\ Err

Next ==
  \/ RejectSeed \/ StartWindow \/ ExpandLow \/ ExpandHigh \/ NoBracket
  \/ BisectTurn \/ BisectEnds
  \/ BrentReturns \/ BrentTurn \/ BrentEnds
  \/ StartNewton \/ NewtonTurn
  \/ StartSecant \/ SecantTurn \/ OpenMethodEnds

Spec == Init /\ [][Next]_vars
-----------------------------------------------------------------------------
TypeOK ==
  /\ f \in [Points -> Values \cup {Undefined}]
  /\ method \in Methods /\ seed \in Points \cup {Infinite}
  /\ a \in Points \cup {Infinite} /\ b \in Int \cup {Infinite}
  /\ fa \in Values \cup {0} /\ fb \in Values \cup {0}
  /\ c \in Points \cup {Infinite} /\ d \in Points \cup {Infinite}
  /\ halved \in BOOLEAN /\ lowAlive \in BOOLEAN /\ highAlive \in BOOLEAN
  /\ turn \in 0..MaxIterations \cup 0..MaxExpansions
  /\ phase \in {"start", "low", "high", "ok", "err"} \cup Methods
  /\ how \in {"residual", "bracket", "step"}
  /\ root \in Points \cup {Infinite}

Crosses(x, y) ==
  /\ f[x] \in Values /\ f[y] \in Values
  /\ (f[x] < 0 /\ f[y] > 0) \/ (f[x] > 0 /\ f[y] < 0)

\* Two values of opposite signs whose product underflows: bracket_around and bisect,
\* which test a residual for zero only, can take them for values of one sign.
Misleading ==
  \E x, y \in Points : <<f[x], f[y]>> \in Vanishing /\ Crosses(x, y)

\* Brent has come within tolerance; the next turn returns.
OnRoot == phase = "brent" /\ WithinTol(fb)

\* Bisection and Brent keep the sign change and the values that tell on which side
\* it is, Brent also through its exchanges of ends, the better of which is b, and
\* even where products underflow.
BracketHolds ==
  /\ phase = "bisection" => a <= b /\ fa = f[a] /\ (Crosses(a, b) \/ Misleading)
  /\ phase = "brent" =>
       /\ fa = f[a] /\ fb = f[b]
       /\ Magnitude(fb) <= Magnitude(fa)
       /\ Crosses(a, b) \/ OnRoot

\* "No sign change found" is true of every sample the search could see: those on
\* either side of the seed, each one expansion further, up to the first without a
\* value.  Growing one side never hides what the other would have found.
Visible(dir) ==
  {seed + dir * Reach[k] : k \in {k \in 0..MaxExpansions :
                                    \A j \in 0..k : Defined(seed + dir * Reach[j])}}
NothingOverlooked ==
  phase = "err" /\ method \in {"bisection", "brent"} /\ seed # Infinite =>
    \/ Crosses(a, b) \/ Misleading
    \/ ~Defined(seed)
    \/ \A x, y \in Visible(-1) \cup Visible(1) : ~Crosses(x, y) /\ f[x] # 0

\* The dispatcher implements the promise of Bracketing with two exceptions, which
\* count as answers that claim nothing: one of Newton or secant that rests on a
\* small step, where nothing is known of the residual, and one that rests on the
\* bracket of a bisection on values whose products underflow.
Unsure == phase = "ok" /\ (how = "step" \/ (how = "bracket" /\ method = "bisection" /\ Misleading))

SearchState ==
  IF phase \in {"ok", "err"} \/ OnRoot THEN "answered"
  ELSE IF phase = "brent" \/ (phase = "bisection" /\ ~Misleading) THEN "bracketed"
  ELSE "given"
Low  == IF a <= b THEN a ELSE b
High == IF a <= b THEN b ELSE a

Abstract == INSTANCE Bracketing WITH
  lo <- Low, hi <- High, state <- SearchState,
  root <- IF OnRoot THEN b ELSE root,
  converged <- OnRoot \/ (phase = "ok" /\ ~Unsure)

ImplementsBracketing == Abstract!Spec
=============================================================================
