----------------------------- MODULE RootFinding -----------------------------
(***************************************************************************)
(* `find_root_bisection`, `find_root_newton_raphson` and                   *)
(* `find_root_secant` (numerical/root_finding.rs).  A step is the prologue *)
(* of a call or one turn of its loop.                                      *)
(*                                                                         *)
(* Points stands for the floats of an interval, numbered in order, and f   *)
(* gives each a value or Undefined where `eval_at` fails.  The point a     *)
(* Newton or secant formula leads to is any point; the midpoint of an odd  *)
(* number of floats is rounded either way.  Products of values are used    *)
(* for their sign only, and a product may underflow to zero.               *)
(***************************************************************************)
EXTENDS Integers

CONSTANTS
  Points,          \* floats, as consecutive integers
  Infinite,        \* an argument that is not finite
  Values,          \* finite values of the function
  Undefined,       \* eval_at is an error, or not finite
  Vanishing,       \* the pairs of values whose product underflows to zero
  Functions,       \* the functions searched
  Calls,           \* the calls made, as [method, a, b]
  Tol,             \* config.tol
  MaxIterations,   \* config.max_iterations
  Narrow           \* EPSILON * max(|mid|, 1), in floats

ASSUME PointsAssumption == Points \subseteq Int /\ Infinite \notin Points
ASSUME ValuesAssumption == Values \subseteq Int /\ Undefined \notin Values
ASSUME LimitsAssumption == Tol \in Nat /\ MaxIterations \in Nat /\ Narrow \in Nat
ASSUME FunctionsAssumption == Functions \subseteq [Points -> Values \cup {Undefined}]
ASSUME CallsAssumption ==
  Calls \subseteq [method : {"bisection", "newton", "secant"},
                   a : Points \cup {Infinite}, b : Points \cup {Infinite}]

VARIABLES
  f,           \* the function
  method,      \* which of the three was called
  a, b,        \* its two points; a is the only one of Newton's
  fa, fb,      \* the values it remembers for them
  mid,         \* bisection's last midpoint
  iteration,   \* turns of the loop taken
  phase,       \* "start", "loop", "ok" or "err"
  root,        \* the root returned
  converged    \* and its flag

vars == <<f, method, a, b, fa, fb, mid, iteration, phase, root, converged>>

Magnitude(v) == IF v < 0 THEN -v ELSE v
WithinTol(v) == Magnitude(v) <= Tol

\* Variant for the mutants: the bracket is taken on trust.
NeverSame(v, w) == FALSE

\* fa * fm < 0.0 and fa * fb > 0.0
Opposite(v, w) == ((v < 0 /\ w > 0) \/ (v > 0 /\ w < 0)) /\ <<v, w>> \notin Vanishing
SameSign(v, w) == ((v < 0 /\ w < 0) \/ (v > 0 /\ w > 0)) /\ <<v, w>> \notin Vanishing

\* The product of two values past the tolerance does not underflow.
ASSUME ToleranceAssumption ==
  \A v, w \in Values : ~WithinTol(v) /\ ~WithinTol(w) => <<v, w>> \notin Vanishing

Defined(x) == f[x] # Undefined

Init ==
  /\ f \in Functions
  /\ \E c \in Calls : method = c.method /\ a = c.a /\ b = c.b
  /\ fa = 0 /\ fb = 0
  /\ mid = a /\ root = a
  /\ iteration = 0
  /\ phase = "start"
  /\ converged = FALSE

Ok(x, flag) == phase' = "ok" /\ root' = x /\ converged' = flag
Err         == phase' = "err" /\ UNCHANGED <<root, converged>>
GoOn        == phase' = "loop" /\ UNCHANGED <<root, converged>>

Starting(m) ==
  /\ phase = "start"
  /\ method = m
  /\ UNCHANGED <<f, method, iteration>>

\* A turn of the loop, while the budget lasts.
Turn(m) ==
  /\ phase = "loop"
  /\ method = m
  /\ iteration < MaxIterations
  /\ iteration' = iteration + 1
  /\ UNCHANGED <<f, method>>

OutOfTurns(m) ==
  /\ phase = "loop"
  /\ method = m
  /\ iteration = MaxIterations
  /\ UNCHANGED <<f, method, a, b, fa, fb, mid, iteration>>
-----------------------------------------------------------------------------
(***************************************************************************)
(* find_root_bisection                                                     *)
(***************************************************************************)
Lower(x, y)  == IF x <= y THEN x ELSE y
Higher(x, y) == IF x <= y THEN y ELSE x

\* The bracket is ordered, its ends are tried, and a sign change is required.
BisectionStart ==
  /\ Starting("bisection")
  /\ IF Infinite \in {a, b} THEN Err /\ UNCHANGED <<a, b, fa, fb, mid>>
     ELSE
       /\ a' = Lower(a, b) /\ b' = Higher(a, b)
       /\ mid' = Lower(a, b)
       /\ fa' = IF Defined(a') THEN f[a'] ELSE fa
       /\ UNCHANGED fb
       /\ IF ~Defined(a') \/ ~Defined(b') THEN Err
          ELSE IF WithinTol(f[a'])        THEN Ok(a', TRUE)
          ELSE IF WithinTol(f[b'])        THEN Ok(b', TRUE)
          ELSE IF SameSign(f[a'], f[b'])  THEN Err
          ELSE GoOn

Midpoints(x, y) == {m \in Points : x <= m /\ m <= y /\ 2 * m - (x + y) \in {-1, 0, 1}}

\* Variants for the mutants: the value remembered is not refreshed; the other
\* half is kept.
KeepHalfStale(m) ==
  IF Opposite(fa, f[m])
    THEN b' = m /\ UNCHANGED <<a, fa>>
    ELSE a' = m /\ UNCHANGED <<b, fa>>

KeepOtherHalf(m) ==
  IF Opposite(fa, f[m])
    THEN a' = m /\ fa' = f[m] /\ UNCHANGED b
    ELSE b' = m /\ UNCHANGED <<a, fa>>

\* Which half is kept.
KeepHalf(m) ==
  IF Opposite(fa, f[m])
    THEN b' = m /\ UNCHANGED <<a, fa>>
    ELSE a' = m /\ fa' = f[m] /\ UNCHANGED b

BisectionTurn ==
  /\ Turn("bisection")
  /\ \E m \in Midpoints(a, b) :
       /\ mid' = m
       /\ IF ~Defined(m) THEN Err /\ UNCHANGED <<a, b, fa>>
          ELSE IF WithinTol(f[m]) \/ b - a <= Narrow
            THEN Ok(m, TRUE) /\ UNCHANGED <<a, b, fa>>
          ELSE GoOn /\ KeepHalf(m)
  /\ UNCHANGED fb

BisectionEnds == OutOfTurns("bisection") /\ Ok(mid, FALSE)
-----------------------------------------------------------------------------
(***************************************************************************)
(* find_root_newton_raphson                                                *)
(***************************************************************************)
\* The symbolic derivative may not exist.
NewtonStart ==
  /\ Starting("newton")
  /\ UNCHANGED <<a, b, fa, fb, mid>>
  /\ Err \/ (a # Infinite /\ GoOn)

\* The derivative may have no value or be zero, and the step may leave the
\* finite floats; a step that does not move returns what the residual says.
NewtonTurn ==
  /\ Turn("newton")
  /\ UNCHANGED <<b, fa, fb, mid>>
  /\ IF ~Defined(a) THEN Err /\ UNCHANGED a
     ELSE IF WithinTol(f[a]) THEN Ok(a, TRUE) /\ UNCHANGED a
     ELSE \/ Err /\ UNCHANGED a
          \/ \E next \in Points :
               /\ a' = next
               /\ IF next = a THEN Ok(next, WithinTol(f[next])) ELSE GoOn

\* The last point is not evaluated.
NewtonEnds == OutOfTurns("newton") /\ Ok(a, FALSE)
-----------------------------------------------------------------------------
(***************************************************************************)
(* find_root_secant                                                        *)
(***************************************************************************)
SecantStart ==
  /\ Starting("secant")
  /\ UNCHANGED <<a, b, mid>>
  /\ IF Infinite \in {a, b} \/ a = b \/ ~Defined(a) \/ ~Defined(b)
       THEN Err /\ UNCHANGED <<fa, fb>>
       ELSE /\ fa' = f[a] /\ fb' = f[b]
            /\ IF WithinTol(f[a]) THEN Ok(a, TRUE) ELSE GoOn

\* A horizontal secant is an error, and so is a step off the finite floats.
SecantTurn ==
  /\ Turn("secant")
  /\ UNCHANGED mid
  /\ IF WithinTol(fb) THEN Ok(b, TRUE) /\ UNCHANGED <<a, b, fa, fb>>
     ELSE \/ Err /\ UNCHANGED <<a, b, fa, fb>>
          \/ \E next \in Points :
               /\ fa # fb
               /\ a' = b /\ fa' = fb
               /\ b' = next
               /\ IF ~Defined(next) THEN Err /\ UNCHANGED fb
                  ELSE /\ fb' = f[next]
                       /\ IF next = b THEN Ok(next, WithinTol(f[next])) ELSE GoOn

SecantEnds == OutOfTurns("secant") /\ Ok(b, WithinTol(fb))
-----------------------------------------------------------------------------
Next ==
  \/ BisectionStart \/ BisectionTurn \/ BisectionEnds
  \/ NewtonStart \/ NewtonTurn \/ NewtonEnds
  \/ SecantStart \/ SecantTurn \/ SecantEnds

Spec == Init /\ [][Next]_vars
-----------------------------------------------------------------------------
TypeOK ==
  /\ f \in Functions
  /\ method \in {"bisection", "newton", "secant"}
  /\ a \in Points \cup {Infinite} /\ b \in Points \cup {Infinite}
  /\ fa \in Values \cup {0} /\ fb \in Values \cup {0}
  /\ mid \in Points \cup {Infinite} /\ root \in Points \cup {Infinite}
  /\ iteration \in 0..MaxIterations
  /\ phase \in {"start", "loop", "ok", "err"}
  /\ converged \in BOOLEAN

Crosses(x, y) ==
  /\ f[x] \in Values /\ f[y] \in Values
  /\ (f[x] < 0 /\ f[y] > 0) \/ (f[x] > 0 /\ f[y] < 0)

\* While bisection runs, the function changes sign between its two points,
\* neither of which is a root, and the value it remembers for the lower one is
\* that point's: the half that is thrown away never holds the only sign change.
BracketHolds ==
  method = "bisection" /\ phase = "loop" =>
    /\ a \in Points /\ b \in Points /\ a <= b
    /\ Crosses(a, b) /\ ~WithinTol(f[a]) /\ ~WithinTol(f[b])
    /\ fa = f[a]
    /\ mid \in {a, b}

\* What the others remember is what they will be judged by.
SecantRemembers ==
  method = "secant" /\ phase = "loop" =>
    /\ a \in Points /\ b \in Points
    /\ fa = f[a] /\ fb = f[b] /\ f[a] \in Values /\ f[b] \in Values

NewtonStands == method = "newton" /\ phase = "loop" => a \in Points

\* The flag is only ever raised by a return.
Undecided == phase # "ok" => converged = FALSE

\* An answer flagged as unconverged is still the best bisection has: a point of
\* the bracket, the tolerance not met there.
UnconvergedIsBest ==
  method = "bisection" /\ phase = "ok" /\ ~converged =>
    /\ a <= b /\ Crosses(a, b)
    /\ root \in {a, b} /\ ~WithinTol(f[root])

\* The search implements the promise of Bracketing.
SearchState ==
  IF phase \in {"ok", "err"} THEN "answered"
  ELSE IF phase = "loop" /\ method = "bisection" THEN "bracketed"
  ELSE "given"

Abstract == INSTANCE Bracketing WITH lo <- a, hi <- b, state <- SearchState

ImplementsBracketing == Abstract!Spec
=============================================================================
