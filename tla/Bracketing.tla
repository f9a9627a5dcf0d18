----------------------------- MODULE Bracketing -----------------------------
(***************************************************************************)
(* What a root finder promises, without saying how it searches: it answers *)
(* "converged" only at a point where the residual is within tolerance, or  *)
(* inside a narrow bracket across which the function changes sign; once a  *)
(* bracket has been opened it only shrinks, and never loses the sign       *)
(* change.                                                                 *)
(***************************************************************************)
EXTENDS Integers

CONSTANTS
  Points,      \* the arguments, an interval of floats numbered in order
  Values,      \* the finite values of the function
  Tol,         \* a residual up to Tol counts as a root
  Narrow       \* a bracket up to this wide counts as closed

VARIABLES
  f,           \* the function: Points to Values, or to something else where it has no value
  lo, hi,      \* the bracket; any two points until it is opened
  state,       \* "given", "bracketed" or "answered"
  converged,   \* the answer says so
  root         \* where it is

vars == <<f, lo, hi, state, converged, root>>

Crosses(l, h) ==
  /\ f[l] \in Values /\ f[h] \in Values
  /\ (f[l] < 0 /\ f[h] > 0) \/ (f[l] > 0 /\ f[h] < 0)

WithinTol(x) == f[x] \in Values /\ -Tol <= f[x] /\ f[x] <= Tol

Init == state = "given" /\ ~converged

\* Before a bracket is open the search may look anywhere.
Look ==
  /\ state = "given"
  /\ UNCHANGED <<f, state, converged, root>>

Open ==
  /\ state = "given"
  /\ state' = "bracketed"
  /\ lo' <= hi' /\ Crosses(lo', hi')
  /\ UNCHANGED <<f, converged, root>>

Shrink ==
  /\ state = "bracketed"
  /\ lo <= lo' /\ lo' <= hi' /\ hi' <= hi
  /\ Crosses(lo', hi')
  /\ UNCHANGED <<f, state, converged, root>>

Converge ==
  /\ state # "answered"
  /\ root' \in Points
  /\ \/ WithinTol(root')
     \/ state = "bracketed" /\ hi - lo <= Narrow
  /\ state = "bracketed" => lo <= lo' /\ lo' <= root' /\ root' <= hi' /\ hi' <= hi
  /\ state' = "answered"
  /\ converged' = TRUE
  /\ UNCHANGED f

GiveUp ==
  /\ state # "answered"
  /\ state' = "answered"
  /\ converged' = FALSE
  /\ UNCHANGED f

Next == Look \/ Open \/ Shrink \/ Converge \/ GiveUp

Spec == Init /\ [][Next]_vars
=============================================================================
