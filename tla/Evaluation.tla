----------------------------- MODULE Evaluation -----------------------------
(***************************************************************************)
(* What `Evaluable::evaluate` promises, without saying how: from an        *)
(* expression with its bindings, one step yields either the value the      *)
(* expression denotes, or the fault of the first sub-expression (left to   *)
(* right) that has none, or gives up because the expression is too large.  *)
(***************************************************************************)
CONSTANTS
  Values,    \* the f64 values
  Faults,    \* the ways an expression can fail to have a value
  None,      \* no result yet
  Meaning(_) \* Meaning(e)[n]: the value or fault node n of e denotes

VARIABLES
  expr,      \* the expression being evaluated, with its bindings
  outcome,   \* "running", "ok", "fault" or "cap"
  result     \* the value or the fault, when there is one

vars == <<expr, outcome, result>>

Denotation == Meaning(expr)[expr.root]

Init ==
  /\ outcome = "running"
  /\ result = None

Answer ==
  /\ outcome = "running"
  /\ outcome' = IF Denotation \in Values THEN "ok" ELSE "fault"
  /\ result' = Denotation
  /\ UNCHANGED expr

GiveUp ==
  /\ outcome = "running"
  /\ outcome' = "cap"
  /\ UNCHANGED <<expr, result>>

Next == Answer \/ GiveUp

Spec == Init /\ [][Next]_vars
=============================================================================
