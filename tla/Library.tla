------------------------------- MODULE Library -------------------------------
(***************************************************************************)
(* The callable surface of arithma_core: the calls of the Python facade,    *)
(* and those of the core library (text, sums of terms, evaluate_precise, backends)   *)
(* that Python cannot reach.  A session holds one object and makes its     *)
(* calls in order; a derivative or a precise evaluation runs its machine   *)
(* to the end before the call is answered.                                 *)
(***************************************************************************)
EXTENDS Arrays, FacadeCalculus, FacadeCore, Equations, Fourier, Dimensions, Notation,
        Geometry, Statistics, Backends, PreciseInterval

CONSTANT Sessions              \* the sessions: [object, calls]

vars == <<callVars, calculusVars, preciseVars>>

\* At most one precise call, which comes first; its job is the object.
Precise(s) == s.calls[1].kind = "precise"
NoJob == [prog |-> <<>>, bits |-> 0]

Init ==
  /\ session \in Sessions
  /\ held = session.object /\ answers = <<>>
  /\ queue = <<>> /\ produced = <<>> /\ DiffIdle
  /\ IF Precise(session) THEN Given(session.object, "running") ELSE Given(NoJob, "idle")

PreciseStep == PreciseNext /\ UNCHANGED <<callVars, calculusVars>>

PreciseReply ==
  /\ Calling("precise") /\ outcome # "running"
  /\ Reply(IF outcome = "ok" THEN Gave(answer) ELSE Raised(outcome))
  /\ UNCHANGED <<held, calculusVars, preciseVars>>

\* A refused sum is not evaluated.
TermSumCall ==
  LET made == IF Call.op = "polynomial" THEN Polynomial(Call.var, Call.names) ELSE TermSum(Call.pairs)
      total == EvaluateSum(made.branches, Call.inputs, Call.coefficients)
  IN  /\ Calling("termsum")
      /\ Reply(IF made.error # "none" THEN Raised(made.error)
               ELSE IF total.error # "none" THEN Raised(total.error)
               ELSE Gave(total.branches))
      /\ UNCHANGED <<held, calculusVars, preciseVars>>

Machines == <<calculusVars, preciseVars>>

Next ==
  \/ LinalgNext /\ UNCHANGED Machines
  \/ EquationsNext /\ UNCHANGED Machines
  \/ FourierNext /\ UNCHANGED Machines
  \/ CoreNext /\ UNCHANGED Machines
  \/ UnitCall /\ UNCHANGED Machines
  \/ TextCall /\ UNCHANGED Machines
  \/ GeometryNext /\ UNCHANGED Machines
  \/ StatisticsNext /\ UNCHANGED Machines
  \/ BackendsNext /\ UNCHANGED Machines
  \/ CalculusNext /\ UNCHANGED preciseVars
  \/ PreciseStep
  \/ PreciseReply
  \/ TermSumCall

Spec == Init /\ [][Next]_vars
=============================================================================
