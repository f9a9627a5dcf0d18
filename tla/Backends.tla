------------------------------ MODULE Backends ------------------------------
(***************************************************************************)
(* External backends (external/) and the counters of falling back          *)
(* (fallback.rs).  The router that tries them in turn is another project's: *)
(* here a client registers backends, asks one of them, and records what    *)
(* came of it.  A backend is [name, style, bound, room]: a Rust handler,   *)
(* or a C function with room bytes for its reply.                          *)
(***************************************************************************)
EXTENDS Rationals, Sequences, FiniteSets, Calls

CONSTANT MaxTally              \* u64::MAX

ASSUME BackendsAssumption == MaxTally \in Nat \ {0}

\* Status codes.
OK == 0
UNSUPPORTED == 1
BUFFER_TOO_SMALL == 2

RaisedSaying(e, text) == [raised |-> e, said |-> text]
Unavailable(b) == RaisedSaying("BackendUnavailable", b.name)
Unsupported(text) == RaisedSaying("OperatorUnsupported", text)
EvaluationFailed(text) == RaisedSaying("EvaluationFailed", text)

\* A reply, [is, text], is an "expression" when it parses as one; the buffer is fresh
\* and zeroed for each call, so where nothing is written there is the empty text.
Unwritten == [is |-> "message", text |-> ""]
ReadBack(reply) == IF reply.is = "expression" THEN Gave(reply.text) ELSE EvaluationFailed("parse reply")

\* Variant for the mutants: every code but OK sends the caller to the next backend.
ByStatusSoft(b, code, reply) == IF code = OK THEN ReadBack(reply) ELSE Unsupported(reply.text)

ByStatus(b, code, reply) ==
  CASE code = OK               -> ReadBack(reply)
    [] code = UNSUPPORTED      -> Unsupported(reply.text)
    [] code = BUFFER_TOO_SMALL -> EvaluationFailed("reply exceeded the buffer")
    [] OTHER                   -> EvaluationFailed(IF reply.text = "" THEN "backend returned status" ELSE reply.text)

\* does: [code, is, text, size]; a function writes nothing that has no room.
AskC(b, does) ==
  IF does.size > b.room THEN ByStatus(b, BUFFER_TOO_SMALL, Unwritten)
  ELSE ByStatus(b, does.code, [is |-> does.is, text |-> does.text])

\* does: [raised, text]; a Rust handler answers for itself.
AskRust(does) == IF does.raised = "none" THEN Gave(does.text) ELSE RaisedSaying(does.raised, does.text)

TryEvaluate(b, does) ==
  IF ~b.bound THEN Unavailable(b) ELSE IF b.style = "c" THEN AskC(b, does) ELSE AskRust(does)

WithBuffer(b, bytes) == [b EXCEPT !.room = IF bytes > 1 THEN bytes ELSE 1]

-----------------------------------------------------------------------------
(* The counters of one function. *)

NoTally == [total |-> 0, external |-> 0, successes |-> 0, fallback |-> 0]

Once(n) == IF n < MaxTally THEN n + 1 ELSE n       \* saturating_add
Counted(stats, fields) == [f \in DOMAIN stats |-> IF f \in fields THEN Once(stats[f]) ELSE stats[f]]
Recorded(stats, what) ==
  CASE what = "success"  -> Counted(stats, {"total", "external", "successes"})
    [] what = "failure"  -> Counted(stats, {"total", "external", "fallback"})
    [] what = "fallback" -> Counted(stats, {"total", "fallback"})

NoRatio == <<>>
SuccessRatio(stats) == IF stats.external = 0 THEN NoRatio ELSE Rat(stats.successes, stats.external)

-----------------------------------------------------------------------------
(* held: [backends, stats]. *)

Register ==
  /\ Calling("backend") /\ Call.op = "register"
  /\ held' = [held EXCEPT !.backends = Append(@, WithBuffer(Call.backend, Call.bytes))]
  /\ Reply(Gave(Len(held'.backends)))

AskBackend ==
  /\ Calling("backend") /\ Call.op = "ask"
  /\ Reply(TryEvaluate(held.backends[Call.n], Call.does))
  /\ UNCHANGED held

Record ==
  /\ Calling("backend") /\ Call.op = "record"
  /\ held' = [held EXCEPT !.stats = Recorded(@, Call.what)]
  /\ Reply(Gave(SuccessRatio(held'.stats)))

ResetTally ==
  /\ Calling("backend") /\ Call.op = "reset"
  /\ held' = [held EXCEPT !.stats = NoTally]
  /\ Reply(Gave(SuccessRatio(held'.stats)))

BackendsNext == Register \/ AskBackend \/ Record \/ ResetTally
=============================================================================
