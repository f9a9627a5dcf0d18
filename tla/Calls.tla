-------------------------------- MODULE Calls --------------------------------
(***************************************************************************)
(* The Python facade (pyfacade/): a session holds one object and makes a    *)
(* sequence of calls.  A call is screened by ordered checks, the first of   *)
(* which that fails names the exception, and then handed to a kernel, whose *)
(* refusals become exceptions too.                                         *)
(***************************************************************************)
EXTENDS Integers, Sequences, FiniteSets

CONSTANTS MalformedNames,      \* empty, longer than MAX_VARIABLE_NAME_LEN, or with a blank
          Spellings,           \* spelling of an enum name -> its canonical name
          SequenceCap          \* MAX_SEQUENCE_LEN

VARIABLES session,             \* [object, calls]
          held,                \* the object the session holds, as the calls left it
          answers              \* one reply per call made so far

callVars == <<session, held, answers>>

Nothing == [pending |-> FALSE]       \* held where the calls need no object

Gave(v)   == [raised |-> "none", value |-> v]
Raised(e) == [raised |-> e]

\* checks: <<refused, exception>>, in the order the code makes them.
Screen(checks) ==
  LET bad == {k \in DOMAIN checks : checks[k][1]}
  IN  IF bad = {} THEN "none" ELSE checks[CHOOSE k \in bad : \A l \in bad : k <= l][2]

\* The Python classes of a call's operands: Expression, int and float will do.
OperandRefused(classes) == ~(classes \subseteq {"Expression", "int", "float"})
NameRefused(name) == name \in MalformedNames

\* Case, blanks and separators are ignored: Spellings has the names that are read.
EnumRefused(spelling, names) ==
  spelling \notin DOMAIN Spellings \/ Spellings[spelling] \notin names

Call == session.calls[Len(answers) + 1]
Calling(kind) == Len(answers) < Len(session.calls) /\ Call.kind = kind
Reply(answer) == answers' = Append(answers, answer) /\ UNCHANGED session
=============================================================================
