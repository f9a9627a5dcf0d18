-------------------------- MODULE ConstantRegistry --------------------------
(***************************************************************************)
(* The process-wide symbol registry (constants.rs), shared by threads.     *)
(* Every access holds the registry's lock for one symbol only, so a load   *)
(* or a bulk registration is many steps, between which others run.         *)
(*                                                                         *)
(* A call carries a document: a sequence of entries, one for the calls     *)
(* that name a single symbol.  An entry is good, disabled (a load passes   *)
(* over it), or bad (no symbol, no value, in a dict a key of another type);*)
(* a document that does not parse at all registers nothing and is left out.*)
(***************************************************************************)
EXTENDS Integers, Sequences, FiniteSets

CONSTANTS
  Threads,
  Symbols,         \* keys of the map
  Values,          \* the expressions registered
  Absent,          \* no entry
  Aliases,         \* the symbols resolve_alias knows
  Canonical(_),    \* and the symbol each stands for
  Calls,           \* the calls made, as [op, doc]
  Idle,            \* no call
  MaxCalls         \* bound on the number of calls

Ops == {"lookup", "register", "reregister", "load", "register_many", "replace_many"}
Entries == [symbol : Symbols, value : Values, kind : {"good", "disabled", "bad"}]

ASSUME SymbolsAssumption ==
  Aliases \subseteq Symbols /\ \A s \in Aliases : Canonical(s) \in Symbols
ASSUME AbsentAssumption == Absent \notin Values
ASSUME CallsAssumption ==
  /\ Calls \subseteq [op : Ops, doc : Seq(Entries)]
  /\ Idle \notin Calls
  /\ \A c \in Calls : c.op \in {"lookup", "register", "reregister"} =>
                        Len(c.doc) = 1 /\ c.doc[1].kind = "good"
ASSUME BoundAssumption == MaxCalls \in Nat

VARIABLES
  registry,     \* SYMBOL_REGISTRY
  call,         \* the call each thread is making, or has made last
  at,           \* the entry of its document it comes to next
  count,        \* the entries it has registered
  outcome,      \* "none", "running", "ok" or "err"
  answer,       \* what its last lookup found
  made,         \* calls made so far
  grants,       \* auxiliary: plain registrations of a symbol that succeeded
  granted,      \* auxiliary: the value the last of them gave it
  overwritten   \* auxiliary: a call that may overwrite has written it

vars == <<registry, call, at, count, outcome, answer, made, grants, granted, overwritten>>
ghosts == <<grants, granted, overwritten>>

Init ==
  /\ registry = [s \in Symbols |-> Absent]
  /\ call = [t \in Threads |-> Idle]
  /\ at = [t \in Threads |-> 1]
  /\ count = [t \in Threads |-> 0]
  /\ outcome = [t \in Threads |-> "none"]
  /\ answer = [t \in Threads |-> Absent]
  /\ made = 0
  /\ grants = [s \in Symbols |-> 0]
  /\ granted = [s \in Symbols |-> Absent]
  /\ overwritten = [s \in Symbols |-> FALSE]

Start(t) ==
  /\ outcome[t] # "running"
  /\ made < MaxCalls
  /\ made' = made + 1
  /\ \E c \in Calls : call' = [call EXCEPT ![t] = c]
  /\ at' = [at EXCEPT ![t] = 1]
  /\ count' = [count EXCEPT ![t] = 0]
  /\ outcome' = [outcome EXCEPT ![t] = "running"]
  /\ UNCHANGED <<registry, answer, ghosts>>

Running(t, ops) == outcome[t] = "running" /\ call[t].op \in ops

Entry(t) == call[t].doc[at[t]]
HasEntry(t) == at[t] <= Len(call[t].doc)

Return(t, how) == outcome' = [outcome EXCEPT ![t] = how]

\* Variant for the mutants: the alias is resolved first.
ResolveAliasFirst(s) ==
  IF s \in Aliases THEN registry[Canonical(s)] ELSE registry[s]

\* The name as given, or else what it is an alias of, under one read lock.
Resolve(s) ==
  IF registry[s] = Absent /\ s \in Aliases THEN registry[Canonical(s)] ELSE registry[s]

LookupSymbol(t) ==
  /\ Running(t, {"lookup"})
  /\ answer' = [answer EXCEPT ![t] = Resolve(Entry(t).symbol)]
  /\ Return(t, "ok")
  /\ UNCHANGED <<registry, call, at, count, made, ghosts>>

\* insert, under the write lock
Insert(s, v) == registry' = [registry EXCEPT ![s] = v]

Advance(t) ==
  /\ at' = [at EXCEPT ![t] = @ + 1]
  /\ count' = [count EXCEPT ![t] = @ + 1]

\* Variant for the mutants: the loop does not move on.
Stay(t) == UNCHANGED <<at, count>>

\* A disabled entry is passed over and not counted.
Skip(t) == at' = [at EXCEPT ![t] = @ + 1] /\ UNCHANGED count

\* Variant for the mutants: a failing call takes its entries out again.
RefuseAndRollBack(t) ==
  /\ Return(t, "err")
  /\ registry' = [s \in Symbols |->
       IF \E i \in 1..(at[t] - 1) : call[t].doc[i].symbol = s THEN Absent ELSE registry[s]]
  /\ UNCHANGED <<at, count, ghosts>>

\* There is no rollback: what was registered before the failing entry stays.
Refuse(t) == Return(t, "err") /\ UNCHANGED <<registry, at, count, ghosts>>

\* Variant for the mutants: the presence test sees nothing.
NeverTaken(s) == FALSE

Taken(s) == registry[s] # Absent

\* register_symbol: the test and the insertion are under one write lock.
RegisterEntry(t) ==
  LET e == Entry(t) IN
  /\ Running(t, {"register", "register_many"})
  /\ HasEntry(t)
  /\ UNCHANGED <<call, answer, made>>
  /\ IF e.kind # "good" \/ Taken(e.symbol) THEN Refuse(t)
     ELSE
       /\ Insert(e.symbol, e.value)
       /\ grants' = [grants EXCEPT ![e.symbol] = @ + 1]
       /\ granted' = [granted EXCEPT ![e.symbol] = e.value]
       /\ Advance(t)
       /\ UNCHANGED <<overwritten, outcome>>

\* reregister_symbol, the entries of a load (a disabled one is skipped) and
\* those of a bulk registration that may overwrite.
OverwriteEntry(t) ==
  LET e == Entry(t) IN
  /\ Running(t, {"reregister", "load", "replace_many"})
  /\ HasEntry(t)
  /\ UNCHANGED <<call, answer, made>>
  /\ IF e.kind = "disabled" /\ call[t].op = "load"
       THEN Skip(t) /\ UNCHANGED <<registry, outcome, ghosts>>
     ELSE IF e.kind # "good" THEN Refuse(t)
     ELSE
       /\ Insert(e.symbol, e.value)
       /\ overwritten' = [overwritten EXCEPT ![e.symbol] = TRUE]
       /\ Advance(t)
       /\ UNCHANGED <<grants, granted, outcome>>

\* The document is used up.  The Python `reregister` looks its symbol up again
\* and fails if it did not survive.
Complete(t) ==
  /\ Running(t, Ops \ {"lookup"})
  /\ ~HasEntry(t)
  /\ IF call[t].op = "reregister" /\ Resolve(call[t].doc[1].symbol) = Absent
       THEN Return(t, "err") ELSE Return(t, "ok")
  /\ UNCHANGED <<registry, call, at, count, answer, made, ghosts>>

Next ==
  \E t \in Threads :
    \/ Start(t)
    \/ LookupSymbol(t) \/ RegisterEntry(t) \/ OverwriteEntry(t) \/ Complete(t)

Spec == Init /\ [][Next]_vars

\* A thread in a call keeps running: the lock is held for one access at a time.
FairSpec ==
  Spec /\ \A t \in Threads :
            WF_vars(LookupSymbol(t) \/ RegisterEntry(t) \/ OverwriteEntry(t) \/ Complete(t))
-----------------------------------------------------------------------------
TypeOK ==
  /\ registry \in [Symbols -> Values \cup {Absent}]
  /\ call \in [Threads -> Calls \cup {Idle}]
  /\ at \in [Threads -> Nat \ {0}]
  /\ count \in [Threads -> Nat]
  /\ outcome \in [Threads -> {"none", "running", "ok", "err"}]
  /\ answer \in [Threads -> Values \cup {Absent}]
  /\ made \in 0..MaxCalls
  /\ grants \in [Symbols -> Nat]
  /\ granted \in [Symbols -> Values \cup {Absent}]
  /\ overwritten \in [Symbols -> BOOLEAN]
  /\ \A t \in Threads : outcome[t] # "none" => call[t] # Idle

\* As long as nobody overwrites a symbol, one registration of it succeeds and no
\* other, and the symbol keeps the value that one gave it, whoever races for it.
OneOwner ==
  \A s \in Symbols : ~overwritten[s] =>
    \/ grants[s] = 0 /\ registry[s] = Absent
    \/ grants[s] = 1 /\ registry[s] = granted[s] /\ registry[s] # Absent

Good(c) == {i \in 1..Len(c.doc) : c.doc[i].kind = "good"}

\* A document is registered from the front: what a call has passed is in the
\* registry however other calls interleave, and nothing vanishes again, neither
\* when the call fails half way.
PrefixRegistered ==
  \A t \in Threads : outcome[t] # "none" =>
    \A i \in Good(call[t]) : i < at[t] => registry[call[t].doc[i].symbol] # Absent

\* The number a call returns is the number of entries it has registered: all the
\* good ones when it succeeds, those before the failing one when it does not.
CountExact ==
  \A t \in Threads : outcome[t] # "none" =>
    /\ count[t] = Cardinality({i \in Good(call[t]) : i < at[t]})
    /\ outcome[t] = "ok" /\ call[t].op # "lookup" => count[t] = Cardinality(Good(call[t]))

\* A caller who registers an alias under its own name shadows the alias: every
\* later lookup finds its value, whatever is loaded under the canonical name.
OwnNameWins ==
  [][\A t \in Threads :
       LET s == Entry(t).symbol IN
       outcome[t] = "running" /\ call[t].op = "lookup" /\ outcome'[t] = "ok"
         /\ ~overwritten[s] /\ grants[s] > 0
       => answer'[t] = granted[s]]_vars

\* Every call returns.
CallsReturn == \A t \in Threads : outcome[t] = "running" ~> outcome[t] # "running"
=============================================================================
