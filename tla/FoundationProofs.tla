-------------------------- MODULE FoundationProofs --------------------------
(***************************************************************************)
(* What the two components under every other one promise: the constant    *)
(* registry, for any number of threads and any documents (types, one owner *)
(* per symbol, no lost entry, the shadowing of an alias), and the exact    *)
(* integers, for any base, any cap on the digits and any operands: every   *)
(* checked operation is exact or refuses for a reason, and a result has    *)
(* one spelling.                                                           *)
(***************************************************************************)
EXTENDS ConstantRegistry, BigInteger, FiniteSetTheorems, WellFoundedInduction, TLAPS

-----------------------------------------------------------------------------
(***************************************************************************)
(* The constant registry.                                                  *)
(***************************************************************************)


\* A lookup has one symbol and does not move on.
LookupAtFirst == \A t \in Threads : Running(t, {"lookup"}) => at[t] = 1

IInv == TypeOK /\ LookupAtFirst /\ OneOwner /\ PrefixRegistered

LEMMA CallType ==
  ASSUME TypeOK, NEW t \in Threads, outcome[t] # "none"
  PROVE  call[t] \in Calls /\ call[t].op \in Ops /\ call[t].doc \in Seq(Entries)
<1>1. call[t] \in Calls BY CallsAssumption DEF TypeOK
<1> QED BY <1>1, CallsAssumption

\* The entry a call comes to is an entry of a document.
LEMMA EntryType ==
  ASSUME TypeOK, NEW t \in Threads, outcome[t] # "none", HasEntry(t)
  PROVE  at[t] \in 1..Len(call[t].doc) /\ Entry(t) \in Entries
<1>1. call[t].doc \in Seq(Entries) BY CallType
<1>2. at[t] \in 1..Len(call[t].doc) BY <1>1 DEF TypeOK, HasEntry
<1> QED BY <1>1, <1>2 DEF Entry

\* A lookup names a symbol.
LEMMA LookupEntry ==
  ASSUME TypeOK, LookupAtFirst, NEW t \in Threads, Running(t, {"lookup"})
  PROVE  Entry(t) \in Entries
<1>1. outcome[t] # "none" /\ at[t] = 1 /\ call[t].op = "lookup" BY DEF LookupAtFirst, Running
<1>2. Len(call[t].doc) = 1 BY <1>1, CallType, CallsAssumption
<1> QED BY <1>1, <1>2, EntryType DEF HasEntry

\* It finds a value or nothing.
LEMMA ResolveType ==
  ASSUME TypeOK, NEW s \in Symbols
  PROVE  Resolve(s) \in Values \cup {Absent}
BY SymbolsAssumption DEF TypeOK, Resolve

LEMMA InitHolds == Init => IInv
<1> SUFFICES ASSUME Init PROVE IInv OBVIOUS
<1>1. TypeOK BY BoundAssumption DEF Init, TypeOK
<1> QED BY <1>1 DEF Init, IInv, LookupAtFirst, Running, OneOwner, PrefixRegistered

\* Each action keeps the types.
LEMMA TypeStep == ASSUME IInv, Next PROVE TypeOK'
<1> USE DEF IInv
<1> PICK t \in Threads : Start(t) \/ LookupSymbol(t) \/ RegisterEntry(t)
                           \/ OverwriteEntry(t) \/ Complete(t)
  BY DEF Next
<1>1. CASE Start(t)
  <2>1. made' \in 0..MaxCalls BY <1>1, BoundAssumption DEF Start, TypeOK
  <2>2. PICK c \in Calls : call' = [call EXCEPT ![t] = c] BY <1>1 DEF Start
  <2>3. call' \in [Threads -> Calls \cup {Idle}] BY <2>2 DEF TypeOK
  <2>4. \A u \in Threads : outcome'[u] # "none" => call'[u] # Idle
    BY <1>1, <2>2, CallsAssumption DEF Start, TypeOK
  <2> QED BY <1>1, <2>1, <2>3, <2>4 DEF Start, TypeOK, ghosts
<1>2. CASE LookupSymbol(t)
  <2>1. Resolve(Entry(t).symbol) \in Values \cup {Absent}
    BY <1>2, LookupEntry, ResolveType DEF LookupSymbol, Entries
  <2> QED BY <1>2, <2>1 DEF LookupSymbol, Running, Return, TypeOK, ghosts
<1>3. CASE RegisterEntry(t)
  <2>1. Entry(t) \in Entries BY <1>3, EntryType DEF RegisterEntry, Running
  <2>2. Entry(t).symbol \in Symbols /\ Entry(t).value \in Values BY <2>1 DEF Entries
  <2> QED BY <1>3, <2>2 DEF RegisterEntry, Running, Refuse, Return, Insert, Advance, TypeOK, ghosts
<1>4. CASE OverwriteEntry(t)
  <2>1. Entry(t) \in Entries BY <1>4, EntryType DEF OverwriteEntry, Running
  <2>2. Entry(t).symbol \in Symbols /\ Entry(t).value \in Values BY <2>1 DEF Entries
  <2>3. CASE Skip(t) /\ UNCHANGED <<registry, outcome, ghosts>>
    BY <1>4, <2>3 DEF OverwriteEntry, Skip, TypeOK, ghosts
  <2>4. CASE Refuse(t)
    BY <1>4, <2>4 DEF OverwriteEntry, Running, Refuse, Return, TypeOK, ghosts
  <2>5. CASE /\ Insert(Entry(t).symbol, Entry(t).value)
             /\ overwritten' = [overwritten EXCEPT ![Entry(t).symbol] = TRUE]
             /\ Advance(t)
             /\ UNCHANGED <<grants, granted, outcome>>
    BY <1>4, <2>2, <2>5 DEF OverwriteEntry, Insert, Advance, TypeOK
  <2> QED BY <1>4, <2>3, <2>4, <2>5 DEF OverwriteEntry
<1>5. CASE Complete(t)
  BY <1>5 DEF Complete, Running, Return, TypeOK, ghosts
<1> QED BY <1>1, <1>2, <1>3, <1>4, <1>5

LEMMA LookupStep == ASSUME IInv, Next PROVE LookupAtFirst'
<1> USE DEF IInv
<1> PICK t \in Threads : Start(t) \/ LookupSymbol(t) \/ RegisterEntry(t)
                           \/ OverwriteEntry(t) \/ Complete(t)
  BY DEF Next
<1> SUFFICES ASSUME NEW u \in Threads, Running(u, {"lookup"})' PROVE at'[u] = 1
  BY DEF LookupAtFirst
<1>1. CASE Start(t) BY <1>1 DEF Start, TypeOK, LookupAtFirst, Running
<1>2. CASE LookupSymbol(t)
  BY <1>2 DEF LookupSymbol, Return, TypeOK, LookupAtFirst, Running
<1>3. CASE RegisterEntry(t)
  BY <1>3 DEF RegisterEntry, Refuse, Return, Advance, TypeOK, LookupAtFirst, Running
<1>4. CASE OverwriteEntry(t)
  BY <1>4 DEF OverwriteEntry, Skip, Refuse, Return, Advance, TypeOK, LookupAtFirst, Running
<1>5. CASE Complete(t)
  BY <1>5 DEF Complete, Return, TypeOK, LookupAtFirst, Running
<1> QED BY <1>1, <1>2, <1>3, <1>4, <1>5

\* Only a registration that found its symbol free is granted, and only a call
\* that may overwrite replaces what it left.
LEMMA OwnerStep == ASSUME IInv, Next PROVE OneOwner'
<1> USE DEF IInv
<1> PICK t \in Threads : Start(t) \/ LookupSymbol(t) \/ RegisterEntry(t)
                           \/ OverwriteEntry(t) \/ Complete(t)
  BY DEF Next
<1>1. CASE Start(t) BY <1>1 DEF Start, ghosts, OneOwner
<1>2. CASE LookupSymbol(t) BY <1>2 DEF LookupSymbol, ghosts, OneOwner
<1>3. CASE RegisterEntry(t)
  <2> DEFINE e == Entry(t)
  <2>1. e \in Entries BY <1>3, EntryType DEF RegisterEntry, Running
  <2>2. e.symbol \in Symbols /\ e.value \in Values /\ e.value # Absent
    BY <2>1, AbsentAssumption DEF Entries
  <2>3. CASE e.kind # "good" \/ Taken(e.symbol)
    BY <1>3, <2>3 DEF RegisterEntry, Refuse, ghosts, OneOwner
  <2>4. CASE ~(e.kind # "good" \/ Taken(e.symbol))
    <3>1. /\ registry' = [registry EXCEPT ![e.symbol] = e.value]
          /\ grants' = [grants EXCEPT ![e.symbol] = @ + 1]
          /\ granted' = [granted EXCEPT ![e.symbol] = e.value]
          /\ overwritten' = overwritten
      BY <1>3, <2>4 DEF RegisterEntry, Insert
    <3>2. registry[e.symbol] = Absent BY <2>4 DEF Taken
    <3> SUFFICES ASSUME NEW s \in Symbols, ~overwritten[s]
                 PROVE  \/ grants'[s] = 0 /\ registry'[s] = Absent
                        \/ grants'[s] = 1 /\ registry'[s] = granted'[s] /\ registry'[s] # Absent
      BY <3>1 DEF OneOwner
    <3>3. CASE s = e.symbol
      <4>1. grants[s] = 0 BY <3>2, <3>3 DEF OneOwner
      <4> QED BY <3>1, <3>3, <4>1, <2>2 DEF TypeOK
    <3>4. CASE s # e.symbol BY <3>1, <3>4 DEF OneOwner, TypeOK
    <3> QED BY <3>3, <3>4
  <2> QED BY <2>3, <2>4
<1>4. CASE OverwriteEntry(t)
  <2> DEFINE e == Entry(t)
  <2>1. e \in Entries BY <1>4, EntryType DEF OverwriteEntry, Running
  <2>2. e.symbol \in Symbols BY <2>1 DEF Entries
  <2>3. CASE UNCHANGED <<registry, ghosts>> BY <2>3 DEF ghosts, OneOwner
  <2>4. CASE /\ registry' = [registry EXCEPT ![e.symbol] = e.value]
             /\ overwritten' = [overwritten EXCEPT ![e.symbol] = TRUE]
             /\ UNCHANGED <<grants, granted>>
    <3> SUFFICES ASSUME NEW s \in Symbols, ~overwritten'[s]
                 PROVE  \/ grants'[s] = 0 /\ registry'[s] = Absent
                        \/ grants'[s] = 1 /\ registry'[s] = granted'[s] /\ registry'[s] # Absent
      BY DEF OneOwner
    <3>1. s # e.symbol /\ ~overwritten[s] BY <2>4 DEF TypeOK
    <3> QED BY <2>4, <3>1 DEF OneOwner, TypeOK
  <2> QED BY <1>4, <2>3, <2>4 DEF OverwriteEntry, Refuse, Skip, Insert
<1>5. CASE Complete(t) BY <1>5 DEF Complete, ghosts, OneOwner
<1> QED BY <1>1, <1>2, <1>3, <1>4, <1>5

\* Nobody removes an entry.
LEMMA NeverRemoved ==
  ASSUME IInv, Next, NEW s \in Symbols, registry[s] # Absent PROVE registry'[s] # Absent
<1> USE DEF IInv
<1> PICK t \in Threads : Start(t) \/ LookupSymbol(t) \/ RegisterEntry(t)
                           \/ OverwriteEntry(t) \/ Complete(t)
  BY DEF Next
<1>1. CASE Start(t) BY <1>1 DEF Start
<1>2. CASE LookupSymbol(t) BY <1>2 DEF LookupSymbol
<1>3. CASE RegisterEntry(t)
  <2>1. Entry(t) \in Entries BY <1>3, EntryType DEF RegisterEntry, Running
  <2>2. Entry(t).value # Absent BY <2>1, AbsentAssumption DEF Entries
  <2> QED BY <1>3, <2>2 DEF RegisterEntry, Refuse, Insert, TypeOK
<1>4. CASE OverwriteEntry(t)
  <2>1. Entry(t) \in Entries BY <1>4, EntryType DEF OverwriteEntry, Running
  <2>2. Entry(t).value # Absent BY <2>1, AbsentAssumption DEF Entries
  <2> QED BY <1>4, <2>2 DEF OverwriteEntry, Refuse, Insert, TypeOK
<1>5. CASE Complete(t) BY <1>5 DEF Complete
<1> QED BY <1>1, <1>2, <1>3, <1>4, <1>5

\* Whether the call of t keeps its place or moves past one entry, that entry is
\* in the registry if it is good.
LEMMA PrefixStep == ASSUME IInv, Next PROVE PrefixRegistered'
<1> USE DEF IInv
<1> SUFFICES ASSUME NEW u \in Threads, outcome'[u] # "none",
                    NEW i \in Good(call'[u]), i < at'[u]
             PROVE  registry'[call'[u].doc[i].symbol] # Absent
  BY DEF PrefixRegistered, Good
<1> PICK t \in Threads : Start(t) \/ LookupSymbol(t) \/ RegisterEntry(t)
                           \/ OverwriteEntry(t) \/ Complete(t)
  BY DEF Next
<1>0. ASSUME call'[u] = call[u], outcome[u] # "none", i < at[u]
      PROVE  registry'[call'[u].doc[i].symbol] # Absent
  <2>1. call[u].doc \in Seq(Entries) BY <1>0, CallType
  <2>2. i \in 1..Len(call[u].doc) BY <1>0 DEF Good
  <2>3. call[u].doc[i] \in Entries BY <2>1, <2>2
  <2>4. call[u].doc[i].symbol \in Symbols BY <2>3 DEF Entries
  <2>5. registry[call[u].doc[i].symbol] # Absent BY <1>0 DEF PrefixRegistered
  <2> QED BY <1>0, <2>4, <2>5, NeverRemoved
<1>1. CASE Start(t)
  <2>1. u # t BY <1>1 DEF Start, TypeOK, Good
  <2> QED BY <1>0, <1>1, <2>1 DEF Start, TypeOK
<1>2. CASE LookupSymbol(t)
  BY <1>0, <1>2 DEF LookupSymbol, Running, Return, TypeOK
<1>3. CASE RegisterEntry(t)
  <2>1. Entry(t) \in Entries BY <1>3, EntryType DEF RegisterEntry, Running
  <2>2. Entry(t).value # Absent /\ Entry(t).symbol \in Symbols
    BY <2>1, AbsentAssumption DEF Entries
  <2>3. call'[u] = call[u] /\ outcome[u] # "none" /\ i \in Nat
    BY <1>3 DEF RegisterEntry, Running, Refuse, Return, TypeOK, Good
  <2>4. CASE i < at[u] BY <1>0, <2>3, <2>4
  <2>5. CASE ~(i < at[u])
    <3>1. u = t /\ registry' = [registry EXCEPT ![Entry(t).symbol] = Entry(t).value]
          /\ at'[t] = at[t] + 1
      BY <1>3, <2>3, <2>5 DEF RegisterEntry, Refuse, Insert, Advance, TypeOK
    <3>2. i = at[t] BY <2>3, <2>5, <3>1 DEF TypeOK
    <3> QED BY <2>2, <2>3, <3>1, <3>2 DEF Entry, TypeOK
  <2> QED BY <2>4, <2>5
<1>4. CASE OverwriteEntry(t)
  <2>1. Entry(t) \in Entries BY <1>4, EntryType DEF OverwriteEntry, Running
  <2>2. Entry(t).value # Absent /\ Entry(t).symbol \in Symbols
    BY <2>1, AbsentAssumption DEF Entries
  <2>3. call'[u] = call[u] /\ outcome[u] # "none" /\ i \in Nat
    BY <1>4 DEF OverwriteEntry, Running, Refuse, Return, TypeOK, Good
  <2>4. CASE i < at[u] BY <1>0, <2>3, <2>4
  <2>5. CASE ~(i < at[u])
    <3>1. u = t /\ at'[t] = at[t] + 1
      BY <1>4, <2>3, <2>5 DEF OverwriteEntry, Refuse, Advance, Skip, TypeOK
    <3>2. i = at[t] BY <2>3, <2>5, <3>1 DEF TypeOK
    <3>3. Entry(t) = call[t].doc[i] /\ Entry(t).kind = "good"
      BY <2>3, <3>1, <3>2 DEF Entry, Good
    <3>4. registry' = [registry EXCEPT ![Entry(t).symbol] = Entry(t).value]
      BY <1>4, <3>1, <3>3 DEF OverwriteEntry, Insert
    <3> QED BY <2>2, <2>3, <3>1, <3>3, <3>4 DEF TypeOK
  <2> QED BY <2>4, <2>5
<1>5. CASE Complete(t)
  BY <1>0, <1>5 DEF Complete, Running, Return, TypeOK
<1> QED BY <1>1, <1>2, <1>3, <1>4, <1>5

LEMMA StutterHolds == ASSUME IInv, UNCHANGED vars PROVE IInv'
BY DEF IInv, vars, ghosts, TypeOK, LookupAtFirst, Running, OneOwner, PrefixRegistered

\* The inductive invariant of the registry.
THEOREM Invariance == Spec => []IInv
<1>1. ASSUME IInv, [Next]_vars PROVE IInv'
  BY <1>1, TypeStep, LookupStep, OwnerStep, PrefixStep, StutterHolds DEF IInv
<1> QED BY InitHolds, <1>1, PTL DEF Spec

\* Whatever threads interleave, every variable keeps its type.
THEOREM TypeCorrect == Spec => []TypeOK
<1>1. IInv => TypeOK BY DEF IInv
<1> QED BY <1>1, Invariance, PTL

\* One registration of a symbol succeeds, and its value stays until a call that
\* may overwrite it does (register_symbol tests and inserts under one lock).
THEOREM SingleOwner == Spec => []OneOwner
<1>1. IInv => OneOwner BY DEF IInv
<1> QED BY <1>1, Invariance, PTL

\* What a load or a bulk registration has passed stays registered, also when
\* the call fails at a later entry.
THEOREM NothingVanishes == Spec => []PrefixRegistered
<1>1. IInv => PrefixRegistered BY DEF IInv
<1> QED BY <1>1, Invariance, PTL

\* A caller's own entry shadows the alias of the same name (lookup_symbol).
THEOREM Shadowing == Spec => OwnNameWins
<1> DEFINE Wins == \A t \in Threads :
             outcome[t] = "running" /\ call[t].op = "lookup" /\ outcome'[t] = "ok"
               /\ ~overwritten[Entry(t).symbol] /\ grants[Entry(t).symbol] > 0
             => answer'[t] = granted[Entry(t).symbol]
<1>1. ASSUME IInv, [Next]_vars PROVE [Wins]_vars
  <2> SUFFICES ASSUME Next, NEW t \in Threads,
                      outcome[t] = "running", call[t].op = "lookup", outcome'[t] = "ok",
                      ~overwritten[Entry(t).symbol], grants[Entry(t).symbol] > 0
               PROVE  answer'[t] = granted[Entry(t).symbol]
    BY <1>1
  <2>1. TypeOK /\ OneOwner /\ LookupAtFirst BY <1>1 DEF IInv
  <2>2. Entry(t) \in Entries BY <2>1, LookupEntry DEF Running
  <2>3. Entry(t).symbol \in Symbols BY <2>2 DEF Entries
  <2>4. registry[Entry(t).symbol] = granted[Entry(t).symbol] /\ registry[Entry(t).symbol] # Absent
    BY <2>1, <2>3 DEF OneOwner
  <2>5. LookupSymbol(t)
    <3> PICK u \in Threads : Start(u) \/ LookupSymbol(u) \/ RegisterEntry(u)
                               \/ OverwriteEntry(u) \/ Complete(u)
      BY DEF Next
    <3>1. u = t
      BY <2>1 DEF Start, LookupSymbol, RegisterEntry, OverwriteEntry, Complete,
                  Refuse, Return, TypeOK
    <3> QED BY <3>1 DEF Start, RegisterEntry, OverwriteEntry, Complete, Running, Ops
  <2> QED BY <2>1, <2>4, <2>5 DEF LookupSymbol, Resolve, TypeOK
<1>2. [Wins]_vars => [\A t \in Threads :
       LET s == Entry(t).symbol IN
       outcome[t] = "running" /\ call[t].op = "lookup" /\ outcome'[t] = "ok"
         /\ ~overwritten[s] /\ grants[s] > 0
       => answer'[t] = granted[s]]_vars
  OBVIOUS
<1> QED BY <1>1, <1>2, Invariance, PTL DEF Spec, OwnNameWins
(***************************************************************************)
(* What a call counts.                                                     *)
(***************************************************************************)
Registered(t) == {i \in Good(call[t]) : i < at[t]}

CountInv ==
  \A t \in Threads : outcome[t] # "none" =>
    /\ count[t] = Cardinality(Registered(t))
    /\ outcome[t] = "ok" /\ call[t].op # "lookup" => ~HasEntry(t)

LEMMA RegisteredFinite ==
  ASSUME TypeOK, NEW t \in Threads, outcome[t] # "none"
  PROVE  IsFiniteSet(Registered(t)) /\ Cardinality(Registered(t)) \in Nat
<1>1. Len(call[t].doc) \in Nat BY CallType
<1>2. Registered(t) \subseteq 1..Len(call[t].doc) BY DEF Registered, Good
<1>3. IsFiniteSet(1..Len(call[t].doc)) BY <1>1, FS_Interval
<1> QED BY <1>2, <1>3, FS_Subset, FS_CardinalityType

\* A step that leaves a call alone leaves what it counts.
LEMMA CountStays ==
  ASSUME CountInv, NEW t \in Threads, outcome[t] # "none",
         call'[t] = call[t], at'[t] = at[t], count'[t] = count[t], outcome'[t] # "ok"
  PROVE  /\ count'[t] = Cardinality(Registered(t))'
         /\ outcome'[t] = "ok" /\ call'[t].op # "lookup" => ~HasEntry(t)'
<1>1. Registered(t)' = Registered(t) BY DEF Registered, Good
<1> QED BY <1>1 DEF CountInv

\* Moving past a good entry counts it.
LEMMA CountGood ==
  ASSUME TypeOK, CountInv, NEW t \in Threads, outcome[t] = "running", HasEntry(t),
         Entry(t).kind = "good", Advance(t), call' = call
  PROVE  count'[t] = Cardinality(Registered(t))'
<1>1. at[t] \in 1..Len(call[t].doc) BY EntryType
<1>2. at[t] \in Good(call[t]) BY <1>1 DEF Good, Entry
<1>3. at'[t] = at[t] + 1 /\ count'[t] = count[t] + 1 BY DEF Advance, TypeOK
<1>4. \A i \in Good(call[t]) : i < at[t] + 1 <=> i < at[t] \/ i = at[t]
  BY <1>1 DEF Good
<1>5. Registered(t)' = Registered(t) \cup {at[t]}
  BY <1>2, <1>3, <1>4 DEF Registered
<1>6. at[t] \notin Registered(t) BY <1>1 DEF Registered
<1>7. Cardinality(Registered(t) \cup {at[t]}) = Cardinality(Registered(t)) + 1
  BY <1>6, RegisteredFinite, FS_AddElement
<1> QED BY <1>3, <1>5, <1>7 DEF CountInv

\* Moving past a disabled one does not.
LEMMA CountDisabled ==
  ASSUME TypeOK, CountInv, NEW t \in Threads, outcome[t] = "running", HasEntry(t),
         Entry(t).kind # "good", Skip(t), call' = call
  PROVE  count'[t] = Cardinality(Registered(t))'
<1>1. at[t] \in 1..Len(call[t].doc) BY EntryType
<1>2. at[t] \notin Good(call[t]) BY <1>1 DEF Good, Entry
<1>3. at'[t] = at[t] + 1 /\ count'[t] = count[t] BY DEF Skip, TypeOK
<1>4. \A i \in Good(call[t]) : i < at[t] + 1 <=> i < at[t]
  BY <1>1, <1>2 DEF Good
<1>5. Registered(t)' = Registered(t)
  BY <1>3, <1>4 DEF Registered, Good
<1> QED BY <1>3, <1>5 DEF CountInv

LEMMA CountStep == ASSUME IInv, CountInv, Next PROVE CountInv'
<1> USE DEF IInv
<1> PICK t \in Threads : Start(t) \/ LookupSymbol(t) \/ RegisterEntry(t)
                           \/ OverwriteEntry(t) \/ Complete(t)
  BY DEF Next
<1> SUFFICES ASSUME NEW u \in Threads, outcome'[u] # "none"
             PROVE  /\ count'[u] = Cardinality(Registered(u))'
                    /\ outcome'[u] = "ok" /\ call'[u].op # "lookup" => ~HasEntry(u)'
  BY DEF CountInv
\* Another thread's step changes nothing here.
<1>0. ASSUME call'[u] = call[u], at'[u] = at[u], count'[u] = count[u], outcome'[u] = outcome[u]
      PROVE  /\ count'[u] = Cardinality(Registered(u))'
             /\ outcome'[u] = "ok" /\ call'[u].op # "lookup" => ~HasEntry(u)'
  <2>1. Registered(u)' = Registered(u) /\ (HasEntry(u)' <=> HasEntry(u))
    BY <1>0 DEF Registered, Good, HasEntry
  <2> QED BY <1>0, <2>1 DEF CountInv
<1>1. CASE Start(t)
  <2>1. CASE u = t
    <3>1. at'[u] = 1 /\ count'[u] = 0 /\ outcome'[u] = "running"
      BY <1>1, <2>1 DEF Start, TypeOK
    <3>2. Registered(u)' = {} BY <3>1 DEF Registered, Good
    <3> QED BY <3>1, <3>2, FS_EmptySet
  <2>2. CASE u # t BY <1>0, <1>1, <2>2 DEF Start, TypeOK
  <2> QED BY <2>1, <2>2
<1>2. CASE LookupSymbol(t)
  <2>1. CASE u = t
    <3>1. UNCHANGED <<call, at, count>> /\ outcome[u] # "none" /\ call[u].op = "lookup"
      BY <1>2, <2>1 DEF LookupSymbol, Running
    <3>2. Registered(u)' = Registered(u) BY <3>1 DEF Registered, Good
    <3> QED BY <3>1, <3>2 DEF CountInv
  <2>2. CASE u # t BY <1>0, <1>2, <2>2 DEF LookupSymbol, Return, TypeOK
  <2> QED BY <2>1, <2>2
<1>3. CASE RegisterEntry(t)
  <2>1. CASE u # t
    BY <1>0, <1>3, <2>1 DEF RegisterEntry, Refuse, Return, Advance, TypeOK
  <2>2. CASE u = t /\ Refuse(t)
    BY <1>3, <2>2, CountStays DEF RegisterEntry, Running, Refuse, Return, TypeOK
  <2>3. CASE u = t /\ Entry(t).kind = "good" /\ Advance(t) /\ UNCHANGED outcome
    BY <1>3, <2>3, CountGood DEF RegisterEntry, Running
  <2> QED BY <1>3, <2>1, <2>2, <2>3 DEF RegisterEntry
<1>4. CASE OverwriteEntry(t)
  <2>1. CASE u # t
    BY <1>0, <1>4, <2>1 DEF OverwriteEntry, Refuse, Return, Advance, Skip, TypeOK
  <2>2. CASE u = t /\ Refuse(t)
    BY <1>4, <2>2, CountStays DEF OverwriteEntry, Running, Refuse, Return, TypeOK
  <2>3. CASE u = t /\ Entry(t).kind = "good" /\ Advance(t) /\ UNCHANGED outcome
    BY <1>4, <2>3, CountGood DEF OverwriteEntry, Running
  <2>4. CASE u = t /\ Entry(t).kind = "disabled" /\ Skip(t) /\ UNCHANGED outcome
    BY <1>4, <2>4, CountDisabled DEF OverwriteEntry, Running
  <2> QED BY <1>4, <2>1, <2>2, <2>3, <2>4 DEF OverwriteEntry
<1>5. CASE Complete(t)
  <2>1. CASE u = t
    <3>1. UNCHANGED <<call, at, count>> /\ outcome[u] # "none" /\ ~HasEntry(u)
      BY <1>5, <2>1 DEF Complete, Running
    <3>2. Registered(u)' = Registered(u) /\ ~HasEntry(u)'
      BY <3>1 DEF Registered, Good, HasEntry
    <3> QED BY <3>1, <3>2 DEF CountInv
  <2>2. CASE u # t BY <1>0, <1>5, <2>2 DEF Complete, Return, TypeOK
  <2> QED BY <2>1, <2>2
<1> QED BY <1>1, <1>2, <1>3, <1>4, <1>5

\* The number a call returns counts what it has registered, whatever other threads do
\* meanwhile and wherever it fails.
THEOREM CountsAreExact == Spec => []CountExact
<1>1. Init => CountInv BY DEF Init, CountInv
<1>2. ASSUME CountInv, UNCHANGED vars PROVE CountInv'
  BY <1>2 DEF vars, CountInv, Registered, Good, HasEntry
<1>3. IInv /\ CountInv /\ [Next]_vars => CountInv' BY <1>2, CountStep
<1>4. ASSUME IInv, CountInv PROVE CountExact
  <2> SUFFICES ASSUME NEW t \in Threads, outcome[t] # "none"
               PROVE  /\ count[t] = Cardinality(Registered(t))
                      /\ outcome[t] = "ok" /\ call[t].op # "lookup" =>
                           count[t] = Cardinality(Good(call[t]))
    BY DEF CountExact, Registered
  <2>1. ASSUME outcome[t] = "ok", call[t].op # "lookup" PROVE Registered(t) = Good(call[t])
    <3>1. ~(at[t] <= Len(call[t].doc)) BY <1>4, <2>1 DEF CountInv, HasEntry
    <3>2. at[t] \in Nat /\ Len(call[t].doc) \in Nat BY <1>4, CallType DEF IInv, TypeOK
    <3>3. \A i \in Good(call[t]) : i < at[t] BY <3>1, <3>2 DEF Good
    <3> QED BY <3>3 DEF Registered
  <2> QED BY <1>4, <2>1 DEF CountInv
<1> QED BY <1>1, <1>3, <1>4, Invariance, PTL DEF Spec


-----------------------------------------------------------------------------
(***************************************************************************)
(* Loops and products.                                                     *)
(***************************************************************************)

\* Induction over the turns of a loop, for a set.
LEMMA FromZeroUp ==
  ASSUME NEW T, 0 \in T, \A n \in Nat : n \in T => n + 1 \in T
  PROVE  \A n \in Nat : n \in T
<1> DEFINE R == OpToRel(<, Nat)
           Missing == Nat \ T
<1>1. IsWellFoundedOn(R, Nat)
  BY NatLessThanWellFounded, Zenon
<1>2. \A x, y \in Nat : x < y => <<x, y>> \in R
  BY SMT DEF OpToRel
<1> HIDE DEF R
<1>3. SUFFICES ASSUME Missing # {} PROVE FALSE
  OBVIOUS
<1>4. PICK x \in Missing : \A y \in Missing : ~ (<<y, x>> \in R)
  BY <1>1, <1>3, WFMin
<1>5. x \in Nat /\ x # 0
  BY <1>4
<1>6. x - 1 \in Nat /\ x - 1 < x /\ (x - 1) + 1 = x
  BY <1>5
<1>7. x - 1 \in T
  BY <1>2, <1>4, <1>5, <1>6
<1>. QED  BY <1>4, <1>6, <1>7

\* The values of a loop: what it starts with, and what each turn makes of the last.
Steps(S) == [Nat \ {0} -> [S -> S]]
Runs(f, S, start, step) ==
  f \in [Nat -> S] /\ f[0] = start /\ \A n \in Nat : f[n + 1] = step[n + 1][f[n]]

\* A loop has values: what each turn makes of the last, from the start on.
LEMMA Recursion ==
  ASSUME NEW S, NEW start \in S, NEW step \in Steps(S)
  PROVE  \E f : Runs(f, S, start, step)
<1>. USE DEF Steps
<1> DEFINE Partial(n) == {g \in [0..n -> S] :
                            /\ g[0] = start
                            /\ \A i \in 1..n : g[i] = step[i][g[i - 1]]}
<1>1. \A n \in Nat : Partial(n) # {}
  <2> DEFINE T == {n \in Nat : Partial(n) # {}}
  <2>1. 0 \in T
    <3>1. [i \in 0..0 |-> start] \in Partial(0)
      OBVIOUS
    <3>. QED  BY <3>1
  <2>2. ASSUME NEW n \in Nat, n \in T PROVE n + 1 \in T
    <3>1. PICK g : g \in Partial(n)
      BY <2>2
    <3> DEFINE h == [i \in 0..(n + 1) |-> IF i = n + 1 THEN step[n + 1][g[n]] ELSE g[i]]
    <3>2. g[n] \in S /\ step[n + 1][g[n]] \in S
      BY <3>1
    <3>3. h \in [0..(n + 1) -> S]
      BY <3>1, <3>2
    <3>4. h[0] = start
      BY <3>1
    <3>5. ASSUME NEW i \in 1..(n + 1) PROVE h[i] = step[i][h[i - 1]]
      <4>1. CASE i = n + 1
        BY <4>1
      <4>2. CASE i # n + 1
        BY <3>1, <4>2
      <4>. QED  BY <4>1, <4>2
    <3>6. h \in Partial(n + 1)
      BY <3>3, <3>4, <3>5
    <3> HIDE DEF h, Partial
    <3>7. n + 1 \in Nat /\ Partial(n + 1) # {}
      BY <3>6
    <3>. QED  BY <3>7
  <2> HIDE DEF T
  <2>3. \A n \in Nat : n \in T
    BY <2>1, <2>2, FromZeroUp
  <2>. QED  BY <2>3 DEF T
<1>2. ASSUME NEW m \in Nat, NEW k \in Nat, NEW g \in Partial(k), NEW h \in Partial(m)
      PROVE  \A n \in Nat : n <= k /\ n <= m => g[n] = h[n]
  <2> DEFINE T == {n \in Nat : n <= k /\ n <= m => g[n] = h[n]}
  <2>1. 0 \in T
    OBVIOUS
  <2>2. ASSUME NEW n \in Nat, n \in T PROVE n + 1 \in T
    <3>1. ASSUME n + 1 <= k, n + 1 <= m
          PROVE  g[n + 1] = h[n + 1]
      <4>1. g[n] = h[n]
        BY <2>2, <3>1
      <4>2. n + 1 \in 1..k /\ n + 1 \in 1..m /\ (n + 1) - 1 = n
        BY <3>1
      <4>3. g[n + 1] = step[n + 1][g[n]] /\ h[n + 1] = step[n + 1][h[n]]
        BY <3>1, <4>2
      <4>. QED  BY <4>1, <4>3
    <3>. QED  BY <3>1
  <2> HIDE DEF T
  <2>3. \A n \in Nat : n \in T
    BY <2>1, <2>2, FromZeroUp
  <2>. QED  BY <2>3 DEF T
<1> DEFINE Some(n) == CHOOSE g : g \in Partial(n)
           f == [n \in Nat |-> Some(n)[n]]
<1>3. \A n \in Nat : Some(n) \in Partial(n)
  BY <1>1
<1> HIDE DEF Some
<1>4. f \in [Nat -> S]
  BY <1>3
<1>5. f[0] = start
  BY <1>3
<1>6. ASSUME NEW n \in Nat PROVE f[n + 1] = step[n + 1][f[n]]
  <2>1. Some(n + 1) \in Partial(n + 1) /\ Some(n) \in Partial(n)
    BY <1>3
  <2>2. Some(n + 1)[n + 1] = step[n + 1][Some(n + 1)[n]]
    BY <2>1
  <2> DEFINE g0 == Some(n)
             h0 == Some(n + 1)
  <2>3. Some(n)[n] = Some(n + 1)[n]
    <3>1. n + 1 \in Nat /\ n <= n + 1
      OBVIOUS
    <3>2. g0 \in Partial(n) /\ h0 \in Partial(n + 1)
      BY <2>1
    <3> HIDE DEF Partial, g0, h0
    <3>3. g0[n] = h0[n]
      BY <1>2, <3>1, <3>2
    <3>. QED  BY <3>3 DEF g0, h0
  <2>. QED  BY <2>2, <2>3
<1> HIDE DEF f
<1>7. Runs(f, S, start, step)
  BY <1>4, <1>5, <1>6 DEF Runs
<1>. QED  BY <1>7

\* Repeated multiplication, turn by turn.
LEMMA PowersRule ==
  ASSUME NEW x \in Int
  PROVE  /\ Powers(x) \in [Nat -> Int]
         /\ Powers(x)[0] = 1
         /\ \A n \in Nat : Powers(x)[n + 1] = x * Powers(x)[n]
<1> DEFINE step == [n \in Nat \ {0} |-> [p \in Int |-> x * p]]
           Obeys(f) == f = [n \in Nat |-> IF n = 0 THEN 1 ELSE x * f[n - 1]]
<1>1. step \in Steps(Int)
  <2>1. \A p \in Int : x * p \in Int
    OBVIOUS
  <2>. QED  BY <2>1, Zenon DEF Steps
<1>2. \A n \in Nat, p \in Int : step[n + 1][p] = x * p
  OBVIOUS
<1> HIDE DEF step
<1>3. PICK f : Runs(f, Int, 1, step)
  <2>1. 1 \in Int
    OBVIOUS
  <2>. QED  BY <1>1, <2>1, Recursion, Zenon
<1>4. ASSUME NEW n \in Nat PROVE  f[n] = IF n = 0 THEN 1 ELSE x * f[n - 1]
  <2>1. n = 0 \/ (n - 1 \in Nat /\ (n - 1) + 1 = n)
    OBVIOUS
  <2>. QED  BY <1>2, <1>3, <2>1 DEF Runs
<1>5. Obeys(f)
  BY <1>3, <1>4 DEF Runs
<1>6. Obeys(Powers(x))
  <2> HIDE DEF Obeys
  <2>1. Obeys(CHOOSE g : Obeys(g))
    BY <1>5, Zenon
  <2>. QED  BY <2>1 DEF Powers, Obeys
<1>7. PICK p : p = Powers(x)
  OBVIOUS
<1>8. p = [n \in Nat |-> p[n]] /\ p[0] = 1 /\ \A n \in Nat : p[n + 1] = x * p[n]
  BY <1>6, <1>7
<1>9. \A n \in Nat : p[n] \in Int
  <2> DEFINE T == {n \in Nat : p[n] \in Int}
  <2>1. 0 \in T
    BY <1>8
  <2>2. \A n \in Nat : n \in T => n + 1 \in T
    BY <1>8
  <2> HIDE DEF T
  <2>3. \A n \in Nat : n \in T
    BY <2>1, <2>2, FromZeroUp
  <2>. QED  BY <2>3 DEF T
<1>. QED  BY <1>7, <1>8, <1>9

\* The rules of multiplication the solver does not find in larger goals.
LEMMA Products3 ==
  ASSUME NEW x \in Int, NEW y \in Int, NEW z \in Int
  PROVE  /\ x * (y + z) = x * y + x * z /\ (y + z) * x = y * x + z * x
         /\ (x * y) * z = x * (y * z) /\ x * y = y * x
         /\ x * y \in Int
  OBVIOUS

LEMMA ProductOrder ==
  ASSUME NEW x \in Nat, NEW y \in Int, NEW z \in Nat, x <= y
  PROVE  0 <= x * z /\ x * z <= y * z
<1>1. PICK d \in Nat : y = x + d
  <2>1. y - x \in Nat /\ y = x + (y - x)
    OBVIOUS
  <2>. QED  BY <2>1
<1>2. x * z \in Nat /\ d * z \in Nat
  OBVIOUS
<1>3. y * z = x * z + d * z
  BY <1>1
<1>. QED  BY <1>2, <1>3

-----------------------------------------------------------------------------
(***************************************************************************)
(* Digits and their values.                                                *)
(***************************************************************************)

\* The weight of a digit is the base, that many times.
LEMMA WeightRule ==
  /\ Weight \in [Nat -> Nat]
  /\ Weight[0] = 1
  /\ \A n \in Nat : Weight[n] > 0 /\ Weight[n + 1] = Base * Weight[n]
<1>1. /\ Weight \in [Nat -> Int]
      /\ Weight[0] = 1
      /\ \A n \in Nat : Weight[n + 1] = Base * Weight[n]
  BY BaseAssumption, PowersRule DEF Weight
<1>2. \A n \in Nat : Weight[n] \in Nat /\ Weight[n] > 0
  <2> DEFINE T == {n \in Nat : Weight[n] > 0}
  <2>1. 0 \in T
    BY <1>1
  <2>2. ASSUME NEW n \in Nat, n \in T PROVE n + 1 \in T
    <3>1. Weight[n] \in Int /\ Weight[n] > 0 /\ Weight[n + 1] = Base * Weight[n]
      BY <1>1, <2>2
    <3>2. Base * Weight[n] > 0
      BY <3>1, BaseAssumption
    <3>. QED  BY <3>1, <3>2
  <2> HIDE DEF T
  <2>3. \A n \in Nat : n \in T
    BY <2>1, <2>2, FromZeroUp
  <2>. QED  BY <1>1, <2>3 DEF T
<1>. QED  BY <1>1, <1>2

LEMMA WeightType ==
  ASSUME NEW n \in Nat
  PROVE  Weight[n] \in Int /\ Weight[n] \in Nat /\ Weight[n] > 0
<1>1. Weight[n] \in Nat /\ Weight[n] > 0
  BY WeightRule
<1>. QED  BY <1>1

\* Digits shifted by n weigh as much as n more digits.
LEMMA WeightSum ==
  ASSUME NEW n \in Nat, NEW m \in Nat
  PROVE  Weight[n + m] = Weight[n] * Weight[m]
<1> DEFINE T == {k \in Nat : Weight[n + k] = Weight[n] * Weight[k]}
<1>1. 0 \in T
  BY WeightRule
<1>2. ASSUME NEW k \in Nat, k \in T PROVE k + 1 \in T
  <2>1. Weight[n + (k + 1)] = Base * Weight[n + k]
    <3>1. n + (k + 1) = (n + k) + 1 /\ n + k \in Nat
      OBVIOUS
    <3>. QED  BY <3>1, WeightRule
  <2>2. Weight[n + k] = Weight[n] * Weight[k] /\ Weight[k + 1] = Base * Weight[k]
    BY <1>2, WeightRule
  <2>3. Weight[n] \in Int /\ Weight[k] \in Int /\ Base \in Int
    BY WeightRule, BaseAssumption
  <2>4. Base * (Weight[n] * Weight[k]) = Weight[n] * (Base * Weight[k])
    BY <2>3
  <2>. QED  BY <2>1, <2>2, <2>4
<1> HIDE DEF T
<1>3. m \in T
  BY <1>1, <1>2, FromZeroUp
<1>. QED  BY <1>3 DEF T

LEMMA WeightGrows ==
  ASSUME NEW n \in Nat, NEW m \in Nat, n <= m
  PROVE  Weight[n] <= Weight[m]
<1>1. m - n \in Nat /\ n + (m - n) = m
  OBVIOUS
<1>2. Weight[m] = Weight[n] * Weight[m - n]
  BY <1>1, WeightSum
<1>3. Weight[n] \in Nat /\ Weight[m - n] \in Nat /\ Weight[m - n] > 0
  BY <1>1, WeightRule
<1>4. Weight[n] * Weight[m - n] >= Weight[n]
  BY <1>3
<1>. QED  BY <1>2, <1>4

LEMMA DigitType ==
  ASSUME NEW m \in Seq(Int), NEW i \in Int
  PROVE  Digit(m, i) \in Int
  BY DEF Digit

LEMMA DigitsAreInt == Digits \subseteq Nat /\ Seq(Digits) \subseteq Seq(Int)
<1>1. Digits \subseteq Nat
  BY BaseAssumption DEF Digits
<1>2. ASSUME NEW s \in Seq(Digits) PROVE s \in Seq(Int)
  <2>1. Len(s) \in Nat /\ s = [i \in 1..Len(s) |-> s[i]] /\ \A i \in 1..Len(s) : s[i] \in Int
    BY <1>1
  <2>2. [i \in 1..Len(s) |-> s[i]] \in Seq(Int)
    BY <2>1
  <2>. QED  BY <2>1, <2>2
<1>. QED  BY <1>1, <1>2

LEMMA DigitOfDigits ==
  ASSUME NEW m \in Seq(Digits), NEW i \in Int
  PROVE  Digit(m, i) \in 0..(Base - 1)
  BY BaseAssumption DEF Digit, Digits

\* The value of the lowest digits, one digit at a time.
LEMMA LowestRule ==
  ASSUME NEW m \in Seq(Int)
  PROVE  /\ Lowest(m) \in [Nat -> Int]
         /\ Lowest(m)[0] = 0
         /\ \A n \in Nat : Lowest(m)[n + 1] = Lowest(m)[n] + Digit(m, n + 1) * Weight[n]
<1> DEFINE add == [n \in Nat |-> Digit(m, n + 1) * Weight[n]]
           step == [n \in Nat \ {0} |-> [v \in Int |-> v + add[n - 1]]]
           Obeys(f) == f = [n \in Nat |-> IF n = 0 THEN 0 ELSE f[n - 1] + Digit(m, n) * Weight[n - 1]]
<1>1. ASSUME NEW n \in Nat PROVE Digit(m, n + 1) * Weight[n] \in Int
  <2>1. n + 1 \in Int /\ Weight[n] \in Int
    BY WeightRule
  <2>2. Digit(m, n + 1) \in Int
    BY <2>1, DigitType
  <2>. QED  BY <2>1, <2>2
<1>2. /\ add \in [Nat -> Int]
      /\ \A n \in Nat : add[n] = Digit(m, n + 1) * Weight[n]
  BY <1>1
<1> HIDE DEF add
<1>3. step \in Steps(Int)
  <2>1. \A n \in Nat \ {0} : add[n - 1] \in Int
    BY <1>2
  <2>2. \A n \in Nat \ {0}, v \in Int : v + add[n - 1] \in Int
    BY <2>1
  <2>. QED  BY <2>2, Zenon DEF Steps
<1>4. \A n \in Nat, v \in Int : step[n + 1][v] = v + add[n]
  OBVIOUS
<1> HIDE DEF step
<1>5. PICK f : Runs(f, Int, 0, step)
  <2>1. 0 \in Int
    OBVIOUS
  <2>. QED  BY <1>3, <2>1, Recursion, Zenon
<1>6. ASSUME NEW n \in Nat
      PROVE  f[n] = IF n = 0 THEN 0 ELSE f[n - 1] + Digit(m, n) * Weight[n - 1]
  <2>1. CASE n = 0
    BY <1>5, <2>1 DEF Runs
  <2>2. CASE n # 0
    <3>1. PICK k \in Nat : n = k + 1
      BY <2>2
    <3>2. f[k] \in Int /\ f[k + 1] = step[k + 1][f[k]]
      BY <1>5 DEF Runs
    <3>3. f[k + 1] = f[k] + Digit(m, k + 1) * Weight[k]
      BY <1>2, <1>4, <3>2
    <3>4. n # 0 /\ n - 1 = k
      BY <3>1
    <3>. QED  BY <3>1, <3>3, <3>4
  <2>. QED  BY <2>1, <2>2
<1>7. Obeys(f)
  BY <1>5, <1>6 DEF Runs
<1>8. Obeys(Lowest(m))
  <2> HIDE DEF Obeys
  <2>1. Obeys(CHOOSE g : Obeys(g))
    BY <1>7, Zenon
  <2>. QED  BY <2>1 DEF Lowest, Obeys
<1>9. PICK p : p = Lowest(m)
  OBVIOUS
<1>10. p = [n \in Nat |-> p[n]] /\ p[0] = 0
  BY <1>8, <1>9
<1>11. ASSUME NEW n \in Nat PROVE p[n + 1] = p[n] + Digit(m, n + 1) * Weight[n]
  <2>1. n + 1 \in Nat /\ n + 1 # 0 /\ (n + 1) - 1 = n
    OBVIOUS
  <2>2. \A k \in Nat : p[k] = IF k = 0 THEN 0 ELSE p[k - 1] + Digit(m, k) * Weight[k - 1]
    BY <1>8, <1>9
  <2>3. p[n + 1] = IF n + 1 = 0 THEN 0 ELSE p[(n + 1) - 1] + Digit(m, n + 1) * Weight[(n + 1) - 1]
    BY <2>1, <2>2
  <2>. QED  BY <2>1, <2>3
<1>12. \A n \in Nat : p[n] \in Int
  <2> DEFINE T == {n \in Nat : p[n] \in Int}
  <2>1. 0 \in T
    BY <1>10
  <2>2. ASSUME NEW n \in Nat, n \in T PROVE n + 1 \in T
    <3>1. PICK u \in Int, v \in Int : u = p[n] /\ v = Digit(m, n + 1) * Weight[n]
      BY <1>1, <2>2
    <3>2. p[n + 1] = p[n] + Digit(m, n + 1) * Weight[n]
      BY <1>11
    <3>3. p[n + 1] = u + v
      BY <3>1, <3>2
    <3>4. p[n + 1] \in Int
      BY <3>3
    <3>. QED  BY <3>4
  <2> HIDE DEF T
  <2>3. \A n \in Nat : n \in T
    BY <2>1, <2>2, FromZeroUp
  <2>. QED  BY <2>3 DEF T
<1>. QED  BY <1>9, <1>10, <1>11, <1>12

LEMMA LowestType ==
  ASSUME NEW m \in Seq(Int), NEW n \in Nat
  PROVE  Lowest(m)[n] \in Int
  BY LowestRule

\* Above its digits a number has nothing.
LEMMA LowestBeyond ==
  ASSUME NEW m \in Seq(Int), NEW n \in Nat, n >= Len(m)
  PROVE  Lowest(m)[n] = Value(m)
<1>1. Len(m) \in Nat
  OBVIOUS
<1> DEFINE T == {k \in Nat : Lowest(m)[Len(m) + k] = Value(m)}
<1>2. 0 \in T
  BY <1>1 DEF Value
<1>3. ASSUME NEW k \in Nat, k \in T PROVE k + 1 \in T
  <2>1. Len(m) + k \in Nat /\ Len(m) + (k + 1) = (Len(m) + k) + 1
    BY <1>1
  <2>2. Lowest(m)[(Len(m) + k) + 1]
          = Lowest(m)[Len(m) + k] + Digit(m, (Len(m) + k) + 1) * Weight[Len(m) + k]
    BY <2>1, LowestRule
  <2>3. Digit(m, (Len(m) + k) + 1) = 0
    BY <1>1 DEF Digit
  <2>4. Lowest(m)[Len(m) + k] \in Int /\ Weight[Len(m) + k] \in Int
    BY <2>1, LowestRule, WeightRule
  <2>. QED  BY <1>3, <2>1, <2>2, <2>3, <2>4
<1> HIDE DEF T
<1>4. n - Len(m) \in Nat /\ Len(m) + (n - Len(m)) = n
  BY <1>1
<1>5. n - Len(m) \in T
  BY <1>2, <1>3, <1>4, FromZeroUp
<1>. QED  BY <1>4, <1>5 DEF T

LEMMA ValueType ==
  ASSUME NEW m \in Seq(Int)
  PROVE  Value(m) \in Int
<1>1. Len(m) \in Nat
  OBVIOUS
<1>. QED  BY <1>1, LowestRule DEF Value

\* n digits are worth less than the weight of the next.
LEMMA LowestBounds ==
  ASSUME NEW m \in Seq(Digits), NEW n \in Nat
  PROVE  Lowest(m)[n] \in 0..(Weight[n] - 1)
<1>1. m \in Seq(Int)
  BY DigitsAreInt
<1> DEFINE T == {k \in Nat : Lowest(m)[k] \in 0..(Weight[k] - 1)}
<1>2. 0 \in T
  <2>1. Lowest(m)[0] = 0 /\ Weight[0] = 1
    BY <1>1, LowestRule, WeightRule
  <2>. QED  BY <2>1
<1>3. ASSUME NEW k \in Nat, k \in T PROVE k + 1 \in T
  <2>1. Lowest(m)[k + 1] = Lowest(m)[k] + Digit(m, k + 1) * Weight[k]
    BY <1>1, LowestRule
  <2>2. Weight[k] \in Nat /\ Weight[k + 1] = Base * Weight[k]
    BY WeightRule
  <2>3. Digit(m, k + 1) \in 0..(Base - 1)
    BY DigitOfDigits
  <2>4. PICK d : d = Digit(m, k + 1)
    OBVIOUS
  <2>5. d \in 0..(Base - 1) /\ Base \in Nat
    BY <2>3, <2>4, BaseAssumption
  <2>6. d * Weight[k] >= 0 /\ d * Weight[k] <= (Base - 1) * Weight[k]
    BY <2>2, <2>5, ProductOrder
  <2>7. (Base - 1) * Weight[k] = Base * Weight[k] - Weight[k]
    BY <2>2, <2>5
  <2>8. Lowest(m)[k] \in 0..(Weight[k] - 1)
    BY <1>3
  <2>9. d * Weight[k] \in Int /\ Base * Weight[k] \in Int
    BY <2>2, <2>5
  <2>. QED  BY <2>1, <2>2, <2>4, <2>6, <2>7, <2>8, <2>9
<1> HIDE DEF T
<1>4. n \in T
  BY <1>2, <1>3, FromZeroUp
<1>. QED  BY <1>4 DEF T

-----------------------------------------------------------------------------
(***************************************************************************)
(* Carries.                                                                *)
(***************************************************************************)

\* The carry out of each position.
LEMMA CarryRule ==
  ASSUME NEW x \in Seq(Int)
  PROVE  /\ Carry(x) \in [Nat -> Int]
         /\ Carry(x)[0] = 0
         /\ \A n \in Nat : Carry(x)[n + 1] = (Digit(x, n + 1) + Carry(x)[n]) \div Base
<1> DEFINE step == [n \in Nat \ {0} |-> [v \in Int |-> (Digit(x, n) + v) \div Base]]
           Obeys(f) == f = [n \in Nat |-> IF n = 0 THEN 0 ELSE (Digit(x, n) + f[n - 1]) \div Base]
<1>1. ASSUME NEW n \in Nat, NEW v \in Int PROVE (Digit(x, n) + v) \div Base \in Int
  <2>1. Digit(x, n) \in Int
    BY DigitType
  <2>2. PICK d \in Int : d = Digit(x, n) + v
    BY <2>1
  <2>3. d \div Base \in Int
    BY BaseAssumption
  <2>. QED  BY <2>2, <2>3
<1>2. step \in Steps(Int)
  <2>1. \A n \in Nat \ {0}, v \in Int : (Digit(x, n) + v) \div Base \in Int
    BY <1>1
  <2>. QED  BY <2>1, Zenon DEF Steps
<1>3. \A n \in Nat, v \in Int : step[n + 1][v] = (Digit(x, n + 1) + v) \div Base
  OBVIOUS
<1> HIDE DEF step
<1>4. PICK f : Runs(f, Int, 0, step)
  <2>1. 0 \in Int
    OBVIOUS
  <2>. QED  BY <1>2, <2>1, Recursion, Zenon
<1>5. ASSUME NEW n \in Nat
      PROVE  f[n] = IF n = 0 THEN 0 ELSE (Digit(x, n) + f[n - 1]) \div Base
  <2>1. CASE n = 0
    BY <1>4, <2>1 DEF Runs
  <2>2. CASE n # 0
    <3>1. PICK k \in Nat : n = k + 1
      BY <2>2
    <3>2. f[k] \in Int /\ f[k + 1] = step[k + 1][f[k]]
      BY <1>4 DEF Runs
    <3>3. f[k + 1] = (Digit(x, k + 1) + f[k]) \div Base
      BY <1>3, <3>2
    <3>4. n # 0 /\ n - 1 = k
      BY <3>1
    <3>. QED  BY <3>1, <3>3, <3>4
  <2>. QED  BY <2>1, <2>2
<1>6. Obeys(f)
  BY <1>4, <1>5 DEF Runs
<1>7. Obeys(Carry(x))
  <2> HIDE DEF Obeys
  <2>1. Obeys(CHOOSE g : Obeys(g))
    BY <1>6, Zenon
  <2>. QED  BY <2>1 DEF Carry, Obeys
<1>8. PICK p : p = Carry(x)
  OBVIOUS
<1>9. p = [n \in Nat |-> p[n]] /\ p[0] = 0
  BY <1>7, <1>8
<1>10. ASSUME NEW n \in Nat PROVE p[n + 1] = (Digit(x, n + 1) + p[n]) \div Base
  <2>1. n + 1 \in Nat /\ n + 1 # 0 /\ (n + 1) - 1 = n
    OBVIOUS
  <2>2. \A k \in Nat : p[k] = IF k = 0 THEN 0 ELSE (Digit(x, k) + p[k - 1]) \div Base
    BY <1>7, <1>8
  <2>3. p[n + 1] = IF n + 1 = 0 THEN 0 ELSE (Digit(x, n + 1) + p[(n + 1) - 1]) \div Base
    BY <2>1, <2>2
  <2>. QED  BY <2>1, <2>3
<1>11. \A n \in Nat : p[n] \in Int
  <2> DEFINE T == {n \in Nat : p[n] \in Int}
  <2>1. 0 \in T
    BY <1>9
  <2>2. ASSUME NEW n \in Nat, n \in T PROVE n + 1 \in T
    <3>1. p[n] \in Int /\ n + 1 \in Nat
      BY <2>2
    <3>2. p[n + 1] \in Int
      BY <1>1, <1>10, <3>1
    <3>. QED  BY <3>1, <3>2
  <2> HIDE DEF T
  <2>3. \A n \in Nat : n \in T
    BY <2>1, <2>2, FromZeroUp
  <2>. QED  BY <2>3 DEF T
<1>. QED  BY <1>8, <1>9, <1>10, <1>11

\* The digit and the carry make up what fell to the position.
LEMMA DivMod ==
  ASSUME NEW z \in Int
  PROVE  /\ z \div Base \in Int
         /\ z % Base \in 0..(Base - 1)
         /\ \E q \in Int, r \in 0..(Base - 1) :
               q = z \div Base /\ r = z % Base /\ z = Base * q + r
<1>1. Base \in Nat /\ Base > 1
  BY BaseAssumption
<1>2. z \div Base \in Int /\ z % Base \in 0..(Base - 1)
  BY <1>1
<1>3. PICK q \in Int, r \in 0..(Base - 1) : q = z \div Base /\ r = z % Base
  BY <1>2
<1>4. r \in Int
  BY <1>1
<1>5. z = Base * q + r
  BY <1>1, <1>3, <1>4
<1>. QED  BY <1>2, <1>3, <1>5

\* Whatever falls to the positions, carrying leaves digits.
LEMMA CarriedType ==
  ASSUME NEW x \in Seq(Int)
  PROVE  /\ Carried(x) \in Seq(Digits)
         /\ Len(Carried(x)) = Len(x)
         /\ \A i \in 1..Len(x) : Carried(x)[i] = (x[i] + Carry(x)[i - 1]) % Base
<1>1. ASSUME NEW i \in 1..Len(x) PROVE (x[i] + Carry(x)[i - 1]) % Base \in Digits
  <2>1. x[i] \in Int /\ i - 1 \in Nat
    OBVIOUS
  <2>2. Carry(x)[i - 1] \in Int
    BY <2>1, CarryRule
  <2>3. PICK z \in Int : z = x[i] + Carry(x)[i - 1]
    BY <2>1, <2>2
  <2>. QED  BY <2>3, DivMod DEF Digits
<1>2. Len(x) \in Nat
  OBVIOUS
<1>. QED  BY <1>1, <1>2 DEF Carried

\* Carrying moves value from one position to the next and loses none.
LEMMA CarriedSum ==
  ASSUME NEW x \in Seq(Int), NEW n \in 0..Len(x)
  PROVE  Lowest(Carried(x))[n] + Carry(x)[n] * Weight[n] = Lowest(x)[n]
<1>1. /\ Len(x) \in Nat
      /\ Carried(x) \in Seq(Digits) /\ Carried(x) \in Seq(Int)
      /\ Len(Carried(x)) = Len(x)
  BY CarriedType, DigitsAreInt
<1> DEFINE T == {k \in Nat : k <= Len(x) =>
                    Lowest(Carried(x))[k] + Carry(x)[k] * Weight[k] = Lowest(x)[k]}
<1>2. 0 \in T
  <2>1. Lowest(Carried(x))[0] = 0 /\ Carry(x)[0] = 0 /\ Lowest(x)[0] = 0 /\ Weight[0] = 1
    BY <1>1, LowestRule, CarryRule, WeightRule
  <2>. QED  BY <2>1
<1>3. ASSUME NEW k \in Nat, k \in T PROVE k + 1 \in T
  <2>. SUFFICES ASSUME k + 1 <= Len(x)
       PROVE  Lowest(Carried(x))[k + 1] + Carry(x)[k + 1] * Weight[k + 1] = Lowest(x)[k + 1]
    OBVIOUS
  <2>1. k + 1 \in 1..Len(x) /\ k <= Len(x) /\ (k + 1) - 1 = k
    BY <1>1
  <2>2. PICK c \in Int : c = Carry(x)[k]
    BY CarryRule
  <2>3. PICK w \in Int : w = Weight[k]
    BY WeightRule
  <2>4. PICK u \in Int : u = x[k + 1]
    BY <2>1
  <2>5. Digit(x, k + 1) = u
    BY <2>1, <2>4 DEF Digit
  <2>6. PICK z \in Int : z = u + c
    OBVIOUS
  <2>7. PICK q \in Int, r \in 0..(Base - 1) : q = z \div Base /\ r = z % Base /\ z = Base * q + r
    BY DivMod
  <2>8. Carry(x)[k + 1] = q
    BY <2>2, <2>5, <2>6, <2>7, CarryRule
  <2>9. Digit(Carried(x), k + 1) = r
    <3>1. Carried(x)[k + 1] = (x[k + 1] + Carry(x)[k]) % Base
      BY <2>1, CarriedType
    <3>. QED  BY <1>1, <2>1, <2>2, <2>4, <2>6, <2>7, <3>1 DEF Digit
  <2>10. PICK v \in Int : v = Lowest(Carried(x))[k]
    BY <1>1, LowestRule
  <2>11. PICK t \in Int : t = Lowest(x)[k]
    BY LowestRule
  <2>12. v + c * w = t
    BY <1>3, <2>1, <2>2, <2>3, <2>10, <2>11
  <2>13. Lowest(Carried(x))[k + 1] = v + r * w
    BY <1>1, <2>3, <2>9, <2>10, LowestRule
  <2>14. Lowest(x)[k + 1] = t + u * w
    BY <2>3, <2>5, <2>11, LowestRule
  <2>15. Weight[k + 1] = Base * w
    BY <2>3, WeightRule
  <2>16. (v + r * w) + q * (Base * w) = t + u * w
    <3>1. Base \in Int
      BY BaseAssumption
    <3>2. z * w = (Base * q) * w + r * w
      <4>1. r \in Int /\ Base * q \in Int
        BY <3>1
      <4>2. (Base * q + r) * w = (Base * q) * w + r * w
        BY <4>1, Products3
      <4>. QED  BY <2>7, <4>2
    <3>3. (Base * q) * w = q * (Base * w)
      BY <3>1
    <3>4. z * w = u * w + c * w
      BY <2>6, Products3
    <3>5. z * w \in Int /\ r * w \in Int /\ q * (Base * w) \in Int /\ u * w \in Int /\ c * w \in Int
      <4>1. r \in Int /\ Base * w \in Int
        BY <3>1
      <4>. QED  BY <4>1
    <3>6. PICK zw \in Int, rw \in Int, qw \in Int, uw \in Int, cw \in Int :
            zw = z * w /\ rw = r * w /\ qw = q * (Base * w) /\ uw = u * w /\ cw = c * w
      BY <3>5
    <3>7. v + cw = t /\ zw = qw + rw /\ zw = uw + cw
      BY <2>12, <3>2, <3>3, <3>4, <3>6
    <3>8. (v + rw) + qw = t + uw
      BY <3>7
    <3>. QED  BY <3>6, <3>8
  <2>. QED  BY <2>8, <2>13, <2>14, <2>15, <2>16
<1> HIDE DEF T
<1>4. n \in Nat /\ n <= Len(x)
  BY <1>1
<1>5. n \in T
  BY <1>2, <1>3, <1>4, FromZeroUp
<1>. QED  BY <1>4, <1>5 DEF T

\* Where all fits into the digits there are, nothing is carried out of them.
LEMMA CarriedExact ==
  ASSUME NEW x \in Seq(Int), 0 <= Value(x), Value(x) < Weight[Len(x)]
  PROVE  /\ Carried(x) \in Seq(Digits)
         /\ Len(Carried(x)) = Len(x)
         /\ Value(Carried(x)) = Value(x)
<1>1. Carried(x) \in Seq(Digits) /\ Len(Carried(x)) = Len(x) /\ Len(x) \in Nat
  BY CarriedType
<1>2. PICK c \in Int, w \in Nat, v \in Int, t \in Int :
        /\ c = Carry(x)[Len(x)] /\ w = Weight[Len(x)]
        /\ v = Value(Carried(x)) /\ t = Value(x)
  <2>1. Value(Carried(x)) \in Int /\ Value(x) \in Int
    BY <1>1, ValueType, DigitsAreInt
  <2>2. Carry(x)[Len(x)] \in Int /\ Weight[Len(x)] \in Nat
    BY <1>1, CarryRule, WeightRule
  <2>. QED  BY <2>1, <2>2
<1>3. v + c * w = t
  <2>1. Len(x) \in 0..Len(x)
    BY <1>1
  <2>2. Lowest(Carried(x))[Len(x)] + Carry(x)[Len(x)] * Weight[Len(x)] = Lowest(x)[Len(x)]
    BY <2>1, CarriedSum
  <2>. QED  BY <1>1, <1>2, <2>2 DEF Value
<1>4. 0 <= v /\ v < w
  <2>1. Lowest(Carried(x))[Len(x)] \in 0..(Weight[Len(x)] - 1)
    BY <1>1, LowestBounds
  <2>. QED  BY <1>1, <1>2, <2>1 DEF Value
<1>5. 0 <= t /\ t < w
  BY <1>2
<1>6. c = 0
  <2>1. CASE c >= 1
    <3>1. c * w >= w
      BY <2>1
    <3>. QED  BY <1>3, <1>4, <1>5, <3>1
  <2>2. CASE c <= -1
    <3>1. c * w <= -w
      BY <2>2
    <3>. QED  BY <1>3, <1>4, <1>5, <3>1
  <2>. QED  BY <2>1, <2>2
<1>. QED  BY <1>1, <1>2, <1>3, <1>6

LEMMA Greatest ==
  ASSUME NEW n \in Nat, NEW S \in SUBSET (1..n), S # {}
  PROVE  \E i \in S : \A j \in S : j <= i
<1> DEFINE Has(k) == \A U \in SUBSET (1..k) : U # {} => \E i \in U : \A j \in U : j <= i
           T == {k \in Nat : Has(k)}
<1>1. 0 \in T
  <2>1. 1..0 = {}
    OBVIOUS
  <2>. QED  BY <2>1
<1>2. ASSUME NEW k \in Nat, k \in T PROVE k + 1 \in T
  <2>1. ASSUME NEW U \in SUBSET (1..(k + 1)), U # {}
        PROVE  \E i \in U : \A j \in U : j <= i
    <3>1. CASE k + 1 \in U
      BY <3>1
    <3>2. CASE k + 1 \notin U
      <4>1. U \in SUBSET (1..k)
        BY <3>2
      <4>2. Has(k)
        BY <1>2
      <4>. QED  BY <2>1, <4>1, <4>2
    <3>. QED  BY <3>1, <3>2
  <2>. QED  BY <2>1
<1> HIDE DEF T, Has
<1>3. n \in T
  BY <1>1, <1>2, FromZeroUp
<1>4. Has(n)
  BY <1>3 DEF T
<1>. QED  BY <1>4 DEF Has

\* Positions that agree in their digits contribute alike.
LEMMA SameAbove ==
  ASSUME NEW a \in Seq(Int), NEW b \in Seq(Int), NEW n \in Nat, NEW k \in Nat, n <= k,
         \A i \in (n + 1)..k : Digit(a, i) = Digit(b, i)
  PROVE  Lowest(a)[k] - Lowest(a)[n] = Lowest(b)[k] - Lowest(b)[n]
<1> DEFINE T == {j \in Nat : n + j <= k =>
                   Lowest(a)[n + j] - Lowest(a)[n] = Lowest(b)[n + j] - Lowest(b)[n]}
<1>1. 0 \in T
  <2>1. Lowest(a)[n] \in Int /\ Lowest(b)[n] \in Int
    BY LowestRule
  <2>. QED  BY <2>1
<1>2. ASSUME NEW j \in Nat, j \in T PROVE j + 1 \in T
  <2>. SUFFICES ASSUME n + (j + 1) <= k
       PROVE  Lowest(a)[n + (j + 1)] - Lowest(a)[n] = Lowest(b)[n + (j + 1)] - Lowest(b)[n]
    OBVIOUS
  <2>1. PICK p \in Nat : p = n + j
    OBVIOUS
  <2>2. n + (j + 1) = p + 1 /\ p <= k /\ p + 1 \in (n + 1)..k
    BY <2>1
  <2>3. Lowest(a)[p] - Lowest(a)[n] = Lowest(b)[p] - Lowest(b)[n]
    BY <1>2, <2>1, <2>2
  <2>4. Digit(a, p + 1) = Digit(b, p + 1)
    BY <2>2
  <2>5. PICK t \in Int : t = Digit(a, p + 1) * Weight[p]
    <3>1. Weight[p] \in Int
      BY WeightType
    <3>2. p + 1 \in Int
      OBVIOUS
    <3>3. Digit(a, p + 1) \in Int
      BY <3>2, DigitType
    <3>. QED  BY <3>1, <3>3
  <2>6. Lowest(a)[p + 1] = Lowest(a)[p] + t /\ Lowest(b)[p + 1] = Lowest(b)[p] + t
    BY <2>4, <2>5, LowestRule
  <2>7. /\ Lowest(a)[p] \in Int /\ Lowest(a)[n] \in Int
        /\ Lowest(b)[p] \in Int /\ Lowest(b)[n] \in Int
    BY LowestRule
  <2>8. Lowest(a)[p + 1] - Lowest(a)[n] = Lowest(b)[p + 1] - Lowest(b)[n]
    <3>1. PICK ap \in Int, an \in Int, bp \in Int, bn \in Int :
            ap = Lowest(a)[p] /\ an = Lowest(a)[n] /\ bp = Lowest(b)[p] /\ bn = Lowest(b)[n]
      BY <2>7
    <3>2. ap - an = bp - bn
      BY <2>3, <3>1
    <3>3. (ap + t) - an = (bp + t) - bn
      BY <3>2
    <3>. QED  BY <2>6, <3>1, <3>3
  <2>. QED  BY <2>2, <2>8
<1> HIDE DEF T
<1>3. k - n \in Nat /\ n + (k - n) = k
  OBVIOUS
<1>4. k - n \in T
  BY <1>1, <1>2, <1>3, FromZeroUp
<1>. QED  BY <1>3, <1>4 DEF T

\* The lowest digits alone decide their value.
LEMMA SameBelow ==
  ASSUME NEW a \in Seq(Int), NEW b \in Seq(Int), NEW k \in Nat,
         \A i \in 1..k : Digit(a, i) = Digit(b, i)
  PROVE  Lowest(a)[k] = Lowest(b)[k]
<1>1. \A i \in (0 + 1)..k : Digit(a, i) = Digit(b, i)
  OBVIOUS
<1>2. Lowest(a)[k] - Lowest(a)[0] = Lowest(b)[k] - Lowest(b)[0]
  BY <1>1, SameAbove
<1>3. Lowest(a)[0] = 0 /\ Lowest(b)[0] = 0 /\ Lowest(a)[k] \in Int /\ Lowest(b)[k] \in Int
  BY LowestRule
<1>. QED  BY <1>2, <1>3

\* Zeros above add nothing.
LEMMA ZerosAbove ==
  ASSUME NEW a \in Seq(Int), NEW n \in Nat, NEW k \in Nat, n <= k,
         \A i \in (n + 1)..k : Digit(a, i) = 0
  PROVE  Lowest(a)[k] = Lowest(a)[n]
<1>1. << >> \in Seq(Int) /\ Len(<< >>) = 0
  OBVIOUS
<1>2. PICK e \in Seq(Int) : e = << >> /\ Len(e) = 0
  BY <1>1
<1>3. \A i \in (n + 1)..k : Digit(a, i) = Digit(e, i)
  BY <1>2 DEF Digit
<1>4. Lowest(e)[k] = 0 /\ Lowest(e)[n] = 0
  <2>1. Value(e) = 0
    BY <1>2, LowestRule DEF Value
  <2>2. k >= Len(e) /\ n >= Len(e)
    BY <1>2
  <2>3. Lowest(e)[k] = Value(e)
    BY <2>2, LowestBeyond
  <2>4. Lowest(e)[n] = Value(e)
    BY <2>2, LowestBeyond
  <2>. QED  BY <2>1, <2>3, <2>4
<1>5. Lowest(a)[k] - Lowest(a)[n] = Lowest(e)[k] - Lowest(e)[n]
  BY <1>3, SameAbove
<1>6. Lowest(a)[k] \in Int /\ Lowest(a)[n] \in Int
  BY LowestRule
<1>. QED  BY <1>4, <1>5, <1>6

\* One number added to another, moved up by s positions and multiplied by c.
LEMMA LowestShifted ==
  ASSUME NEW x \in Seq(Int), NEW a \in Seq(Int), NEW b \in Seq(Int),
         NEW c \in Int, NEW s \in Nat, NEW k \in Nat,
         \A p \in 1..(k + s) : Digit(x, p) = Digit(a, p) + c * Digit(b, p - s)
  PROVE  Lowest(x)[k + s] = Lowest(a)[k + s] + c * (Weight[s] * Lowest(b)[k])
<1> DEFINE T == {j \in Nat : j <= k =>
                   Lowest(x)[j + s] = Lowest(a)[j + s] + c * (Weight[s] * Lowest(b)[j])}
<1>1. 0 \in T
  <2>1. ASSUME NEW p \in 1..s PROVE Digit(x, p) = Digit(a, p)
    <3>1. Digit(b, p - s) = 0
      BY DEF Digit
    <3>2. Digit(x, p) = Digit(a, p) + c * Digit(b, p - s)
      OBVIOUS
    <3>3. Digit(a, p) \in Int
      BY DigitType
    <3>. QED  BY <3>1, <3>2, <3>3
  <2>2. Lowest(x)[s] = Lowest(a)[s]
    BY <2>1, SameBelow
  <2>3. Lowest(b)[0] = 0 /\ Weight[s] \in Int /\ Lowest(a)[s] \in Int
    <3>1. Lowest(b)[0] = 0
      BY LowestRule
    <3>. QED  BY <3>1, LowestType, WeightType
  <2>4. c * (Weight[s] * Lowest(b)[0]) = 0
    BY <2>3
  <2>5. Lowest(x)[0 + s] = Lowest(a)[0 + s] + c * (Weight[s] * Lowest(b)[0])
    BY <2>2, <2>3, <2>4
  <2>. QED  BY <2>5
<1>2. ASSUME NEW j \in Nat, j \in T PROVE j + 1 \in T
  <2>. SUFFICES ASSUME j + 1 <= k
       PROVE  Lowest(x)[(j + 1) + s]
                = Lowest(a)[(j + 1) + s] + c * (Weight[s] * Lowest(b)[j + 1])
    OBVIOUS
  <2>1. PICK p \in Nat : p = j + s
    OBVIOUS
  <2>2. (j + 1) + s = p + 1 /\ j <= k /\ p + 1 \in 1..(k + s) /\ (p + 1) - s = j + 1
    BY <2>1
  <2>3. PICK xp \in Int, ap \in Int, bj \in Int :
          xp = Lowest(x)[p] /\ ap = Lowest(a)[p] /\ bj = Lowest(b)[j]
    BY LowestRule
  <2>4. PICK da \in Int, db \in Int : da = Digit(a, p + 1) /\ db = Digit(b, j + 1)
    <3>1. p + 1 \in Int /\ j + 1 \in Int
      OBVIOUS
    <3>2. Digit(a, p + 1) \in Int
      BY <3>1, DigitType
    <3>3. Digit(b, j + 1) \in Int
      BY <3>1, DigitType
    <3>. QED  BY <3>2, <3>3
  <2>5. Digit(x, p + 1) = da + c * db
    BY <2>2, <2>4
  <2>6. PICK ws \in Int, wj \in Int : ws = Weight[s] /\ wj = Weight[j]
    <3>1. Weight[s] \in Int /\ Weight[j] \in Int
      BY WeightType
    <3>. QED  BY <3>1
  <2>7. Weight[p] = ws * wj
    BY <2>1, <2>6, WeightSum, Products3
  <2>8. xp = ap + c * (ws * bj)
    BY <1>2, <2>1, <2>2, <2>3, <2>6
  <2>9. /\ Lowest(x)[p + 1] = xp + (da + c * db) * (ws * wj)
        /\ Lowest(a)[p + 1] = ap + da * (ws * wj)
    BY <2>3, <2>4, <2>5, <2>7, LowestRule
  <2>10. Lowest(b)[j + 1] = bj + db * wj
    BY <2>3, <2>4, <2>6, LowestRule
  <2>11. xp + (da + c * db) * (ws * wj) = (ap + da * (ws * wj)) + c * (ws * (bj + db * wj))
    <3>1. PICK w \in Int : w = ws * wj
      OBVIOUS
    <3>2. (da + c * db) * w = da * w + (c * db) * w
      OBVIOUS
    <3>3. (c * db) * w = c * (ws * (db * wj))
      BY <3>1
    <3>4. c * (ws * (bj + db * wj)) = c * (ws * bj) + c * (ws * (db * wj))
      <4>1. ws * (bj + db * wj) = ws * bj + ws * (db * wj)
        OBVIOUS
      <4>. QED  BY <4>1
    <3>5. PICK t1 \in Int, t2 \in Int, t3 \in Int :
            t1 = da * w /\ t2 = c * (ws * (db * wj)) /\ t3 = c * (ws * bj)
      BY <3>1
    <3>6. /\ (da + c * db) * (ws * wj) = t1 + t2
          /\ c * (ws * (bj + db * wj)) = t3 + t2
          /\ xp = ap + t3
          /\ da * (ws * wj) = t1
      BY <2>8, <3>1, <3>2, <3>3, <3>4, <3>5
    <3>7. xp + (t1 + t2) = (ap + t1) + (t3 + t2)
      BY <3>6
    <3>. QED  BY <3>6, <3>7
  <2>. QED  BY <2>2, <2>6, <2>9, <2>10, <2>11
<1> HIDE DEF T
<1>3. k \in T
  BY <1>1, <1>2, FromZeroUp
<1>. QED  BY <1>3 DEF T

LEMMA MagnitudeType ==
  ASSUME NEW m \in Magnitudes
  PROVE  /\ m \in Seq(Digits) /\ m \in Seq(Int)
         /\ Len(m) \in Nat \ {0}
         /\ \A i \in 1..Len(m) : m[i] \in Int /\ 0 <= m[i] /\ m[i] < Base
<1>1. m \in Seq(Digits) /\ m # << >>
  BY DEF Magnitudes
<1>2. m \in Seq(Int)
  BY <1>1, DigitsAreInt
<1>3. Len(m) \in Nat \ {0}
  BY <1>1
<1>4. \A i \in 1..Len(m) : m[i] \in Int /\ 0 <= m[i] /\ m[i] < Base
  BY <1>1, BaseAssumption DEF Digits
<1>. QED  BY <1>1, <1>2, <1>3, <1>4

-----------------------------------------------------------------------------
(***************************************************************************)
(* Trimming and comparing.                                                 *)
(***************************************************************************)

\* What the scan for the last digit that is not zero finds.
LEMMA SignificantRule ==
  ASSUME NEW m \in Magnitudes
  PROVE  /\ Significant(m) \in 1..Len(m)
         /\ Significant(m) = 1 \/ m[Significant(m)] # 0
         /\ \A i \in (Significant(m) + 1)..Len(m) : m[i] = 0
<1> DEFINE Fits(n) == /\ n = 1 \/ m[n] # 0
                      /\ \A i \in (n + 1)..Len(m) : m[i] = 0
           S == {i \in 1..Len(m) : m[i] # 0}
<1>1. Len(m) \in Nat \ {0}
  BY MagnitudeType
<1>2. \E n \in 1..Len(m) : Fits(n)
  <2>1. CASE S = {}
    <3>1. Fits(1) /\ 1 \in 1..Len(m)
      BY <1>1, <2>1
    <3>. QED  BY <3>1
  <2>2. CASE S # {}
    <3>1. PICK n \in S : \A j \in S : j <= n
      BY <1>1, <2>2, Greatest
    <3>2. Fits(n) /\ n \in 1..Len(m)
      BY <1>1, <3>1
    <3>. QED  BY <3>2
  <2>. QED  BY <2>1, <2>2
<1>3. Significant(m) = CHOOSE n \in 1..Len(m) : Fits(n)
  BY DEF Significant
<1> HIDE DEF Fits
<1>4. Significant(m) \in 1..Len(m) /\ Fits(Significant(m))
  BY <1>2, <1>3
<1>. QED  BY <1>4 DEF Fits

\* Nothing is above the significant digits.
LEMMA ValueSignificant ==
  ASSUME NEW m \in Magnitudes
  PROVE  Value(m) = Lowest(m)[Significant(m)]
<1>1. m \in Seq(Int) /\ Len(m) \in Nat
  BY MagnitudeType
<1>2. Significant(m) \in Nat /\ Significant(m) <= Len(m)
  BY <1>1, SignificantRule
<1>3. \A i \in (Significant(m) + 1)..Len(m) : Digit(m, i) = 0
  BY <1>1, <1>2, SignificantRule DEF Digit
<1>4. Lowest(m)[Len(m)] = Lowest(m)[Significant(m)]
  BY <1>1, <1>2, <1>3, ZerosAbove
<1>. QED  BY <1>4 DEF Value

\* The top digit decides on the magnitude of a value.
LEMMA TopDigit ==
  ASSUME NEW m \in Seq(Digits), NEW n \in Nat \ {0}
  PROVE  /\ Digit(m, n) * Weight[n - 1] <= Lowest(m)[n]
         /\ Lowest(m)[n] < (Digit(m, n) + 1) * Weight[n - 1]
<1>1. PICK k \in Nat : n = k + 1 /\ n - 1 = k
  <2>1. n - 1 \in Nat /\ n = (n - 1) + 1
    OBVIOUS
  <2>. QED  BY <2>1
<1>2. m \in Seq(Int)
  BY DigitsAreInt
<1>3. Lowest(m)[n] = Lowest(m)[k] + Digit(m, n) * Weight[k]
  BY <1>1, <1>2, LowestRule
<1>4. Lowest(m)[k] \in 0..(Weight[k] - 1)
  BY LowestBounds
<1>5. PICK d \in Int : d = Digit(m, n)
  <2>1. n \in Int
    OBVIOUS
  <2>. QED  BY <1>2, <2>1, DigitType
<1>6. PICK w \in Int : w = Weight[k]
  BY WeightType
<1>7. (d + 1) * w = d * w + w
  OBVIOUS
<1>8. PICK t \in Int : t = d * w
  OBVIOUS
<1>. QED  BY <1>1, <1>3, <1>4, <1>5, <1>6, <1>7, <1>8

\* A magnitude is zero where the code takes it for zero.
LEMMA ZeroValue ==
  ASSUME NEW m \in Magnitudes
  PROVE  /\ 0 <= Value(m)
         /\ IsZeroMag(m) <=> Value(m) = 0
<1>1. m \in Seq(Int) /\ m \in Seq(Digits) /\ Len(m) \in Nat
  BY MagnitudeType
<1>2. 0 <= Value(m)
  <2>1. Lowest(m)[Len(m)] \in 0..(Weight[Len(m)] - 1)
    BY <1>1, LowestBounds
  <2>2. Weight[Len(m)] \in Int
    BY <1>1, WeightType
  <2>. QED  BY <2>1, <2>2 DEF Value
<1>3. ASSUME IsZeroMag(m) PROVE Value(m) = 0
  <2>1. \A i \in (0 + 1)..Len(m) : Digit(m, i) = 0
    BY <1>3 DEF Digit, IsZeroMag
  <2>2. Lowest(m)[Len(m)] = Lowest(m)[0]
    BY <1>1, <2>1, ZerosAbove
  <2>3. Lowest(m)[0] = 0
    BY <1>1, LowestRule
  <2>. QED  BY <2>2, <2>3 DEF Value
<1>4. ASSUME ~IsZeroMag(m) PROVE Value(m) # 0
  <2>1. PICK n \in Nat \ {0} : n = Significant(m)
    BY <1>1, SignificantRule
  <2>2. Digit(m, n) >= 1
    <3>1. Significant(m) \in 1..Len(m)
      BY SignificantRule
    <3>2. m[Significant(m)] # 0
      <4>1. CASE Significant(m) = 1
        <5>1. \A i \in (1 + 1)..Len(m) : m[i] = 0
          BY <4>1, SignificantRule
        <5>2. PICK i \in 1..Len(m) : m[i] # 0
          BY <1>4 DEF IsZeroMag
        <5>3. i = 1
          BY <1>1, <5>1, <5>2
        <5>. QED  BY <4>1, <5>2, <5>3
      <4>. QED  BY <4>1, SignificantRule
    <3>3. \A i \in 1..Len(m) : m[i] \in Int /\ 0 <= m[i]
      BY MagnitudeType
    <3>. QED  BY <2>1, <3>1, <3>2, <3>3 DEF Digit
  <2>3. n - 1 \in Nat
    OBVIOUS
  <2>4. PICK w \in Int : w = Weight[n - 1] /\ w > 0
    BY <2>3, WeightType
  <2>5. PICK d \in Int : d = Digit(m, n) /\ d >= 1
    <3>1. Digit(m, n) \in Int
      BY <1>1, DigitType
    <3>. QED  BY <2>2, <3>1
  <2>6. d * w > 0
    BY <2>4, <2>5
  <2>7. d * w <= Lowest(m)[n]
    BY <1>1, <2>4, <2>5, TopDigit
  <2>8. Lowest(m)[n] \in Int
    BY <1>1, LowestType
  <2>9. Value(m) = Lowest(m)[n]
    BY <2>1, ValueSignificant
  <2>10. d * w \in Int
    OBVIOUS
  <2>. QED  BY <2>6, <2>7, <2>8, <2>9, <2>10
<1>. QED  BY <1>2, <1>3, <1>4

\* mag_trim keeps the value and leaves nothing to trim.
LEMMA TrimRule ==
  ASSUME NEW m \in Magnitudes
  PROVE  /\ Trim(m) \in Magnitudes
         /\ Len(Trim(m)) = Significant(m)
         /\ Significant(Trim(m)) = Significant(m)
         /\ Trim(Trim(m)) = Trim(m)
         /\ Len(Trim(m)) <= Len(m)
         /\ Value(Trim(m)) = Value(m)
<1>1. m \in Seq(Int) /\ m \in Seq(Digits) /\ Len(m) \in Nat
  BY MagnitudeType
<1>2. PICK n \in 1..Len(m) : n = Significant(m)
  BY SignificantRule
<1>3. n = 1 \/ m[n] # 0
  BY <1>2, SignificantRule
<1>4. PICK t : t = Trim(m) /\ t = [i \in 1..n |-> m[i]]
  BY <1>2 DEF Trim
<1>5. /\ t \in Seq(Digits) /\ Len(t) = n
      /\ \A i \in 1..n : t[i] = m[i]
  <2>1. \A i \in 1..n : m[i] \in Digits
    BY <1>1
  <2>2. n \in Nat
    BY <1>1
  <2>. QED  BY <1>4, <2>1, <2>2
<1>6. t \in Magnitudes
  BY <1>5 DEF Magnitudes
<1>7. Significant(t) = n
  <2>1. Significant(t) \in 1..n
    BY <1>5, <1>6, SignificantRule
  <2>2. \A i \in (Significant(t) + 1)..n : t[i] = 0
    BY <1>5, <1>6, SignificantRule
  <2>3. CASE n = 1
    BY <2>1, <2>3
  <2>4. CASE n # 1
    <3>1. t[n] # 0
      BY <1>1, <1>3, <1>5, <2>4
    <3>2. ~(n \in (Significant(t) + 1)..n)
      BY <2>2, <3>1
    <3>. QED  BY <1>1, <2>1, <3>2
  <2>. QED  BY <2>3, <2>4
<1>8. Trim(t) = t
  <2>1. Trim(t) = [i \in 1..n |-> t[i]]
    BY <1>7 DEF Trim
  <2>2. t = [i \in 1..n |-> t[i]]
    BY <1>4
  <2>. QED  BY <2>1, <2>2
<1>9. Value(t) = Value(m)
  <2>1. t \in Seq(Int) /\ n \in Nat
    BY <1>1, <1>5, DigitsAreInt
  <2>2. \A i \in 1..n : Digit(t, i) = Digit(m, i)
    BY <1>1, <1>2, <1>5 DEF Digit
  <2>3. Lowest(t)[n] = Lowest(m)[n]
    BY <1>1, <2>1, <2>2, SameBelow
  <2>4. Value(m) = Lowest(m)[n]
    BY <1>2, ValueSignificant
  <2>. QED  BY <1>5, <2>3, <2>4 DEF Value
<1>10. n <= Len(m)
  BY <1>1, <1>2
<1>. QED  BY <1>2, <1>4, <1>5, <1>6, <1>7, <1>8, <1>9, <1>10

\* What the scan for the top difference finds.
LEMMA TopDifferenceRule ==
  ASSUME NEW a \in Magnitudes, NEW b \in Magnitudes, NEW n \in Nat,
         ~(\A i \in 1..n : Digit(a, i) = Digit(b, i))
  PROVE  /\ TopDifference(a, b, n) \in 1..n
         /\ Digit(a, TopDifference(a, b, n)) # Digit(b, TopDifference(a, b, n))
         /\ \A j \in (TopDifference(a, b, n) + 1)..n : Digit(a, j) = Digit(b, j)
<1> DEFINE Top(i) == /\ Digit(a, i) # Digit(b, i)
                     /\ \A j \in (i + 1)..n : Digit(a, j) = Digit(b, j)
           S == {i \in 1..n : Digit(a, i) # Digit(b, i)}
<1>1. S # {} /\ S \in SUBSET (1..n)
  OBVIOUS
<1>2. PICK i \in S : \A j \in S : j <= i
  BY <1>1, Greatest
<1>3. i \in 1..n /\ Top(i)
  <2>1. ASSUME NEW j \in (i + 1)..n PROVE Digit(a, j) = Digit(b, j)
    <3>1. j \in 1..n /\ j \notin S
      BY <1>2
    <3>. QED  BY <3>1
  <2>. QED  BY <1>2, <2>1
<1>4. TopDifference(a, b, n) = CHOOSE j \in 1..n : Top(j)
  BY DEF TopDifference
<1> HIDE DEF Top
<1>5. TopDifference(a, b, n) \in 1..n /\ Top(TopDifference(a, b, n))
  BY <1>3, <1>4
<1>. QED  BY <1>5 DEF Top

\* The comparison from the top digit downwards is the comparison of the values.
LEMMA CmpDigitsRule ==
  ASSUME NEW a \in Magnitudes, NEW b \in Magnitudes, NEW n \in Nat
  PROVE  CmpDigits(a, b, n) = IF Lowest(a)[n] < Lowest(b)[n] THEN -1
                              ELSE IF Lowest(a)[n] > Lowest(b)[n] THEN 1 ELSE 0
<1>1. a \in Seq(Int) /\ a \in Seq(Digits) /\ b \in Seq(Int) /\ b \in Seq(Digits)
  BY MagnitudeType
<1>2. PICK va \in Int, vb \in Int : va = Lowest(a)[n] /\ vb = Lowest(b)[n]
  <2>1. Lowest(a)[n] \in Int /\ Lowest(b)[n] \in Int
    BY <1>1, LowestType
  <2>. QED  BY <2>1
<1>3. CASE \A i \in 1..n : Digit(a, i) = Digit(b, i)
  <2>1. va = vb
    BY <1>1, <1>2, <1>3, SameBelow
  <2>. QED  BY <1>2, <1>3, <2>1 DEF CmpDigits
<1>4. CASE ~(\A i \in 1..n : Digit(a, i) = Digit(b, i))
  <2>1. PICK t \in 1..n : /\ t = TopDifference(a, b, n)
                          /\ Digit(a, t) # Digit(b, t)
                          /\ \A j \in (t + 1)..n : Digit(a, j) = Digit(b, j)
    BY <1>4, TopDifferenceRule
  <2>2. t \in Nat /\ t \in Nat \ {0} /\ t \in Int /\ t <= n /\ t - 1 \in Nat
    BY <2>1
  <2>3. PICK ua \in Int, ub \in Int : ua = Lowest(a)[t] /\ ub = Lowest(b)[t]
    <3>1. Lowest(a)[t] \in Int /\ Lowest(b)[t] \in Int
      BY <1>1, <2>2, LowestType
    <3>. QED  BY <3>1
  <2>4. va - ua = vb - ub
    BY <1>1, <1>2, <2>1, <2>2, <2>3, SameAbove
  <2>5. PICK da \in Int, db \in Int : da = Digit(a, t) /\ db = Digit(b, t)
    <3>1. Digit(a, t) \in Int /\ Digit(b, t) \in Int
      BY <1>1, <2>2, DigitType
    <3>. QED  BY <3>1
  <2>6. PICK w \in Nat : w = Weight[t - 1] /\ w > 0
    BY <2>2, WeightType
  <2>7. /\ da * w <= ua /\ ua < (da + 1) * w
        /\ db * w <= ub /\ ub < (db + 1) * w
    BY <1>1, <2>2, <2>3, <2>5, <2>6, TopDigit
  <2>8. CmpDigits(a, b, n) = IF da < db THEN -1 ELSE 1
    BY <1>4, <2>1, <2>5 DEF CmpDigits
  <2>9. CASE da < db
    <3>1. (da + 1) * w <= db * w
      <4>1. PICK e \in Nat : db = (da + 1) + e
        <5>1. db - (da + 1) \in Nat
          BY <2>9
        <5>. QED  BY <5>1
      <4>2. db * w = (da + 1) * w + e * w
        BY <4>1
      <4>3. e * w \in Nat /\ (da + 1) * w \in Int
        OBVIOUS
      <4>. QED  BY <4>2, <4>3
    <3>2. (da + 1) * w \in Int /\ db * w \in Int
      OBVIOUS
    <3>3. ua < ub
      BY <2>7, <3>1, <3>2
    <3>4. va < vb
      BY <2>4, <3>3
    <3>. QED  BY <1>2, <2>8, <2>9, <3>4
  <2>10. CASE da > db
    <3>1. (db + 1) * w <= da * w
      <4>1. PICK e \in Nat : da = (db + 1) + e
        <5>1. da - (db + 1) \in Nat
          BY <2>10
        <5>. QED  BY <5>1
      <4>2. da * w = (db + 1) * w + e * w
        BY <4>1
      <4>3. e * w \in Nat /\ (db + 1) * w \in Int
        OBVIOUS
      <4>. QED  BY <4>2, <4>3
    <3>2. (db + 1) * w \in Int /\ da * w \in Int
      OBVIOUS
    <3>3. ub < ua
      BY <2>7, <3>1, <3>2
    <3>4. vb < va
      BY <2>4, <3>3
    <3>. QED  BY <1>2, <2>8, <2>10, <3>4
  <2>11. da # db
    BY <2>1, <2>5
  <2>. QED  BY <2>9, <2>10, <2>11
<1>. QED  BY <1>3, <1>4

\* A magnitude with more significant digits is worth more.
LEMMA LongerIsMore ==
  ASSUME NEW a \in Magnitudes, NEW b \in Magnitudes, Significant(a) < Significant(b)
  PROVE  Value(a) < Value(b)
<1>1. a \in Seq(Int) /\ a \in Seq(Digits) /\ b \in Seq(Int) /\ b \in Seq(Digits)
  BY MagnitudeType
<1>2. PICK m \in Nat, n \in Nat \ {0} : m = Significant(a) /\ n = Significant(b) /\ m >= 1 /\ n <= Len(b)
  <2>1. Len(a) \in Nat /\ Len(b) \in Nat
    BY MagnitudeType
  <2>2. Significant(a) \in 1..Len(a) /\ Significant(b) \in 1..Len(b)
    BY SignificantRule
  <2>. QED  BY <2>1, <2>2
<1>3. m <= n - 1 /\ n - 1 \in Nat /\ n # 1 /\ n \in 1..Len(b)
  <2>1. Len(b) \in Nat
    BY MagnitudeType
  <2>. QED  BY <1>2, <2>1
<1>4. Value(a) \in Int /\ Value(a) < Weight[n - 1]
  <2>1. Lowest(a)[m] \in 0..(Weight[m] - 1)
    BY <1>1, LowestBounds
  <2>2. Weight[m] <= Weight[n - 1]
    BY <1>3, WeightGrows
  <2>3. Weight[m] \in Int /\ Weight[n - 1] \in Int
    BY <1>3, WeightType
  <2>4. Value(a) = Lowest(a)[m]
    BY <1>2, ValueSignificant
  <2>. QED  BY <2>1, <2>2, <2>3, <2>4
<1>5. Value(b) \in Int /\ Weight[n - 1] <= Value(b)
  <2>1. PICK d \in Int : d = Digit(b, n) /\ d >= 1
    <3>1. b[n] # 0
      BY <1>2, <1>3, SignificantRule
    <3>2. b[n] \in Int /\ 0 <= b[n]
      BY <1>3, MagnitudeType
    <3>. QED  BY <1>3, <3>1, <3>2 DEF Digit
  <2>2. PICK w \in Nat : w = Weight[n - 1]
    BY <1>3, WeightType
  <2>3. d * w <= Lowest(b)[n]
    BY <1>1, <2>1, <2>2, TopDigit
  <2>4. w <= d * w
    <3>1. 1 * w <= d * w
      BY <2>1, ProductOrder
    <3>. QED  BY <3>1
  <2>5. Lowest(b)[n] \in Int /\ d * w \in Int
    BY <1>1, LowestType
  <2>6. Value(b) = Lowest(b)[n]
    BY <1>2, ValueSignificant
  <2>. QED  BY <2>2, <2>3, <2>4, <2>5, <2>6
<1>6. Weight[n - 1] \in Int
  BY <1>3, WeightType
<1>. QED  BY <1>4, <1>5, <1>6

\* mag_cmp is the order of the values, leading zeros or not.
LEMMA MagCmpRule ==
  ASSUME NEW a \in Magnitudes, NEW b \in Magnitudes
  PROVE  /\ MagCmp(a, b) = IF Value(a) < Value(b) THEN -1
                           ELSE IF Value(a) > Value(b) THEN 1 ELSE 0
         /\ Value(a) \in Int /\ Value(b) \in Int
<1>1. Value(a) \in Int /\ Value(b) \in Int
  BY MagnitudeType, ValueType
<1>2. PICK m \in Nat, n \in Nat : m = Significant(a) /\ n = Significant(b)
  <2>1. Len(a) \in Nat /\ Len(b) \in Nat
    BY MagnitudeType
  <2>2. Significant(a) \in 1..Len(a) /\ Significant(b) \in 1..Len(b)
    BY SignificantRule
  <2>. QED  BY <2>1, <2>2
<1>3. MagCmp(a, b) = IF m < n THEN -1 ELSE IF m > n THEN 1 ELSE CmpDigits(a, b, n)
  BY <1>2 DEF MagCmp, CmpLengths
<1>4. CASE m < n
  <2>1. Value(a) < Value(b)
    BY <1>2, <1>4, LongerIsMore
  <2>. QED  BY <1>1, <1>3, <1>4, <2>1
<1>5. CASE m > n
  <2>1. Value(b) < Value(a)
    BY <1>2, <1>5, LongerIsMore
  <2>. QED  BY <1>1, <1>3, <1>5, <2>1
<1>6. CASE m = n
  <2>1. Value(a) = Lowest(a)[n] /\ Value(b) = Lowest(b)[n]
    BY <1>2, <1>6, ValueSignificant
  <2>2. CmpDigits(a, b, n) = IF Lowest(a)[n] < Lowest(b)[n] THEN -1
                             ELSE IF Lowest(a)[n] > Lowest(b)[n] THEN 1 ELSE 0
    BY CmpDigitsRule
  <2>. QED  BY <1>1, <1>3, <1>6, <2>1, <2>2
<1>. QED  BY <1>4, <1>5, <1>6

LEMMA LowestFrom ==
  ASSUME NEW m \in Magnitudes, NEW n \in Nat, n >= Significant(m)
  PROVE  Lowest(m)[n] = Value(m)
<1>1. m \in Seq(Int) /\ Len(m) \in Nat
  BY MagnitudeType
<1>2. Significant(m) \in Nat
  BY <1>1, SignificantRule
<1>3. \A i \in (Significant(m) + 1)..n : Digit(m, i) = 0
  BY <1>1, <1>2, SignificantRule DEF Digit
<1>4. Lowest(m)[n] = Lowest(m)[Significant(m)]
  BY <1>1, <1>2, <1>3, ZerosAbove
<1>. QED  BY <1>4, ValueSignificant

LEMMA SignificantIsShort ==
  ASSUME NEW m \in Magnitudes
  PROVE  Significant(m) \in Nat /\ 1 <= Significant(m) /\ Significant(m) <= Len(m)
  BY MagnitudeType, SignificantRule

\* What n digits are worth bounds the value of a magnitude of at most n.
LEMMA ValueBelow ==
  ASSUME NEW m \in Magnitudes, NEW n \in Nat, n >= Significant(m)
  PROVE  Value(m) \in Nat /\ Value(m) < Weight[n]
<1>1. Lowest(m)[n] \in 0..(Weight[n] - 1)
  BY MagnitudeType, LowestBounds
<1>2. Weight[n] \in Int
  BY WeightType
<1>. QED  BY <1>1, <1>2, LowestFrom

\* A sequence of sums of digits, before anything is carried.
LEMMA SumOfDigits ==
  ASSUME NEW x \in Seq(Int), NEW a \in Seq(Int), NEW b \in Seq(Int), NEW c \in Int,
         \A p \in 1..Len(x) : x[p] = Digit(a, p) + c * Digit(b, p)
  PROVE  Value(x) = Lowest(a)[Len(x)] + c * Lowest(b)[Len(x)]
<1>1. Len(x) \in Nat /\ Len(x) + 0 = Len(x)
  OBVIOUS
<1>2. \A p \in 1..(Len(x) + 0) : Digit(x, p) = Digit(a, p) + c * Digit(b, p - 0)
  <2>1. \A p \in 1..Len(x) : p - 0 = p /\ Digit(x, p) = x[p]
    BY <1>1 DEF Digit
  <2>. QED  BY <1>1, <2>1
<1>3. 0 \in Nat
  OBVIOUS
<1>4. Lowest(x)[Len(x) + 0] = Lowest(a)[Len(x) + 0] + c * (Weight[0] * Lowest(b)[Len(x)])
  BY <1>1, <1>2, <1>3, LowestShifted
<1>5. PICK v \in Int : v = Lowest(b)[Len(x)]
  BY <1>1, LowestType
<1>6. Weight[0] * v = v
  BY WeightRule
<1>. QED  BY <1>1, <1>4, <1>5, <1>6 DEF Value

Trimmed(m) == m \in Magnitudes /\ Trim(m) = m

-----------------------------------------------------------------------------
(***************************************************************************)
(* Sums, differences and products of magnitudes.                           *)
(***************************************************************************)

\* Carried and trimmed, a sum of rows is the one spelling of its value.
LEMMA TrimmedExact ==
  ASSUME NEW x \in Seq(Int), Len(x) > 0, 0 <= Value(x), Value(x) < Weight[Len(x)]
  PROVE  /\ Trimmed(Trim(Carried(x)))
         /\ Len(Trim(Carried(x))) <= Len(x)
         /\ Value(Trim(Carried(x))) = Value(x)
         /\ Carried(x) \in Magnitudes
<1>1. /\ Carried(x) \in Seq(Digits)
      /\ Len(Carried(x)) = Len(x)
      /\ Value(Carried(x)) = Value(x)
  BY CarriedExact
<1>2. Carried(x) \in Magnitudes
  BY <1>1 DEF Magnitudes
<1>. QED  BY <1>1, <1>2, TrimRule DEF Trimmed

\* Adding magnitudes adds their values.
LEMMA MagAddRule ==
  ASSUME NEW a \in Magnitudes, NEW b \in Magnitudes
  PROVE  IF Len(a) >= MaxDigits \/ Len(b) >= MaxDigits THEN MagAdd(a, b) = Refused
         ELSE /\ Trimmed(MagAdd(a, b))
              /\ Len(MagAdd(a, b)) <= MaxDigits
              /\ Value(MagAdd(a, b)) = Value(a) + Value(b)
<1>1. PICK n \in Nat \ {0} : n = Greater(Len(a), Len(b)) /\ n >= Len(a) /\ n >= Len(b)
                             /\ (n = Len(a) \/ n = Len(b))
  <2>1. Len(a) \in Nat \ {0} /\ Len(b) \in Nat \ {0}
    BY MagnitudeType
  <2>. QED  BY <2>1 DEF Greater
<1>2. Len(a) \in Nat /\ Len(b) \in Nat /\ MaxDigits \in Nat
  BY MagnitudeType, WidthAssumption
<1>3. CASE n >= MaxDigits
  BY <1>1, <1>2, <1>3 DEF MagAdd
<1>4. CASE ~(n >= MaxDigits)
  <2>1. PICK x : x = [i \in 1..(n + 1) |-> Digit(a, i) + Digit(b, i)]
    OBVIOUS
  <2>2. a \in Seq(Int) /\ b \in Seq(Int)
    BY MagnitudeType
  <2>3. ASSUME NEW i \in 1..(n + 1)
        PROVE  /\ Digit(a, i) + Digit(b, i) \in Int
               /\ Digit(a, i) + Digit(b, i) = Digit(a, i) + 1 * Digit(b, i)
    <3>1. i \in Int
      OBVIOUS
    <3>2. Digit(a, i) \in Int
      BY <2>2, <3>1, DigitType
    <3>3. Digit(b, i) \in Int
      BY <2>2, <3>1, DigitType
    <3>. QED  BY <3>2, <3>3
  <2>4. x \in Seq(Int) /\ Len(x) = n + 1
    BY <2>1, <2>3
  <2>5. \A i \in 1..Len(x) : x[i] = Digit(a, i) + 1 * Digit(b, i)
    BY <2>1, <2>3, <2>4
  <2>6. Value(x) = Lowest(a)[n + 1] + 1 * Lowest(b)[n + 1]
    <3>1. 1 \in Int
      OBVIOUS
    <3>2. Value(x) = Lowest(a)[Len(x)] + 1 * Lowest(b)[Len(x)]
      BY <2>2, <2>4, <2>5, <3>1, SumOfDigits
    <3>. QED  BY <2>4, <3>2
  <2>7. Lowest(a)[n + 1] = Value(a) /\ Lowest(b)[n + 1] = Value(b)
    <3>1. n + 1 \in Nat /\ n + 1 >= Len(a) /\ n + 1 >= Len(b)
      BY <1>1, <1>2
    <3>. QED  BY <2>2, <3>1, LowestBeyond
  <2>8. PICK va \in Nat, vb \in Nat, w \in Nat :
          va = Value(a) /\ vb = Value(b) /\ w = Weight[n] /\ va < w /\ vb < w
    <3>1. n >= Significant(a) /\ n >= Significant(b)
      BY <1>1, <1>2, SignificantIsShort
    <3>2. Weight[n] \in Nat
      BY WeightType
    <3>3. Value(a) \in Nat /\ Value(a) < Weight[n]
      BY <3>1, ValueBelow
    <3>4. Value(b) \in Nat /\ Value(b) < Weight[n]
      BY <3>1, ValueBelow
    <3>. QED  BY <3>2, <3>3, <3>4
  <2>9. Value(x) = va + vb
    BY <2>6, <2>7, <2>8
  <2>10. va + vb < Weight[n + 1]
    <3>1. Weight[n + 1] = Base * w
      BY <2>8, WeightRule
    <3>2. 2 * w <= Base * w
      BY BaseAssumption, ProductOrder
    <3>3. Base * w \in Int
      BY BaseAssumption
    <3>. QED  BY <2>8, <3>1, <3>2, <3>3
  <2>11. /\ Trimmed(Trim(Carried(x)))
         /\ Len(Trim(Carried(x))) <= n + 1
         /\ Value(Trim(Carried(x))) = va + vb
    BY <2>4, <2>9, <2>10, TrimmedExact
  <2>12. MagAdd(a, b) = Trim(Carried(x))
    BY <1>1, <1>4, <2>1 DEF MagAdd
  <2>13. Len(Trim(Carried(x))) \in Nat
    BY <2>11, MagnitudeType DEF Trimmed
  <2>. QED  BY <1>1, <1>2, <1>4, <2>8, <2>11, <2>12, <2>13
<1>. QED  BY <1>3, <1>4

\* Subtracting magnitudes subtracts their values, where that leaves one.
LEMMA MagSubRule ==
  ASSUME NEW a \in Magnitudes, NEW b \in Magnitudes
  PROVE  IF Value(a) < Value(b) THEN MagSub(a, b) = Refused
         ELSE /\ Trimmed(MagSub(a, b))
              /\ Len(MagSub(a, b)) <= Len(a)
              /\ Value(MagSub(a, b)) = Value(a) - Value(b)
<1>1. /\ MagCmp(a, b) = IF Value(a) < Value(b) THEN -1 ELSE IF Value(a) > Value(b) THEN 1 ELSE 0
      /\ Value(a) \in Int /\ Value(b) \in Int
  BY MagCmpRule
<1>2. CASE Value(a) < Value(b)
  BY <1>1, <1>2 DEF MagSub
<1>3. CASE ~(Value(a) < Value(b))
  <2>1. PICK n \in Nat \ {0} : n = Len(a)
    BY MagnitudeType
  <2>2. a \in Seq(Int) /\ b \in Seq(Int)
    BY MagnitudeType
  <2>3. PICK x : x = [i \in 1..n |-> a[i] - Digit(b, i)]
    OBVIOUS
  <2>4. ASSUME NEW i \in 1..n
        PROVE  a[i] - Digit(b, i) \in Int /\ a[i] - Digit(b, i) = Digit(a, i) + (-1) * Digit(b, i)
    <3>1. a[i] \in Int /\ Digit(a, i) = a[i]
      BY <2>1, <2>2 DEF Digit
    <3>2. Digit(b, i) \in Int
      BY <2>2, DigitType
    <3>. QED  BY <3>1, <3>2
  <2>5. x \in Seq(Int) /\ Len(x) = n
    BY <2>3, <2>4
  <2>6. \A i \in 1..Len(x) : x[i] = Digit(a, i) + (-1) * Digit(b, i)
    BY <2>3, <2>4, <2>5
  <2>7. Value(x) = Lowest(a)[n] + (-1) * Lowest(b)[n]
    <3>1. -1 \in Int
      OBVIOUS
    <3>. QED  BY <2>2, <2>5, <2>6, <3>1, SumOfDigits
  <2>8. Lowest(b)[n] = Value(b) /\ Value(b) \in Nat
    <3>1. Significant(b) <= n
      <4>1. /\ Significant(a) \in Nat /\ Significant(b) \in Nat
            /\ Significant(a) <= n /\ 1 <= Significant(b)
        BY <2>1, SignificantIsShort
      <4>2. ~(Significant(a) < Significant(b))
        BY <1>3, LongerIsMore
      <4>. QED  BY <4>1, <4>2
    <3>2. Significant(b) \in Nat
      BY SignificantIsShort
    <3>. QED  BY <3>1, <3>2, LowestFrom, ValueBelow
  <2>9. Lowest(a)[n] = Value(a)
    BY <2>1 DEF Value
  <2>10. Value(a) < Weight[n]
    <3>1. n >= Significant(a)
      BY <2>1, SignificantIsShort
    <3>. QED  BY <3>1, ValueBelow
  <2>11. Value(x) = Value(a) - Value(b)
    BY <1>1, <2>7, <2>8, <2>9
  <2>12. 0 <= Value(x) /\ Value(x) < Weight[n]
    <3>1. Weight[n] \in Int
      BY WeightType
    <3>. QED  BY <1>1, <1>3, <2>8, <2>10, <2>11, <3>1
  <2>13. /\ Trimmed(Trim(Carried(x)))
         /\ Len(Trim(Carried(x))) <= n
         /\ Value(Trim(Carried(x))) = Value(x)
    BY <2>5, <2>12, TrimmedExact
  <2>14. MagSub(a, b) = Trim(Carried(x))
    BY <1>1, <1>3, <2>1, <2>3 DEF MagSub, Difference
  <2>. QED  BY <1>3, <2>1, <2>11, <2>13, <2>14
<1>. QED  BY <1>2, <1>3

LEMMA ProductBelow ==
  ASSUME NEW x \in Nat, NEW y \in Nat, NEW u \in Nat, NEW v \in Nat, x < u, y < v
  PROVE  x * y \in Nat /\ 0 <= x * y /\ x * y < u * v
<1>1. x * y <= u * y
  BY ProductOrder
<1>2. PICK d \in Nat : v = y + 1 + d
  <2>1. v - (y + 1) \in Nat /\ v = y + 1 + (v - (y + 1))
    OBVIOUS
  <2>. QED  BY <2>1
<1>3. u * v = u * y + u * (1 + d)
  BY <1>2
<1>4. u * (1 + d) > 0
  <2>1. u > 0 /\ 1 + d > 0
    OBVIOUS
  <2>. QED  BY <2>1
<1>5. x * y \in Nat /\ u * y \in Int /\ u * (1 + d) \in Int
  OBVIOUS
<1>. QED  BY <1>1, <1>3, <1>4, <1>5

AllOf(L) == {m \in Seq(Digits) : Len(m) = L}

\* A row with what is already there, before anything is carried.
Row(out, i, d, b) == [p \in 1..Len(out) |-> out[p] + d * Digit(b, p - i + 1)]

\* A row added stays in the buffer.
LEMMA AddRowType ==
  ASSUME NEW L \in Nat, NEW out \in AllOf(L), NEW i \in Int, NEW d \in Int, NEW b \in Seq(Int)
  PROVE  /\ AddRow(out, i, d, b) \in AllOf(L)
         /\ AddRow(out, i, d, b) = Carried(Row(out, i, d, b))
         /\ Row(out, i, d, b) \in Seq(Int) /\ Len(Row(out, i, d, b)) = L
<1>1. out \in Seq(Digits) /\ out \in Seq(Int) /\ Len(out) = L
  BY DigitsAreInt DEF AllOf
<1>2. ASSUME NEW p \in 1..L PROVE out[p] + d * Digit(b, p - i + 1) \in Int
  <2>1. p - i + 1 \in Int
    OBVIOUS
  <2>2. PICK g \in Int : g = Digit(b, p - i + 1)
    BY <2>1, DigitType
  <2>3. out[p] \in Int
    BY <1>1
  <2>. QED  BY <2>2, <2>3
<1>3. PICK x : x = [p \in 1..L |-> out[p] + d * Digit(b, p - i + 1)]
  OBVIOUS
<1>4. x \in Seq(Int) /\ Len(x) = L
  BY <1>2, <1>3
<1>5. x = Row(out, i, d, b)
  BY <1>1, <1>3 DEF Row
<1>6. AddRow(out, i, d, b) = Carried(x)
  BY <1>1, <1>3 DEF AddRow
<1>7. Carried(x) \in AllOf(L)
  BY <1>4, CarriedType DEF AllOf
<1>. QED  BY <1>4, <1>5, <1>6, <1>7

\* A row adds its digit times the other factor, shifted.
LEMMA RowSum ==
  ASSUME NEW L \in Nat, NEW out \in AllOf(L), NEW k \in Nat, NEW d \in Int, NEW b \in Seq(Int),
         k + Len(b) <= L
  PROVE  Value(Row(out, k + 1, d, b)) = Value(out) + d * (Weight[k] * Value(b))
<1>1. out \in Seq(Digits) /\ out \in Seq(Int) /\ Len(out) = L
  BY DigitsAreInt DEF AllOf
<1>2. PICK x : x = Row(out, k + 1, d, b)
  OBVIOUS
<1>3. x \in Seq(Int) /\ Len(x) = L
  <2>1. k + 1 \in Int
    OBVIOUS
  <2>. QED  BY <1>2, <2>1, AddRowType
<1>4. PICK j \in Nat : j + k = L /\ j >= Len(b)
  <2>1. Len(b) \in Nat
    OBVIOUS
  <2>2. L - k \in Nat /\ (L - k) + k = L /\ L - k >= Len(b)
    BY <2>1
  <2>. QED  BY <2>2
<1>5. \A p \in 1..(j + k) : Digit(x, p) = Digit(out, p) + d * Digit(b, p - k)
  <2>1. ASSUME NEW p \in 1..L PROVE Digit(x, p) = Digit(out, p) + d * Digit(b, p - k)
    <3>1. p - (k + 1) + 1 = p - k
      OBVIOUS
    <3>2. Digit(x, p) = x[p] /\ Digit(out, p) = out[p]
      BY <1>1, <1>3 DEF Digit
    <3>3. x[p] = out[p] + d * Digit(b, p - (k + 1) + 1)
      BY <1>1, <1>2 DEF Row
    <3>. QED  BY <3>1, <3>2, <3>3
  <2>. QED  BY <1>4, <2>1
<1>6. Lowest(x)[j + k] = Lowest(out)[j + k] + d * (Weight[k] * Lowest(b)[j])
  <2>. HIDE DEF Digit
  <2>. QED  BY <1>1, <1>3, <1>5, LowestShifted
<1>7. Lowest(b)[j] = Value(b)
  BY <1>4, LowestBeyond
<1>. QED  BY <1>1, <1>2, <1>3, <1>4, <1>6, <1>7 DEF Value

\* The buffer, row by row.
LEMMA RowsRule ==
  ASSUME NEW a \in Magnitudes, NEW b \in Magnitudes
  PROVE  /\ Rows(a, b) \in [Nat -> AllOf(Len(a) + Len(b))]
         /\ Rows(a, b)[0] = Zeros(Len(a) + Len(b))
         /\ \A n \in Nat : Rows(a, b)[n + 1] = AddRow(Rows(a, b)[n], n + 1, Digit(a, n + 1), b)
<1>1. a \in Seq(Int) /\ b \in Seq(Int) /\ Len(a) \in Nat /\ Len(b) \in Nat
  BY MagnitudeType
<1>2. PICK L \in Nat : L = Len(a) + Len(b)
  BY <1>1
<1> DEFINE S == AllOf(L)
           step == [n \in Nat \ {0} |-> [v \in S |-> AddRow(v, n, Digit(a, n), b)]]
           Obeys(f) == f = [n \in Nat |-> IF n = 0 THEN Zeros(L)
                                          ELSE AddRow(f[n - 1], n, Digit(a, n), b)]
<1>3. ASSUME NEW n \in Nat, NEW v \in S PROVE AddRow(v, n, Digit(a, n), b) \in S
  <2>1. n \in Int
    OBVIOUS
  <2>2. Digit(a, n) \in Int
    BY <1>1, <2>1, DigitType
  <2>. QED  BY <1>1, <2>1, <2>2, AddRowType
<1>4. Zeros(L) \in S
  <2>1. 0 \in Digits
    BY BaseAssumption DEF Digits
  <2>. QED  BY <2>1 DEF Zeros, AllOf
<1> HIDE DEF S
<1>5. step \in Steps(S)
  <2>1. \A n \in Nat \ {0}, v \in S : AddRow(v, n, Digit(a, n), b) \in S
    BY <1>3
  <2>. QED  BY <2>1, Zenon DEF Steps
<1>6. \A n \in Nat, v \in S : step[n + 1][v] = AddRow(v, n + 1, Digit(a, n + 1), b)
  OBVIOUS
<1> HIDE DEF step
<1>7. PICK f : Runs(f, S, Zeros(L), step)
  BY <1>4, <1>5, Recursion, Zenon
<1>8. ASSUME NEW n \in Nat
      PROVE  f[n] = IF n = 0 THEN Zeros(L) ELSE AddRow(f[n - 1], n, Digit(a, n), b)
  <2>1. CASE n = 0
    BY <1>7, <2>1 DEF Runs
  <2>2. CASE n # 0
    <3>1. PICK k \in Nat : n = k + 1
      BY <2>2
    <3>2. f[k] \in S /\ f[k + 1] = step[k + 1][f[k]]
      BY <1>7 DEF Runs
    <3>3. f[k + 1] = AddRow(f[k], k + 1, Digit(a, k + 1), b)
      BY <1>6, <3>2
    <3>4. n # 0 /\ n - 1 = k
      BY <3>1
    <3>. QED  BY <3>1, <3>3, <3>4
  <2>. QED  BY <2>1, <2>2
<1>9. Obeys(f)
  BY <1>7, <1>8 DEF Runs
<1>10. Obeys(Rows(a, b))
  <2> HIDE DEF Obeys
  <2>1. Obeys(CHOOSE g : Obeys(g))
    BY <1>9, Zenon
  <2>. QED  BY <1>2, <2>1 DEF Rows, Obeys
<1>11. PICK p : p = Rows(a, b)
  OBVIOUS
<1>12. p = [n \in Nat |-> p[n]] /\ p[0] = Zeros(L)
  BY <1>10, <1>11
<1>13. ASSUME NEW n \in Nat PROVE p[n + 1] = AddRow(p[n], n + 1, Digit(a, n + 1), b)
  <2>1. n + 1 \in Nat /\ n + 1 # 0 /\ (n + 1) - 1 = n
    OBVIOUS
  <2>2. \A k \in Nat : p[k] = IF k = 0 THEN Zeros(L) ELSE AddRow(p[k - 1], k, Digit(a, k), b)
    BY <1>10, <1>11
  <2>3. p[n + 1] = IF n + 1 = 0 THEN Zeros(L)
                   ELSE AddRow(p[(n + 1) - 1], n + 1, Digit(a, n + 1), b)
    BY <2>1, <2>2
  <2>. QED  BY <2>1, <2>3
<1>14. \A n \in Nat : p[n] \in S
  <2> DEFINE T == {n \in Nat : p[n] \in S}
  <2>1. 0 \in T
    BY <1>4, <1>12
  <2>2. ASSUME NEW n \in Nat, n \in T PROVE n + 1 \in T
    <3>1. p[n] \in S /\ n + 1 \in Nat
      BY <2>2
    <3>2. p[n + 1] \in S
      BY <1>3, <1>13, <3>1
    <3>. QED  BY <3>1, <3>2
  <2> HIDE DEF T
  <2>3. \A n \in Nat : n \in T
    BY <2>1, <2>2, FromZeroUp
  <2>. QED  BY <2>3 DEF T
<1>. QED  BY <1>2, <1>11, <1>12, <1>13, <1>14 DEF S

LEMMA ZerosAreNothing ==
  ASSUME NEW n \in Nat
  PROVE  Value(Zeros(n)) = 0
<1>1. Zeros(n) \in Seq(Int) /\ Len(Zeros(n)) = n
  BY DEF Zeros
<1>2. \A i \in (0 + 1)..n : Digit(Zeros(n), i) = 0
  BY <1>1 DEF Digit, Zeros
<1>3. 0 \in Nat /\ 0 <= n
  OBVIOUS
<1>4. Lowest(Zeros(n))[n] = Lowest(Zeros(n))[0]
  BY <1>1, <1>2, <1>3, ZerosAbove
<1>5. Lowest(Zeros(n))[0] = 0
  BY <1>1, LowestRule
<1>. QED  BY <1>1, <1>4, <1>5 DEF Value

\* Row by row, the rows add up to the product of the digits multiplied so far.
LEMMA RowsValue ==
  ASSUME NEW a \in Magnitudes, NEW b \in Magnitudes, NEW n \in 0..Len(a)
  PROVE  Value(Rows(a, b)[n]) = Lowest(a)[n] * Value(b)
<1>1. /\ a \in Seq(Int) /\ b \in Seq(Int) /\ a \in Seq(Digits)
      /\ Len(a) \in Nat \ {0} /\ Len(b) \in Nat \ {0}
  BY MagnitudeType
<1>2. PICK L \in Nat : L = Len(a) + Len(b)
  BY <1>1
<1>3. PICK vb \in Nat, wb \in Nat : vb = Value(b) /\ wb = Weight[Len(b)] /\ vb < wb
  <2>1. Len(b) >= Significant(b) /\ Len(b) \in Nat
    BY <1>1, SignificantIsShort
  <2>2. Value(b) \in Nat /\ Value(b) < Weight[Len(b)]
    BY <2>1, ValueBelow
  <2>3. Weight[Len(b)] \in Nat
    BY <2>1, WeightType
  <2>. QED  BY <2>2, <2>3
<1>4. \A i \in Nat : Rows(a, b)[i] \in AllOf(L)
  BY <1>2, RowsRule
<1> DEFINE T == {k \in Nat : k <= Len(a) => Value(Rows(a, b)[k]) = Lowest(a)[k] * vb}
<1>5. 0 \in T
  <2>1. Rows(a, b)[0] = Zeros(L)
    BY <1>2, RowsRule
  <2>2. Lowest(a)[0] = 0
    BY <1>1, LowestRule
  <2>. QED  BY <2>1, <2>2, ZerosAreNothing
<1>6. ASSUME NEW k \in Nat, k \in T PROVE k + 1 \in T
  <2>. SUFFICES ASSUME k + 1 <= Len(a)
       PROVE  Value(Rows(a, b)[k + 1]) = Lowest(a)[k + 1] * vb
    OBVIOUS
  <2>1. PICK out \in Seq(Digits) : out = Rows(a, b)[k] /\ Len(out) = L
    BY <1>4 DEF AllOf
  <2>2. PICK d \in Int : d = Digit(a, k + 1)
    <3>1. k + 1 \in Int
      OBVIOUS
    <3>. QED  BY <1>1, <3>1, DigitType
  <2>3. out \in AllOf(L)
    BY <2>1 DEF AllOf
  <2>4. PICK x \in Seq(Int) : x = Row(out, k + 1, d, b) /\ Len(x) = L
                             /\ AddRow(out, k + 1, d, b) = Carried(x)
    <3>1. k + 1 \in Int
      OBVIOUS
    <3>. QED  BY <1>1, <2>3, <3>1, AddRowType
  <2>5. k + Len(b) <= L
    BY <1>1, <1>2
  <2>8. Value(x) = Value(out) + d * (Weight[k] * vb)
    <3>1. Value(Row(out, k + 1, d, b)) = Value(out) + d * (Weight[k] * Value(b))
      BY <1>1, <2>3, <2>5, RowSum
    <3>. QED  BY <1>3, <2>4, <3>1
  <2>9. PICK w \in Int, ak \in Int : w = Weight[k] /\ ak = Lowest(a)[k]
    <3>1. Weight[k] \in Int
      BY WeightType
    <3>2. Lowest(a)[k] \in Int
      BY <1>1, LowestType
    <3>. QED  BY <3>1, <3>2
  <2>10. Value(out) = ak * vb
    BY <1>6, <2>1, <2>9
  <2>11. Value(x) = ak * vb + d * (w * vb)
    BY <2>8, <2>9, <2>10
  <2>12. Lowest(a)[k + 1] = ak + d * w
    BY <1>1, <2>2, <2>9, LowestRule
  <2>13. (ak + d * w) * vb = ak * vb + d * (w * vb)
    OBVIOUS
  <2>14. Value(x) = Lowest(a)[k + 1] * vb
    BY <2>11, <2>12, <2>13
  <2>15. Lowest(a)[k + 1] \in Nat /\ Lowest(a)[k + 1] < Weight[k + 1] /\ Weight[k + 1] \in Nat
    <3>1. k + 1 \in Nat
      OBVIOUS
    <3>2. Lowest(a)[k + 1] \in 0..(Weight[k + 1] - 1)
      BY <1>1, <3>1, LowestBounds
    <3>3. Weight[k + 1] \in Nat
      BY <3>1, WeightType
    <3>. QED  BY <3>2, <3>3
  <2>16. 0 <= Value(x) /\ Value(x) < Weight[k + 1] * wb
    <3>1. PICK u \in Nat, v \in Nat : u = Lowest(a)[k + 1] /\ v = Weight[k + 1] /\ u < v
      BY <2>15
    <3>2. 0 <= u * vb /\ u * vb < v * wb
      BY <1>3, <3>1, ProductBelow
    <3>. QED  BY <2>14, <3>1, <3>2
  <2>17. Weight[k + 1] * wb = Weight[(k + 1) + Len(b)] /\ Weight[(k + 1) + Len(b)] <= Weight[L]
    <3>1. k + 1 \in Nat /\ Len(b) \in Nat /\ (k + 1) + Len(b) \in Nat /\ (k + 1) + Len(b) <= L
      BY <1>1, <1>2
    <3>2. Weight[(k + 1) + Len(b)] = Weight[k + 1] * Weight[Len(b)]
      BY <3>1, WeightSum
    <3>3. Weight[(k + 1) + Len(b)] <= Weight[L]
      BY <3>1, WeightGrows
    <3>. QED  BY <1>3, <3>2, <3>3
  <2>18. Value(x) < Weight[L]
    <3>1. Weight[k + 1] * wb \in Int
      BY <1>3, <2>15
    <3>2. Weight[L] \in Int
      BY WeightType
    <3>3. Value(x) \in Int
      BY <2>4, ValueType
    <3>. QED  BY <2>16, <2>17, <3>1, <3>2, <3>3
  <2>19. Value(Carried(x)) = Value(x)
    BY <2>4, <2>16, <2>18, CarriedExact
  <2>20. Rows(a, b)[k + 1] = Carried(x)
    BY <2>1, <2>2, <2>4, RowsRule
  <2>. QED  BY <2>14, <2>19, <2>20
<1> HIDE DEF T
<1>7. n \in Nat /\ n <= Len(a)
  BY <1>1
<1>8. n \in T
  BY <1>5, <1>6, <1>7, FromZeroUp
<1>. QED  BY <1>3, <1>7, <1>8 DEF T

\* Multiplying magnitudes multiplies their values.
LEMMA MagMulRule ==
  ASSUME NEW a \in Magnitudes, NEW b \in Magnitudes
  PROVE  IF Len(a) + Len(b) > MaxDigits THEN MagMul(a, b) = Refused
         ELSE /\ Trimmed(MagMul(a, b))
              /\ Len(MagMul(a, b)) <= Len(a) + Len(b)
              /\ Len(MagMul(a, b)) <= MaxDigits
              /\ Value(MagMul(a, b)) = Value(a) * Value(b)
<1>1. CASE Len(a) + Len(b) > MaxDigits
  BY <1>1 DEF MagMul
<1>2. CASE ~(Len(a) + Len(b) > MaxDigits)
  <2>1. Len(a) \in Nat \ {0} /\ Len(b) \in Nat \ {0} /\ Len(a) \in 0..Len(a)
    BY MagnitudeType
  <2>2. PICK m : m = Rows(a, b)[Len(a)]
    OBVIOUS
  <2>3. Value(m) = Value(a) * Value(b)
    BY <2>1, <2>2, RowsValue DEF Value
  <2>4. m \in Seq(Digits) /\ Len(m) = Len(a) + Len(b)
    <3>1. m \in AllOf(Len(a) + Len(b))
      BY <2>1, <2>2, RowsRule
    <3>. QED  BY <3>1 DEF AllOf
  <2>5. m \in Magnitudes
    BY <2>1, <2>4 DEF Magnitudes
  <2>6. MagMul(a, b) = Trim(m)
    BY <1>2, <2>2 DEF MagMul
  <2>7. Len(Trim(m)) \in Nat /\ Len(Trim(m)) <= Len(m)
    BY <2>5, TrimRule, MagnitudeType
  <2>8. Len(Trim(m)) <= MaxDigits
    BY <1>2, <2>1, <2>4, <2>7, WidthAssumption
  <2>. QED  BY <1>2, <2>3, <2>4, <2>5, <2>6, <2>8, TrimRule DEF Trimmed
<1>. QED  BY <1>1, <1>2

-----------------------------------------------------------------------------
(***************************************************************************)
(* Division of magnitudes.                                                 *)
(***************************************************************************)

\* A digit brought down goes below the others.
LEMMA PrependType ==
  ASSUME NEW S, NEW d \in S, NEW m \in Seq(S)
  PROVE  /\ <<d>> \o m \in Seq(S)
         /\ Len(<<d>> \o m) = Len(m) + 1
         /\ (<<d>> \o m)[1] = d
         /\ \A i \in 1..Len(m) : (<<d>> \o m)[i + 1] = m[i]
  OBVIOUS

\* A digit put below a number makes it Base times as much, and the digit more.
LEMMA PrependValue ==
  ASSUME NEW d \in Int, NEW m \in Seq(Int)
  PROVE  Value(<<d>> \o m) = d + Base * Value(m)
<1>1. PICK x \in Seq(Int) : /\ x = <<d>> \o m /\ Len(x) = Len(m) + 1 /\ x[1] = d
                            /\ \A i \in 1..Len(m) : x[i + 1] = m[i]
  <2>1. /\ <<d>> \o m \in Seq(Int)
        /\ Len(<<d>> \o m) = Len(m) + 1
        /\ (<<d>> \o m)[1] = d
        /\ \A i \in 1..Len(m) : (<<d>> \o m)[i + 1] = m[i]
    <3>1. PICK S : S = Int
      OBVIOUS
    <3>2. d \in S /\ m \in Seq(S)
      BY <3>1
    <3>. QED  BY <3>1, <3>2, PrependType
  <2>. QED  BY <2>1
<1>2. Len(m) \in Nat /\ Base \in Int
  BY BaseAssumption
<1> DEFINE T == {n \in Nat : n <= Len(m) => Lowest(x)[n + 1] = d + Base * Lowest(m)[n]}
<1>3. 0 \in T
  <2>1. Lowest(x)[0 + 1] = Lowest(x)[0] + Digit(x, 0 + 1) * Weight[0]
    BY LowestRule
  <2>2. Digit(x, 0 + 1) = d
    BY <1>1, <1>2 DEF Digit
  <2>3. Lowest(x)[0] = 0 /\ Lowest(m)[0] = 0 /\ Weight[0] = 1
    BY LowestRule, WeightRule
  <2>. QED  BY <1>2, <2>1, <2>2, <2>3
<1>4. ASSUME NEW n \in Nat, n \in T PROVE n + 1 \in T
  <2>. SUFFICES ASSUME n + 1 <= Len(m)
       PROVE  Lowest(x)[(n + 1) + 1] = d + Base * Lowest(m)[n + 1]
    OBVIOUS
  <2>1. n + 1 \in Nat /\ n + 1 \in 1..Len(m) /\ (n + 1) + 1 \in 1..Len(x)
    BY <1>1, <1>2
  <2>2. Lowest(x)[n + 1] = d + Base * Lowest(m)[n]
    BY <1>2, <1>4
  <2>3. PICK g \in Int : g = m[n + 1] /\ Digit(m, n + 1) = g /\ Digit(x, (n + 1) + 1) = g
    BY <1>1, <2>1 DEF Digit
  <2>4. PICK w \in Int : w = Weight[n] /\ Weight[n + 1] = Base * w
    BY WeightType, WeightRule
  <2>5. Lowest(m)[n + 1] = Lowest(m)[n] + g * w
    BY <2>3, <2>4, LowestRule
  <2>6. Lowest(x)[(n + 1) + 1] = Lowest(x)[n + 1] + g * (Base * w)
    <3>1. Lowest(x)[(n + 1) + 1] = Lowest(x)[n + 1] + Digit(x, (n + 1) + 1) * Weight[n + 1]
      BY <2>1, LowestRule
    <3>. QED  BY <2>3, <2>4, <3>1
  <2>7. PICK v \in Int : v = Lowest(m)[n]
    BY LowestType
  <2>8. (d + Base * v) + g * (Base * w) = d + Base * (v + g * w)
    <3>1. Base * (v + g * w) = Base * v + g * (Base * w)
      BY <1>2
    <3>2. Base * v \in Int /\ g * (Base * w) \in Int
      BY <1>2
    <3>. QED  BY <3>1, <3>2
  <2>. QED  BY <2>2, <2>5, <2>6, <2>7, <2>8
<1> HIDE DEF T
<1>5. Len(m) \in T
  BY <1>2, <1>3, <1>4, FromZeroUp
<1>. QED  BY <1>1, <1>2, <1>5 DEF T, Value

\* What is left of a dividend, and how often the divisor went into it.
Partials == [remainder : {m \in Magnitudes : Trim(m) = m}, digit : Nat]

\* One subtraction, if the divisor still goes.
LEMMA SubtractOnceType ==
  ASSUME NEW s \in Partials, NEW b \in Magnitudes
  PROVE  /\ SubtractOnce(s, b) \in Partials
         /\ IF Value(s.remainder) < Value(b) THEN SubtractOnce(s, b) = s
            ELSE /\ SubtractOnce(s, b).digit = s.digit + 1
                 /\ Value(SubtractOnce(s, b).remainder) = Value(s.remainder) - Value(b)
<1>1. s.remainder \in Magnitudes /\ s.digit \in Nat
  BY DEF Partials
<1>2. /\ MagCmp(s.remainder, b) = IF Value(s.remainder) < Value(b) THEN -1
                                  ELSE IF Value(s.remainder) > Value(b) THEN 1 ELSE 0
      /\ Value(s.remainder) \in Int /\ Value(b) \in Int
  BY <1>1, MagCmpRule
<1>3. CASE Value(s.remainder) < Value(b)
  BY <1>2, <1>3 DEF SubtractOnce
<1>4. CASE ~(Value(s.remainder) < Value(b))
  <2>1. SubtractOnce(s, b) = [remainder |-> MagSub(s.remainder, b), digit |-> s.digit + 1]
    BY <1>2, <1>4 DEF SubtractOnce
  <2>2. /\ Trimmed(MagSub(s.remainder, b))
        /\ Value(MagSub(s.remainder, b)) = Value(s.remainder) - Value(b)
    BY <1>1, <1>4, MagSubRule
  <2>. QED  BY <1>1, <1>4, <2>1, <2>2 DEF Partials, Trimmed
<1>. QED  BY <1>3, <1>4

\* The trial subtractions, one by one.
LEMMA SubtractionsRule ==
  ASSUME NEW a \in Magnitudes, NEW b \in Magnitudes, Trim(a) = a
  PROVE  /\ Subtractions(a, b) \in [Nat -> Partials]
         /\ Subtractions(a, b)[0] = [remainder |-> a, digit |-> 0]
         /\ \A n \in Nat : Subtractions(a, b)[n + 1] = SubtractOnce(Subtractions(a, b)[n], b)
<1> DEFINE first == [remainder |-> a, digit |-> 0]
           step == [n \in Nat \ {0} |-> [s \in Partials |-> SubtractOnce(s, b)]]
           Obeys(f) == f = [n \in Nat |-> IF n = 0 THEN first ELSE SubtractOnce(f[n - 1], b)]
<1>1. first \in Partials
  BY DEF Partials
<1>2. \A s \in Partials : SubtractOnce(s, b) \in Partials
  BY SubtractOnceType
<1>3. step \in Steps(Partials)
  BY <1>2, Zenon DEF Steps
<1>4. \A n \in Nat, s \in Partials : step[n + 1][s] = SubtractOnce(s, b)
  OBVIOUS
<1> HIDE DEF step
<1>5. PICK f : Runs(f, Partials, first, step)
  BY <1>1, <1>3, Recursion, Zenon
<1>6. ASSUME NEW n \in Nat PROVE f[n] = IF n = 0 THEN first ELSE SubtractOnce(f[n - 1], b)
  <2>1. CASE n = 0
    BY <1>5, <2>1 DEF Runs
  <2>2. CASE n # 0
    <3>1. PICK k \in Nat : n = k + 1
      BY <2>2
    <3>2. f[k] \in Partials /\ f[k + 1] = step[k + 1][f[k]]
      BY <1>5 DEF Runs
    <3>3. f[k + 1] = SubtractOnce(f[k], b)
      BY <1>4, <3>2
    <3>4. n # 0 /\ n - 1 = k
      BY <3>1
    <3>. QED  BY <3>1, <3>3, <3>4
  <2>. QED  BY <2>1, <2>2
<1>7. Obeys(f)
  BY <1>5, <1>6 DEF Runs
<1>8. Obeys(Subtractions(a, b))
  <2> HIDE DEF Obeys
  <2>1. Obeys(CHOOSE g : Obeys(g))
    BY <1>7, Zenon
  <2>. QED  BY <2>1 DEF Subtractions, Obeys
<1>9. PICK p : p = Subtractions(a, b)
  OBVIOUS
<1> HIDE DEF first
<1>10. p = [n \in Nat |-> p[n]] /\ p[0] = first
  BY <1>8, <1>9
<1>11. ASSUME NEW n \in Nat PROVE p[n + 1] = SubtractOnce(p[n], b)
  <2>1. n + 1 \in Nat /\ n + 1 # 0 /\ (n + 1) - 1 = n
    OBVIOUS
  <2>2. \A k \in Nat : p[k] = IF k = 0 THEN first ELSE SubtractOnce(p[k - 1], b)
    BY <1>8, <1>9
  <2>3. p[n + 1] = IF n + 1 = 0 THEN first ELSE SubtractOnce(p[(n + 1) - 1], b)
    BY <2>1, <2>2
  <2>. QED  BY <2>1, <2>3
<1>12. \A n \in Nat : p[n] \in Partials
  <2> DEFINE T == {n \in Nat : p[n] \in Partials}
  <2>1. 0 \in T
    BY <1>1, <1>10
  <2>2. ASSUME NEW n \in Nat, n \in T PROVE n + 1 \in T
    <3>1. p[n] \in Partials /\ n + 1 \in Nat
      BY <2>2
    <3>2. p[n + 1] \in Partials
      BY <1>2, <1>11, <3>1
    <3>. QED  BY <3>1, <3>2
  <2> HIDE DEF T
  <2>3. \A n \in Nat : n \in T
    BY <2>1, <2>2, FromZeroUp
  <2>. QED  BY <2>3 DEF T
<1>. QED  BY <1>9, <1>10, <1>11, <1>12 DEF first

\* Base turns are enough to take the divisor out of a number below Base times it.
LEMMA SubtractionsValue ==
  ASSUME NEW a \in Magnitudes, NEW b \in Magnitudes, Trim(a) = a, Value(a) < Base * Value(b)
  PROVE  LET s == Subtractions(a, b)[Base]
         IN /\ s \in Partials
            /\ s.digit \in Digits
            /\ Value(s.remainder) < Value(b)
            /\ Value(a) = s.digit * Value(b) + Value(s.remainder)
<1>1. PICK va \in Nat, vb \in Nat : va = Value(a) /\ vb = Value(b) /\ va < Base * vb
  <2>1. Value(a) \in Nat
    BY MagCmpRule, ZeroValue
  <2>2. Value(b) \in Nat
    BY MagCmpRule, ZeroValue
  <2>. QED  BY <2>1, <2>2
<1>2. Base \in Nat /\ Base > 1
  BY BaseAssumption
<1>3. PICK f : f = Subtractions(a, b)
  OBVIOUS
<1>4. /\ \A n \in Nat : f[n] \in Partials /\ f[n + 1] = SubtractOnce(f[n], b)
      /\ f[0] = [remainder |-> a, digit |-> 0]
  BY <1>3, SubtractionsRule
<1> DEFINE T == {n \in Nat : /\ va = f[n].digit * vb + Value(f[n].remainder)
                             /\ Value(f[n].remainder) < vb \/ f[n].digit = n}
<1>5. 0 \in T
  BY <1>1, <1>4
<1>6. ASSUME NEW n \in Nat, n \in T PROVE n + 1 \in T
  <2>1. PICK s \in Partials : s = f[n]
    BY <1>4
  <2>2. s.digit \in Nat /\ s.remainder \in Magnitudes
    BY DEF Partials
  <2>3. PICK d \in Nat, r \in Int : d = s.digit /\ r = Value(s.remainder)
    BY <2>2, MagnitudeType, ValueType
  <2>4. va = d * vb + r /\ (r < vb \/ d = n)
    BY <1>6, <2>1, <2>3
  <2>5. IF r < vb THEN f[n + 1] = s
        ELSE f[n + 1].digit = d + 1 /\ Value(f[n + 1].remainder) = r - vb
    BY <1>1, <1>4, <2>1, <2>3, SubtractOnceType
  <2>6. CASE r < vb
    <3>1. f[n + 1].digit = d /\ Value(f[n + 1].remainder) = r
      BY <2>3, <2>5, <2>6
    <3>. QED  BY <2>4, <2>6, <3>1
  <2>7. CASE ~(r < vb)
    <3>1. f[n + 1].digit = d + 1 /\ Value(f[n + 1].remainder) = r - vb
      BY <2>5, <2>7
    <3>2. (d + 1) * vb = d * vb + vb
      OBVIOUS
    <3>3. PICK t \in Int : t = d * vb
      OBVIOUS
    <3>4. va = (t + vb) + (r - vb) /\ d = n
      BY <2>4, <2>7, <3>3
    <3>. QED  BY <3>1, <3>2, <3>3, <3>4
  <2>. QED  BY <2>6, <2>7
<1> HIDE DEF T
<1>7. Base \in T
  BY <1>2, <1>5, <1>6, FromZeroUp
<1>8. PICK s \in Partials : s = f[Base]
  BY <1>2, <1>4
<1>9. PICK d \in Nat, r \in Nat : d = s.digit /\ r = Value(s.remainder)
  <2>1. s.digit \in Nat /\ s.remainder \in Magnitudes
    BY DEF Partials
  <2>2. Value(s.remainder) \in Int
    BY <2>1, MagnitudeType, ValueType
  <2>3. 0 <= Value(s.remainder)
    BY <2>1, ZeroValue
  <2>. QED  BY <2>1, <2>2, <2>3
<1>10. va = d * vb + r /\ (r < vb \/ d = Base)
  BY <1>7, <1>8, <1>9 DEF T
<1>11. d < Base
  <2>1. ASSUME d >= Base PROVE FALSE
    <3>1. Base * vb <= d * vb
      BY <1>2, <2>1, ProductOrder
    <3>2. PICK t \in Int, u \in Int : t = d * vb /\ u = Base * vb
      BY <1>2
    <3>. QED  BY <1>1, <1>10, <3>1, <3>2
  <2>. QED  BY <1>2, <2>1
<1>12. d \in Digits /\ r < vb
  BY <1>2, <1>10, <1>11 DEF Digits
<1>. QED  BY <1>1, <1>3, <1>8, <1>9, <1>10, <1>12

\* What a division has so far: digits of the quotient, a remainder below the divisor.
Divisions(b) ==
  [quotient : Seq(Digits), remainder : {m \in Magnitudes : Trim(m) = m /\ Value(m) < Value(b)}]

\* One step of the division: a digit brought down, a digit of the quotient.
LEMMA BringDownRule ==
  ASSUME NEW b \in Magnitudes, NEW s \in Divisions(b), NEW d \in Digits
  PROVE  LET t == BringDown(s, d, b)
         IN /\ t \in Divisions(b)
            /\ Len(t.quotient) = Len(s.quotient) + 1
            /\ Value(t.quotient) * Value(b) + Value(t.remainder)
                 = Base * (Value(s.quotient) * Value(b) + Value(s.remainder)) + d
<1>1. PICK q, r : /\ q = s.quotient /\ r = s.remainder /\ q \in Seq(Digits)
                  /\ r \in Magnitudes /\ Trim(r) = r /\ Value(r) < Value(b)
  BY DEF Divisions
<1>2. q \in Seq(Int) /\ r \in Seq(Int) /\ r \in Seq(Digits) /\ d \in Int /\ Base \in Int
  BY <1>1, MagnitudeType, DigitsAreInt, BaseAssumption DEF Digits
<1>3. PICK vq \in Int, vr \in Int, vb \in Int : vq = Value(q) /\ vr = Value(r) /\ vb = Value(b)
  <2>1. Value(q) \in Int /\ Value(r) \in Int
    BY <1>2, ValueType
  <2>2. Value(b) \in Int
    BY MagnitudeType, ValueType
  <2>. QED  BY <2>1, <2>2
<1>4. PICK m : m = <<d>> \o r
  OBVIOUS
<1>5. m \in Magnitudes /\ Value(m) = d + Base * vr
  <2>1. PICK S : S = Digits
    OBVIOUS
  <2>2. d \in S /\ r \in Seq(S)
    BY <1>2, <2>1
  <2>3. <<d>> \o r \in Seq(S) /\ Len(<<d>> \o r) = Len(r) + 1
    BY <2>2, PrependType
  <2>4. m \in Magnitudes
    <3>1. m \in Seq(Digits) /\ Len(m) = Len(r) + 1
      BY <1>4, <2>1, <2>3
    <3>2. Len(r) \in Nat
      BY <1>1
    <3>. QED  BY <3>1, <3>2 DEF Magnitudes
  <2>5. Value(m) = d + Base * vr
    BY <1>2, <1>3, <1>4, PrependValue
  <2>. QED  BY <2>4, <2>5
<1>6. Trim(m) \in Magnitudes /\ Trim(Trim(m)) = Trim(m) /\ Value(Trim(m)) = d + Base * vr
  BY <1>5, TrimRule
<1>7. d + Base * vr < Base * vb
  <2>1. PICK e \in Nat : vb = vr + 1 + e
    <3>1. vb - (vr + 1) \in Nat /\ vb = vr + 1 + (vb - (vr + 1))
      BY <1>1, <1>3
    <3>. QED  BY <3>1
  <2>2. Base * vb = Base * vr + Base + Base * e
    BY <1>2, <2>1
  <2>3. Base * e \in Nat /\ Base * vr \in Int /\ d < Base
    BY <1>2, BaseAssumption DEF Digits
  <2>4. PICK t1 \in Int, t2 \in Nat, t3 \in Int : t1 = Base * vr /\ t2 = Base * e /\ t3 = Base * vb
    BY <1>2, <2>3
  <2>5. t3 = t1 + Base + t2
    BY <2>2, <2>4
  <2>6. d + t1 < t3
    BY <1>2, <2>3, <2>4, <2>5
  <2>. QED  BY <2>4, <2>6
<1>8. PICK g : g = Subtractions(Trim(m), b)[Base]
  OBVIOUS
<1>9. /\ g \in Partials /\ g.digit \in Digits
      /\ Value(g.remainder) < vb
      /\ d + Base * vr = g.digit * vb + Value(g.remainder)
  BY <1>3, <1>6, <1>7, <1>8, SubtractionsValue
<1>10. PICK e \in Int, r2 \in Magnitudes : e = g.digit /\ r2 = g.remainder /\ e \in Digits
                            /\ r2 \in Magnitudes /\ Trim(r2) = r2
  <2>1. g.digit \in Int
    BY <1>9, BaseAssumption DEF Digits
  <2>2. g.remainder \in Magnitudes /\ Trim(g.remainder) = g.remainder
    BY <1>9 DEF Partials
  <2>. QED  BY <1>9, <2>1, <2>2
<1>11. PICK t : t = BringDown(s, d, b)
  OBVIOUS
<1>12. t = [quotient |-> <<e>> \o q, remainder |-> r2]
  BY <1>1, <1>4, <1>8, <1>10, <1>11 DEF BringDown
<1>13. <<e>> \o q \in Seq(Digits) /\ Len(<<e>> \o q) = Len(q) + 1
  <2>1. PICK S : S = Digits
    OBVIOUS
  <2>2. e \in S /\ q \in Seq(S)
    BY <1>1, <1>10, <2>1
  <2>3. <<e>> \o q \in Seq(S) /\ Len(<<e>> \o q) = Len(q) + 1
    BY <2>2, PrependType
  <2>. QED  BY <2>1, <2>3
<1>14. Value(<<e>> \o q) = e + Base * vq
  BY <1>2, <1>3, PrependValue
<1>15. t \in Divisions(b)
  BY <1>3, <1>9, <1>10, <1>12, <1>13 DEF Divisions
<1>16. PICK v2 \in Int : v2 = Value(r2)
  BY <1>10, MagnitudeType, ValueType
<1>17. (e + Base * vq) * vb + v2 = Base * (vq * vb + vr) + d
  <2>1. (e + Base * vq) * vb = e * vb + Base * (vq * vb)
    BY <1>2
  <2>2. Base * (vq * vb + vr) = Base * (vq * vb) + Base * vr
    BY <1>2
  <2>3. d + Base * vr = e * vb + v2
    BY <1>9, <1>10, <1>16
  <2>4. PICK t1 \in Int, t2 \in Int, t3 \in Int :
          t1 = e * vb /\ t2 = Base * (vq * vb) /\ t3 = Base * vr
    BY <1>2
  <2>5. (t1 + t2) + v2 = (t2 + t3) + d
    BY <1>2, <2>3, <2>4
  <2>. QED  BY <2>1, <2>2, <2>4, <2>5
<1>. QED  BY <1>1, <1>3, <1>11, <1>12, <1>13, <1>14, <1>15, <1>16, <1>17

\* The division, digit by digit.
LEMMA LongDivisionRule ==
  ASSUME NEW a \in Magnitudes, NEW b \in Magnitudes, 0 < Value(b)
  PROVE  /\ LongDivision(a, b) \in [Nat -> Divisions(b)]
         /\ LongDivision(a, b)[0] = [quotient |-> <<>>, remainder |-> <<0>>]
         /\ \A n \in Nat : LongDivision(a, b)[n + 1]
                             = BringDown(LongDivision(a, b)[n], Digit(a, Len(a) - n), b)
<1>1. a \in Seq(Digits) /\ Len(a) \in Nat
  BY MagnitudeType
<1> DEFINE first == [quotient |-> <<>>, remainder |-> <<0>>]
           S == Divisions(b)
           step == [n \in Nat \ {0} |-> [s \in S |-> BringDown(s, Digit(a, Len(a) + 1 - n), b)]]
           Obeys(f) == f = [n \in Nat |-> IF n = 0 THEN first
                                          ELSE BringDown(f[n - 1], Digit(a, Len(a) + 1 - n), b)]
<1>2. first \in S
  <2>1. 0 \in Digits
    BY BaseAssumption DEF Digits
  <2>2. <<0>> \in Seq(Digits) /\ Len(<<0>>) = 1 /\ <<0>>[1] = 0
    BY <2>1
  <2>3. PICK z \in Magnitudes : z = <<0>> /\ Len(z) = 1 /\ z[1] = 0
    BY <2>2 DEF Magnitudes
  <2>4. Significant(z) = 1
    BY <2>3, SignificantRule
  <2>5. Trim(z) = z
    <3>1. Trim(z) = [i \in 1..1 |-> z[i]]
      BY <2>4 DEF Trim
    <3>2. z \in Seq(Int)
      BY MagnitudeType
    <3>3. z = [i \in 1..Len(z) |-> z[i]]
      BY <3>2
    <3>. QED  BY <2>3, <3>1, <3>3
  <2>6. Value(z) = 0
    <3>1. IsZeroMag(z)
      BY <2>3 DEF IsZeroMag
    <3>. QED  BY <3>1, ZeroValue
  <2>7. << >> \in Seq(Digits)
    OBVIOUS
  <2>. QED  BY <2>3, <2>5, <2>6, <2>7 DEF Divisions
<1>3. ASSUME NEW i \in Int PROVE Digit(a, i) \in Digits
  <2>1. Digit(a, i) \in 0..(Base - 1)
    BY <1>1, DigitOfDigits
  <2>. QED  BY <2>1 DEF Digits
<1>4. ASSUME NEW n \in Nat, NEW s \in S PROVE BringDown(s, Digit(a, Len(a) + 1 - n), b) \in S
  <2>1. Len(a) + 1 - n \in Int
    BY <1>1
  <2>2. PICK d \in Digits : d = Digit(a, Len(a) + 1 - n)
    BY <1>3, <2>1
  <2>3. BringDown(s, d, b) \in S
    BY BringDownRule
  <2>. QED  BY <2>2, <2>3
<1> HIDE DEF S, first
<1>5. step \in Steps(S)
  <2>1. \A n \in Nat \ {0}, s \in S : BringDown(s, Digit(a, Len(a) + 1 - n), b) \in S
    BY <1>4
  <2>. QED  BY <2>1, Zenon DEF Steps
<1>6. ASSUME NEW n \in Nat, NEW s \in S PROVE step[n + 1][s] = BringDown(s, Digit(a, Len(a) - n), b)
  <2>1. Len(a) + 1 - (n + 1) = Len(a) - n /\ n + 1 \in Nat \ {0}
    BY <1>1
  <2>2. step[n + 1][s] = BringDown(s, Digit(a, Len(a) + 1 - (n + 1)), b)
    BY <2>1
  <2>. QED  BY <2>1, <2>2
<1> HIDE DEF step
<1>7. PICK f : Runs(f, S, first, step)
  BY <1>2, <1>5, Recursion, Zenon
<1>8. ASSUME NEW n \in Nat
      PROVE  f[n] = IF n = 0 THEN first ELSE BringDown(f[n - 1], Digit(a, Len(a) + 1 - n), b)
  <2>1. CASE n = 0
    BY <1>7, <2>1 DEF Runs
  <2>2. CASE n # 0
    <3>1. PICK k \in Nat : n = k + 1
      BY <2>2
    <3>2. f[k] \in S /\ f[k + 1] = step[k + 1][f[k]]
      BY <1>7 DEF Runs
    <3>3. f[k + 1] = BringDown(f[k], Digit(a, Len(a) - k), b)
      BY <1>6, <3>2
    <3>4. n # 0 /\ n - 1 = k /\ Len(a) - k = Len(a) + 1 - n
      BY <1>1, <3>1
    <3>. QED  BY <3>1, <3>3, <3>4
  <2>. QED  BY <2>1, <2>2
<1>9. Obeys(f)
  BY <1>7, <1>8 DEF Runs
<1>10. Obeys(LongDivision(a, b))
  <2> HIDE DEF Obeys
  <2>1. Obeys(CHOOSE g : Obeys(g))
    BY <1>9, Zenon
  <2>. QED  BY <2>1 DEF LongDivision, Obeys, first
<1>11. PICK p : p = LongDivision(a, b)
  OBVIOUS
<1>12. p = [n \in Nat |-> p[n]] /\ p[0] = first
  BY <1>10, <1>11
<1>13. ASSUME NEW n \in Nat PROVE p[n + 1] = BringDown(p[n], Digit(a, Len(a) - n), b)
  <2>1. n + 1 \in Nat /\ n + 1 # 0 /\ (n + 1) - 1 = n /\ Len(a) + 1 - (n + 1) = Len(a) - n
    BY <1>1
  <2>2. \A k \in Nat : p[k] = IF k = 0 THEN first
                              ELSE BringDown(p[k - 1], Digit(a, Len(a) + 1 - k), b)
    BY <1>10, <1>11
  <2>3. p[n + 1] = IF n + 1 = 0 THEN first
                   ELSE BringDown(p[(n + 1) - 1], Digit(a, Len(a) + 1 - (n + 1)), b)
    BY <2>1, <2>2
  <2>. QED  BY <2>1, <2>3
<1>14. \A n \in Nat : p[n] \in S
  <2> DEFINE T == {n \in Nat : p[n] \in S}
  <2>1. 0 \in T
    BY <1>2, <1>12
  <2>2. ASSUME NEW n \in Nat, n \in T PROVE n + 1 \in T
    <3>1. p[n] \in S /\ n + 1 \in Nat
      BY <2>2
    <3>2. Len(a) - n = Len(a) + 1 - (n + 1)
      BY <1>1
    <3>3. p[n + 1] \in S
      BY <1>4, <1>13, <3>1, <3>2
    <3>. QED  BY <3>1, <3>3
  <2> HIDE DEF T
  <2>3. \A n \in Nat : n \in T
    BY <2>1, <2>2, FromZeroUp
  <2>. QED  BY <2>3 DEF T
<1>. QED  BY <1>11, <1>12, <1>13, <1>14 DEF first, S

\* The digits brought down so far are quotient times divisor plus remainder; the
\* others are still to come.
LEMMA LongDivisionValue ==
  ASSUME NEW a \in Magnitudes, NEW b \in Magnitudes, 0 < Value(b), NEW n \in 0..Len(a)
  PROVE  LET s == LongDivision(a, b)[n]
         IN /\ s \in Divisions(b)
            /\ Len(s.quotient) = n
            /\ (Value(s.quotient) * Value(b) + Value(s.remainder)) * Weight[Len(a) - n]
                 + Lowest(a)[Len(a) - n] = Value(a)
<1>1. a \in Seq(Digits) /\ a \in Seq(Int) /\ Len(a) \in Nat
  BY MagnitudeType
<1>2. PICK f : f = LongDivision(a, b)
  OBVIOUS
<1>3. /\ f[0] = [quotient |-> <<>>, remainder |-> <<0>>]
      /\ \A k \in Nat : /\ f[k] \in Divisions(b)
                        /\ f[k + 1] = BringDown(f[k], Digit(a, Len(a) - k), b)
  BY <1>2, LongDivisionRule
<1>4. PICK vb \in Int : vb = Value(b)
  BY MagnitudeType, ValueType
<1>5. ASSUME NEW s \in Divisions(b)
      PROVE  /\ Value(s.quotient) \in Int /\ Value(s.remainder) \in Int
             /\ Len(s.quotient) \in Nat
  <2>1. s.quotient \in Seq(Digits) /\ s.remainder \in Magnitudes
    BY DEF Divisions
  <2>2. s.quotient \in Seq(Int)
    BY <2>1, DigitsAreInt
  <2>3. s.remainder \in Seq(Int)
    BY <2>1, MagnitudeType
  <2>. QED  BY <2>1, <2>2, <2>3, ValueType
<1> DEFINE Done(k) == Value(f[k].quotient) * vb + Value(f[k].remainder)
           T == {k \in Nat : k <= Len(a) =>
                    /\ Len(f[k].quotient) = k
                    /\ Done(k) * Weight[Len(a) - k] + Lowest(a)[Len(a) - k] = Value(a)}
<1>6. 0 \in T
  <2>1. Value(<<>>) = 0
    <3>1. << >> \in Seq(Int) /\ Len(<< >>) = 0
      OBVIOUS
    <3>2. Lowest(<< >>)[0] = 0
      BY <3>1, LowestRule
    <3>. QED  BY <3>1, <3>2 DEF Value
  <2>2. Value(<<0>>) = 0
    <3>1. <<0>> \in Seq(Int) /\ Len(<<0>>) = 1 /\ <<0>>[1] = 0
      OBVIOUS
    <3>2. PICK z \in Seq(Int) : z = <<0>> /\ Len(z) = 1 /\ z[1] = 0
      BY <3>1
    <3>3. Lowest(z)[0 + 1] = Lowest(z)[0] + Digit(z, 0 + 1) * Weight[0]
      BY LowestRule
    <3>4. Lowest(z)[0] = 0 /\ Digit(z, 0 + 1) = 0 /\ Weight[0] = 1
      <4>1. Digit(z, 0 + 1) = 0
        BY <3>2 DEF Digit
      <4>2. Lowest(z)[0] = 0
        BY LowestRule
      <4>. QED  BY <4>1, <4>2, WeightRule
    <3>5. Lowest(z)[0 + 1] = 0
      BY <3>3, <3>4
    <3>6. Value(z) = 0
      BY <3>2, <3>5 DEF Value
    <3>. QED  BY <3>2, <3>6
  <2>3. Done(0) = 0
    BY <1>3, <1>4, <2>1, <2>2
  <2>4. Weight[Len(a)] \in Int /\ Lowest(a)[Len(a)] = Value(a) /\ Value(a) \in Int
    BY <1>1, WeightType, ValueType DEF Value
  <2>5. Len(a) - 0 = Len(a)
    BY <1>1
  <2>6. Done(0) * Weight[Len(a)] + Lowest(a)[Len(a)] = Value(a)
    BY <2>3, <2>4
  <2>7. Len(f[0].quotient) = 0
    BY <1>3
  <2>. QED  BY <2>5, <2>6, <2>7
<1>7. ASSUME NEW k \in Nat, k \in T PROVE k + 1 \in T
  <2>. SUFFICES ASSUME k + 1 <= Len(a)
       PROVE  /\ Len(f[k + 1].quotient) = k + 1
              /\ Done(k + 1) * Weight[Len(a) - (k + 1)] + Lowest(a)[Len(a) - (k + 1)] = Value(a)
    OBVIOUS
  <2>1. PICK j \in Nat : j = Len(a) - (k + 1) /\ j + 1 = Len(a) - k
    <3>1. Len(a) - (k + 1) \in Nat /\ (Len(a) - (k + 1)) + 1 = Len(a) - k
      BY <1>1
    <3>. QED  BY <3>1
  <2>2. PICK s \in Divisions(b) : s = f[k]
    BY <1>3
  <2>3. PICK d \in Digits : d = Digit(a, j + 1)
    <3>1. j + 1 \in Int
      OBVIOUS
    <3>2. Digit(a, j + 1) \in 0..(Base - 1)
      BY <1>1, <3>1, DigitOfDigits
    <3>. QED  BY <3>2 DEF Digits
  <2>4. PICK t \in Divisions(b) : t = BringDown(s, d, b) /\ t = f[k + 1]
    <3>1. f[k + 1] = BringDown(f[k], Digit(a, Len(a) - k), b) /\ f[k + 1] \in Divisions(b)
      BY <1>3
    <3>. QED  BY <2>1, <2>2, <2>3, <3>1
  <2>5. PICK ds \in Int, dt \in Int : ds = Done(k) /\ dt = Done(k + 1)
    <3>1. /\ Value(s.quotient) \in Int /\ Value(s.remainder) \in Int
          /\ Value(t.quotient) \in Int /\ Value(t.remainder) \in Int
      BY <1>5
    <3>2. Done(k) \in Int
      BY <2>2, <3>1
    <3>3. Done(k + 1) \in Int
      BY <2>4, <3>1
    <3>. QED  BY <3>2, <3>3
  <2>6. Len(t.quotient) = Len(s.quotient) + 1 /\ dt = Base * ds + d
    <3>1. LET u == BringDown(s, d, b)
          IN /\ Len(u.quotient) = Len(s.quotient) + 1
             /\ Value(u.quotient) * Value(b) + Value(u.remainder)
                 = Base * (Value(s.quotient) * Value(b) + Value(s.remainder)) + d
      BY BringDownRule
    <3>. QED  BY <1>4, <2>2, <2>4, <2>5, <3>1
  <2>7. Len(s.quotient) = k /\ ds * Weight[j + 1] + Lowest(a)[j + 1] = Value(a)
    <3>1. k <= Len(a)
      BY <1>1
    <3>. QED  BY <1>7, <2>1, <2>2, <2>5, <3>1
  <2>8. PICK w \in Int, l \in Int, c \in Int, e \in Int :
          /\ w = Weight[j] /\ l = Lowest(a)[j] /\ c = Base /\ e = d
    <3>1. Weight[j] \in Int /\ Lowest(a)[j] \in Int
      BY <1>1, WeightType, LowestType
    <3>2. Base \in Int /\ d \in Int
      BY BaseAssumption DEF Digits
    <3>. QED  BY <3>1, <3>2
  <2>9. Weight[j + 1] = c * w /\ Lowest(a)[j + 1] = l + e * w
    <3>1. Weight[j + 1] = Base * Weight[j]
      BY WeightRule
    <3>2. Lowest(a)[j + 1] = Lowest(a)[j] + Digit(a, j + 1) * Weight[j]
      BY <1>1, LowestRule
    <3>. QED  BY <2>3, <2>8, <3>1, <3>2
  <2>10. (c * ds + e) * w + l = ds * (c * w) + (l + e * w)
    <3>1. (c * ds + e) * w = ds * (c * w) + e * w
      OBVIOUS
    <3>2. PICK t1 \in Int, t2 \in Int : t1 = ds * (c * w) /\ t2 = e * w
      OBVIOUS
    <3>3. (t1 + t2) + l = t1 + (l + t2)
      OBVIOUS
    <3>. QED  BY <3>1, <3>2, <3>3
  <2>11. dt * w + l = Value(a)
    BY <2>6, <2>7, <2>8, <2>9, <2>10
  <2>12. Len(f[k + 1].quotient) = k + 1
    BY <2>4, <2>6, <2>7
  <2> HIDE DEF Done
  <2>. QED  BY <2>1, <2>5, <2>8, <2>11, <2>12
<1> HIDE DEF T
<1>8. n \in Nat /\ n <= Len(a)
  BY <1>1
<1>9. n \in T
  BY <1>6, <1>7, <1>8, FromZeroUp
<1>. QED  BY <1>2, <1>3, <1>4, <1>8, <1>9 DEF T

\* Long division divides: the remainder is below the divisor, which is not zero.
LEMMA MagDivRemRule ==
  ASSUME NEW a \in Magnitudes, NEW b \in Magnitudes, 0 < Value(b)
  PROVE  LET s == MagDivRem(a, b)
         IN /\ Trimmed(s.quotient) /\ Trimmed(s.remainder)
            /\ Len(s.quotient) <= Len(a) /\ Len(s.remainder) <= Len(b)
            /\ Value(s.quotient) \in Nat /\ Value(s.remainder) \in Nat
            /\ Value(s.remainder) < Value(b)
            /\ Value(a) = Value(s.quotient) * Value(b) + Value(s.remainder)
<1>1. a \in Seq(Int) /\ Len(a) \in Nat \ {0} /\ Len(a) \in 0..Len(a) /\ Len(a) - Len(a) = 0
  BY MagnitudeType
<1>2. PICK s : s = LongDivision(a, b)[Len(a)]
  OBVIOUS
<1>3. /\ s \in Divisions(b) /\ Len(s.quotient) = Len(a)
      /\ (Value(s.quotient) * Value(b) + Value(s.remainder)) * Weight[0] + Lowest(a)[0] = Value(a)
  BY <1>1, <1>2, LongDivisionValue
<1>4. PICK q, r : /\ q = s.quotient /\ r = s.remainder
                  /\ q \in Magnitudes /\ Len(q) = Len(a)
                  /\ r \in Magnitudes /\ Trim(r) = r /\ Value(r) < Value(b)
  <2>1. s.quotient \in Magnitudes
    BY <1>1, <1>3 DEF Divisions, Magnitudes
  <2>. QED  BY <1>3, <2>1 DEF Divisions
<1>5. PICK vq \in Nat, vr \in Nat, vb \in Int : vq = Value(q) /\ vr = Value(r) /\ vb = Value(b)
  <2>1. Value(q) \in Int /\ Value(r) \in Int /\ Value(b) \in Int
    BY <1>4, MagCmpRule
  <2>2. 0 <= Value(q) /\ 0 <= Value(r)
    BY <1>4, ZeroValue
  <2>. QED  BY <2>1, <2>2
<1>6. Value(a) = vq * vb + vr
  <2>1. (vq * vb + vr) * Weight[0] + Lowest(a)[0] = Value(a)
    BY <1>3, <1>4, <1>5
  <2>2. Weight[0] = 1 /\ Lowest(a)[0] = 0
    BY <1>1, LowestRule, WeightRule
  <2>3. PICK t \in Int : t = vq * vb + vr
    OBVIOUS
  <2>. QED  BY <2>1, <2>2, <2>3
<1>7. MagDivRem(a, b) = [quotient |-> Trim(q), remainder |-> Trim(r)]
  BY <1>2, <1>4 DEF MagDivRem
<1>8. /\ Trim(q) \in Magnitudes /\ Trim(Trim(q)) = Trim(q) /\ Len(Trim(q)) <= Len(q)
      /\ Value(Trim(q)) = vq
  BY <1>4, <1>5, TrimRule
<1>9. Len(Trim(r)) <= Len(b)
  <2>1. Len(Trim(r)) = Significant(r)
    BY <1>4, TrimRule
  <2>2. ~(Significant(b) < Significant(r))
    <3>1. ~(Value(b) < Value(r))
      BY <1>4, <1>5
    <3>. QED  BY <1>4, <3>1, LongerIsMore
  <2>3. Significant(b) \in Nat /\ Significant(b) <= Len(b) /\ Significant(r) \in Nat
    BY <1>4, SignificantIsShort
  <2>4. Len(b) \in Nat
    BY MagnitudeType
  <2>. QED  BY <2>1, <2>2, <2>3, <2>4
<1>. QED  BY <1>4, <1>5, <1>6, <1>7, <1>8, <1>9 DEF Trimmed

(***************************************************************************)
(* Signed integers.                                                        *)
(***************************************************************************)
\* An answer: the integer meant, in the one spelling it has.
Exact(r, v) ==
  /\ r \in Numbers /\ ~r.special /\ r.unit = NoUnit
  /\ OneSpelling(r)
  /\ Val(r) = v

-----------------------------------------------------------------------------
(***************************************************************************)
(* Signed numbers.                                                         *)
(***************************************************************************)

\* The parts of a number.
LEMMA NumberType ==
  ASSUME NEW x \in Numbers
  PROVE  /\ x # Refused
         /\ x.neg \in BOOLEAN /\ x.special \in BOOLEAN /\ x.unit \in Units
         /\ x.mag \in Magnitudes /\ Len(x.mag) \in Nat \ {0} /\ Len(x.mag) <= MaxDigits
         /\ Value(x.mag) \in Nat
         /\ Val(x) \in Int
         /\ IsZeroMag(x.mag) <=> Val(x) = 0
<1>1. /\ x.neg \in BOOLEAN /\ x.special \in BOOLEAN /\ x.unit \in Units
      /\ x.mag \in Magnitudes /\ Len(x.mag) <= MaxDigits
  BY DEF Numbers
<1>2. Len(x.mag) \in Nat \ {0}
  BY <1>1, MagnitudeType
<1>3. Value(x.mag) \in Int /\ 0 <= Value(x.mag) /\ (IsZeroMag(x.mag) <=> Value(x.mag) = 0)
  BY <1>1, MagCmpRule, ZeroValue
<1>4. Val(x) \in Int /\ (Value(x.mag) = 0 <=> Val(x) = 0)
  BY <1>3 DEF Val
<1>5. x # Refused
  BY RefusedAssumption
<1>. QED  BY <1>1, <1>2, <1>3, <1>4, <1>5

LEMMA NumberIsOne ==
  ASSUME NEW neg \in BOOLEAN, NEW mag \in Magnitudes, Len(mag) <= MaxDigits
  PROVE  /\ Number(neg, mag) \in Numbers
         /\ Number(neg, mag).neg = neg /\ Number(neg, mag).mag = mag
         /\ ~Number(neg, mag).special /\ Number(neg, mag).unit = NoUnit
  BY UnitAssumption DEF Number, Numbers

\* from_parts gives a result its one spelling.
LEMMA FromPartsRule ==
  ASSUME NEW mag, Trimmed(mag), Len(mag) <= MaxDigits, NEW neg \in BOOLEAN
  PROVE  Exact(FromParts(mag, neg), IF neg THEN -Value(mag) ELSE Value(mag))
<1>1. mag \in Magnitudes /\ Trim(mag) = mag
  BY DEF Trimmed
<1>2. mag # Refused
  BY <1>1, RefusedAssumption
<1>3. Value(mag) \in Int /\ (IsZeroMag(mag) <=> Value(mag) = 0)
  BY <1>1, MagCmpRule, ZeroValue
<1>4. PICK s \in BOOLEAN : s = (neg /\ ~IsZeroMag(mag))
  BY DEF IsZeroMag
<1>5. PICK r : r = Number(s, mag)
  OBVIOUS
<1>6. FromParts(mag, neg) = r
  BY <1>2, <1>4, <1>5 DEF FromParts
<1>7. r \in Numbers /\ r.neg = s /\ r.mag = mag /\ ~r.special /\ r.unit = NoUnit
  BY <1>1, <1>5, NumberIsOne
<1>8. OneSpelling(r)
  BY <1>1, <1>4, <1>7 DEF OneSpelling
<1>9. Val(r) = IF neg THEN -Value(mag) ELSE Value(mag)
  BY <1>3, <1>4, <1>7 DEF Val
<1>. QED  BY <1>6, <1>7, <1>8, <1>9 DEF Exact

\* The sign of a product or quotient.
Signed(neg, v) == IF neg THEN -v ELSE v

LEMMA SignedType ==
  ASSUME NEW neg \in BOOLEAN, NEW v \in Int
  PROVE  Signed(neg, v) \in Int
  BY DEF Signed

LEMMA FromPartsSigned ==
  ASSUME NEW mag, Trimmed(mag), Len(mag) <= MaxDigits, NEW neg \in BOOLEAN
  PROVE  Exact(FromParts(mag, neg), Signed(neg, Value(mag)))
  BY FromPartsRule DEF Signed

LEMMA RefusedParts ==
  ASSUME NEW neg
  PROVE  FromParts(Refused, neg) = Refused
  BY DEF FromParts

\* checked_add: two numbers of a sign add up, two of different signs are subtracted
\* the smaller from the larger.
LEMMA AddRule ==
  ASSUME NEW x \in Numbers, NEW y \in Numbers
  PROVE  IF x.special \/ y.special THEN Add(x, y) = Refused
         ELSE \/ Add(x, y) = Refused /\ MaxDigits \in {Len(x.mag), Len(y.mag)}
              \/ Exact(Add(x, y), Val(x) + Val(y))
<1>1. /\ x.neg \in BOOLEAN /\ x.mag \in Magnitudes /\ Len(x.mag) \in Nat /\ Len(x.mag) <= MaxDigits
      /\ y.neg \in BOOLEAN /\ y.mag \in Magnitudes /\ Len(y.mag) \in Nat /\ Len(y.mag) <= MaxDigits
      /\ MaxDigits \in Nat
  BY NumberType, WidthAssumption
<1>2. PICK a \in Nat, b \in Nat : a = Value(x.mag) /\ b = Value(y.mag)
  BY NumberType
<1>3. Val(x) = (IF x.neg THEN -a ELSE a) /\ Val(y) = (IF y.neg THEN -b ELSE b)
  BY <1>2 DEF Val
<1>4. CASE x.special \/ y.special
  BY <1>4 DEF Add, PlainBoth
<1>5. CASE ~(x.special \/ y.special) /\ x.neg = y.neg
  <2>1. Add(x, y) = FromParts(MagAdd(x.mag, y.mag), x.neg)
    BY <1>5 DEF Add, PlainBoth
  <2>2. CASE Len(x.mag) >= MaxDigits \/ Len(y.mag) >= MaxDigits
    <3>1. MagAdd(x.mag, y.mag) = Refused
      BY <1>1, <2>2, MagAddRule
    <3>2. Add(x, y) = Refused
      BY <2>1, <3>1, RefusedParts
    <3>3. MaxDigits \in {Len(x.mag), Len(y.mag)}
      BY <1>1, <2>2
    <3>. QED  BY <1>5, <3>2, <3>3
  <2>3. CASE ~(Len(x.mag) >= MaxDigits \/ Len(y.mag) >= MaxDigits)
    <3>1. PICK m : m = MagAdd(x.mag, y.mag) /\ Trimmed(m) /\ Len(m) <= MaxDigits /\ Value(m) = a + b
      BY <1>1, <1>2, <2>3, MagAddRule
    <3>2. Exact(FromParts(m, x.neg), IF x.neg THEN -Value(m) ELSE Value(m))
      BY <1>1, <3>1, FromPartsRule
    <3>3. (IF x.neg THEN -Value(m) ELSE Value(m)) = Val(x) + Val(y)
      BY <1>1, <1>3, <1>5, <3>1
    <3>. QED  BY <1>5, <2>1, <3>1, <3>2, <3>3
  <2>. QED  BY <2>2, <2>3
<1>6. CASE ~(x.special \/ y.special) /\ x.neg # y.neg /\ a < b
  <2>1. MagCmp(x.mag, y.mag) = -1
    BY <1>1, <1>2, <1>6, MagCmpRule
  <2>2. Add(x, y) = FromParts(MagSub(y.mag, x.mag), y.neg)
    BY <1>6, <2>1 DEF Add, PlainBoth
  <2>3. PICK m : m = MagSub(y.mag, x.mag) /\ Trimmed(m) /\ Len(m) <= Len(y.mag) /\ Value(m) = b - a
    <3>1. ~(b < a)
      BY <1>6
    <3>. QED  BY <1>1, <1>2, <3>1, MagSubRule
  <2>4. Len(m) <= MaxDigits
    <3>1. Len(m) \in Nat
      BY <2>3, MagnitudeType DEF Trimmed
    <3>. QED  BY <1>1, <2>3, <3>1
  <2>5. Exact(FromParts(m, y.neg), IF y.neg THEN -Value(m) ELSE Value(m))
    BY <1>1, <2>3, <2>4, FromPartsRule
  <2>6. (IF y.neg THEN -Value(m) ELSE Value(m)) = Val(x) + Val(y)
    BY <1>1, <1>3, <1>6, <2>3
  <2>. QED  BY <1>6, <2>2, <2>3, <2>5, <2>6
<1>7. CASE ~(x.special \/ y.special) /\ x.neg # y.neg /\ ~(a < b)
  <2>1. ~(MagCmp(x.mag, y.mag) < 0)
    BY <1>1, <1>2, <1>7, MagCmpRule
  <2>2. Add(x, y) = FromParts(MagSub(x.mag, y.mag), x.neg)
    BY <1>7, <2>1 DEF Add, PlainBoth
  <2>3. PICK m : m = MagSub(x.mag, y.mag) /\ Trimmed(m) /\ Len(m) <= Len(x.mag) /\ Value(m) = a - b
    BY <1>1, <1>2, <1>7, MagSubRule
  <2>4. Len(m) <= MaxDigits
    <3>1. Len(m) \in Nat
      BY <2>3, MagnitudeType DEF Trimmed
    <3>. QED  BY <1>1, <2>3, <3>1
  <2>5. Exact(FromParts(m, x.neg), IF x.neg THEN -Value(m) ELSE Value(m))
    BY <1>1, <2>3, <2>4, FromPartsRule
  <2>6. (IF x.neg THEN -Value(m) ELSE Value(m)) = Val(x) + Val(y)
    BY <1>1, <1>3, <1>7, <2>3
  <2>. QED  BY <1>7, <2>2, <2>3, <2>5, <2>6
<1>. QED  BY <1>4, <1>5, <1>6, <1>7

\* checked_sub: the right operand's sign turned, and added.
LEMMA SubRule ==
  ASSUME NEW x \in Numbers, NEW y \in Numbers
  PROVE  IF x.special \/ y.special THEN Sub(x, y) = Refused
         ELSE \/ Sub(x, y) = Refused /\ MaxDigits \in {Len(x.mag), Len(y.mag)}
              \/ Exact(Sub(x, y), Val(x) - Val(y))
<1>1. CASE x.special \/ y.special
  BY <1>1 DEF Sub, PlainBoth
<1>2. CASE ~(x.special \/ y.special)
  <2>1. PICK z : z = [y EXCEPT !.neg = ~@]
    OBVIOUS
  <2>2. /\ z \in Numbers /\ z.special = y.special /\ z.mag = y.mag
        /\ z.neg = ~y.neg
    BY <2>1 DEF Numbers
  <2>3. Sub(x, y) = Add(x, z)
    BY <1>2, <2>1 DEF Sub, PlainBoth
  <2>4. PICK b \in Nat : b = Value(y.mag)
    BY NumberType
  <2>5. Val(x) \in Int /\ Val(y) \in Int /\ Val(z) \in Int /\ Val(z) = -Val(y)
    BY <2>2, <2>4, NumberType DEF Val
  <2>6. Val(x) + Val(z) = Val(x) - Val(y)
    BY <2>5
  <2>7. ~(x.special \/ z.special)
    BY <1>2, <2>2
  <2>8. \/ Add(x, z) = Refused /\ MaxDigits \in {Len(x.mag), Len(z.mag)}
        \/ Exact(Add(x, z), Val(x) + Val(z))
    BY <2>2, <2>7, AddRule
  <2>. QED  BY <1>2, <2>2, <2>3, <2>6, <2>8
<1>. QED  BY <1>1, <1>2

\* The sign of a product is set where the signs differ.
LEMMA SignedProduct ==
  ASSUME NEW p \in BOOLEAN, NEW q \in BOOLEAN, NEW a \in Int, NEW b \in Int
  PROVE  Signed(p # q, a * b) = Signed(p, a) * Signed(q, b)
<1>1. /\ (-a) * b = -(a * b) /\ a * (-b) = -(a * b) /\ (-a) * (-b) = a * b
      /\ a * b \in Int
  OBVIOUS
<1>2. CASE p /\ q
  BY <1>1, <1>2 DEF Signed
<1>3. CASE p /\ ~q
  BY <1>1, <1>3 DEF Signed
<1>4. CASE ~p /\ q
  BY <1>1, <1>4 DEF Signed
<1>5. CASE ~p /\ ~q
  BY <1>1, <1>5 DEF Signed
<1>. QED  BY <1>2, <1>3, <1>4, <1>5

LEMMA ValSigned ==
  ASSUME NEW x \in Numbers
  PROVE  Val(x) = Signed(x.neg, Value(x.mag))
  BY DEF Val, Signed

\* checked_mul.
LEMMA MulRule ==
  ASSUME NEW x \in Numbers, NEW y \in Numbers
  PROVE  IF x.special \/ y.special THEN Mul(x, y) = Refused
         ELSE IF Len(x.mag) + Len(y.mag) > MaxDigits THEN Mul(x, y) = Refused
         ELSE Exact(Mul(x, y), Val(x) * Val(y)) /\ Len(Mul(x, y).mag) <= Len(x.mag) + Len(y.mag)
<1>1. /\ x.neg \in BOOLEAN /\ x.mag \in Magnitudes /\ Len(x.mag) \in Nat
      /\ y.neg \in BOOLEAN /\ y.mag \in Magnitudes /\ Len(y.mag) \in Nat
      /\ MaxDigits \in Nat
  BY NumberType, WidthAssumption
<1>2. PICK a \in Nat, b \in Nat : a = Value(x.mag) /\ b = Value(y.mag)
  BY NumberType
<1>3. PICK s \in BOOLEAN : s = (x.neg # y.neg)
  OBVIOUS
<1>4. CASE x.special \/ y.special
  BY <1>4 DEF Mul, PlainBoth
<1>5. CASE ~(x.special \/ y.special)
  <2>1. Mul(x, y) = FromParts(MagMul(x.mag, y.mag), s)
    BY <1>3, <1>5 DEF Mul, PlainBoth
  <2>2. CASE Len(x.mag) + Len(y.mag) > MaxDigits
    <3>1. MagMul(x.mag, y.mag) = Refused
      BY <1>1, <2>2, MagMulRule
    <3>. QED  BY <1>5, <2>1, <2>2, <3>1, RefusedParts
  <2>3. CASE ~(Len(x.mag) + Len(y.mag) > MaxDigits)
    <3>1. PICK m : /\ m = MagMul(x.mag, y.mag) /\ Trimmed(m)
                   /\ Len(m) <= Len(x.mag) + Len(y.mag) /\ Value(m) = a * b
      BY <1>1, <1>2, <2>3, MagMulRule
    <3>2. m \in Magnitudes /\ Len(m) \in Nat
      BY <3>1, MagnitudeType DEF Trimmed
    <3>3. Len(m) <= MaxDigits
      BY <1>1, <2>3, <3>1, MagMulRule
    <3>4. Exact(FromParts(m, s), IF s THEN -Value(m) ELSE Value(m))
      BY <3>1, <3>3, FromPartsRule
    <3>5. (IF s THEN -Value(m) ELSE Value(m)) = Val(x) * Val(y)
      <4>1. Signed(x.neg # y.neg, a * b) = Signed(x.neg, a) * Signed(y.neg, b)
        BY <1>1, SignedProduct
      <4>2. Val(x) = Signed(x.neg, a) /\ Val(y) = Signed(y.neg, b)
        BY <1>2, ValSigned
      <4>3. (IF s THEN -Value(m) ELSE Value(m)) = Signed(x.neg # y.neg, a * b)
        BY <1>3, <3>1 DEF Signed
      <4>. QED  BY <4>1, <4>2, <4>3
    <3>6. FromParts(m, s).mag = m
      <4>1. m # Refused
        BY <3>2, RefusedAssumption
      <4>. QED  BY <4>1 DEF FromParts, Number
    <3>. QED  BY <1>5, <2>1, <2>3, <3>1, <3>4, <3>5, <3>6
  <2>. QED  BY <2>2, <2>3
<1>. QED  BY <1>4, <1>5

\* checked_neg keeps the spelling, the unit and the digits.
LEMMA NegateRule ==
  ASSUME NEW x \in Numbers
  PROVE  IF x.special THEN Negate(x) = Refused
         ELSE Negate(x) \in Numbers /\ Val(Negate(x)) = -Val(x)
<1>1. CASE x.special
  BY <1>1 DEF Negate
<1>2. CASE ~x.special
  <2>1. PICK z : z = Negate(x) /\ z = [x EXCEPT !.neg = ~x.neg /\ ~IsZero(x)]
    BY <1>2 DEF Negate
  <2>2. z \in Numbers /\ z.mag = x.mag /\ z.neg = (~x.neg /\ ~IsZero(x))
    BY <2>1 DEF Numbers
  <2>3. IsZero(x) <=> IsZeroMag(x.mag)
    BY <1>2 DEF IsZero
  <2>4. CASE IsZeroMag(x.mag)
    <3>1. Val(z) = 0 /\ Val(x) = 0
      BY <2>2, <2>4, NumberType
    <3>2. Val(z) = -Val(x)
      <4>1. PICK u \in Int, v \in Int : u = Val(z) /\ v = Val(x) /\ u = 0 /\ v = 0
        BY <3>1
      <4>2. u + v = 0
        BY <4>1
      <4>3. u = -v
        BY <4>2
      <4>. QED  BY <4>1, <4>3, Zenon
    <3>. QED  BY <1>2, <2>1, <2>2, <3>2
  <2>5. CASE ~IsZeroMag(x.mag)
    <3>1. z.neg = ~x.neg
      BY <2>2, <2>3, <2>5, Zenon
    <3>2. PICK a \in Nat : a = Value(x.mag)
      BY NumberType
    <3>3. Val(z) = Signed(~x.neg, a) /\ Val(x) = Signed(x.neg, a)
      BY <2>2, <3>1, <3>2, ValSigned
    <3>4. Signed(~x.neg, a) = -Signed(x.neg, a)
      BY DEF Signed
    <3>5. Val(z) = -Val(x)
      BY <3>3, <3>4, Zenon
    <3>. QED  BY <1>2, <2>1, <2>2, <3>5
  <2>. QED  BY <2>4, <2>5
<1>. QED  BY <1>1, <1>2

\* to_le_bytes_signed and from_le_bytes_signed: the number, in its one spelling.
LEMMA ThroughBytesRule ==
  ASSUME NEW x \in Numbers
  PROVE  IF x.special THEN ThroughBytes(x) = Refused ELSE Exact(ThroughBytes(x), Val(x))
<1>1. /\ x.neg \in BOOLEAN /\ x.mag \in Magnitudes /\ Len(x.mag) \in Nat /\ Len(x.mag) <= MaxDigits
      /\ MaxDigits \in Nat /\ MaxDigits >= 1
  BY NumberType, WidthAssumption
<1>2. PICK a \in Nat : a = Value(x.mag) /\ (IsZeroMag(x.mag) <=> a = 0)
  BY NumberType, ZeroValue
<1>3. CASE x.special
  BY <1>3 DEF ThroughBytes
<1>4. CASE ~x.special /\ IsZeroMag(x.mag)
  <2>1. PICK z : z = <<0>>
    OBVIOUS
  <2>2. z \in Seq(Digits) /\ Len(z) = 1 /\ z[1] = 0
    <3>1. 0 \in Digits
      BY BaseAssumption DEF Digits
    <3>. QED  BY <2>1, <3>1
  <2>3. z \in Magnitudes
    BY <2>2 DEF Magnitudes
  <2>4. Significant(z) = 1
    BY <2>2, <2>3, SignificantRule
  <2>5. Trim(z) = z
    <3>1. Trim(z) = [i \in 1..1 |-> z[i]]
      BY <2>4 DEF Trim
    <3>2. z = [i \in 1..Len(z) |-> z[i]]
      BY <2>3, MagnitudeType
    <3>. QED  BY <2>2, <3>1, <3>2
  <2>6. Value(z) = 0
    <3>1. IsZeroMag(z)
      BY <2>2 DEF IsZeroMag
    <3>. QED  BY <2>3, <3>1, ZeroValue
  <2>7. FALSE \in BOOLEAN /\ Trimmed(z) /\ Len(z) <= MaxDigits
    BY <1>1, <2>2, <2>3, <2>5 DEF Trimmed
  <2>8. Exact(FromParts(z, FALSE), IF FALSE THEN -Value(z) ELSE Value(z))
    BY <2>7, FromPartsRule
  <2>9. ThroughBytes(x) = FromParts(z, FALSE)
    BY <1>4, <2>1 DEF ThroughBytes, IsZero
  <2>10. Val(x) = 0
    BY <1>2, <1>4 DEF Val
  <2>. QED  BY <1>4, <2>6, <2>8, <2>9, <2>10
<1>5. CASE ~x.special /\ ~IsZeroMag(x.mag)
  <2>1. PICK m : m = Trim(x.mag) /\ Trimmed(m) /\ Len(m) <= Len(x.mag) /\ Value(m) = a
    BY <1>1, <1>2, TrimRule DEF Trimmed
  <2>2. Len(m) <= MaxDigits
    <3>1. Len(m) \in Nat
      BY <2>1, MagnitudeType DEF Trimmed
    <3>. QED  BY <1>1, <2>1, <3>1
  <2>3. Exact(FromParts(m, x.neg), IF x.neg THEN -Value(m) ELSE Value(m))
    BY <1>1, <2>1, <2>2, FromPartsRule
  <2>4. ThroughBytes(x) = FromParts(m, x.neg)
    BY <1>5, <2>1 DEF ThroughBytes, IsZero
  <2>5. (IF x.neg THEN -Value(m) ELSE Value(m)) = Val(x)
    BY <1>2, <2>1 DEF Val
  <2>. QED  BY <1>5, <2>3, <2>4, <2>5
<1>. QED  BY <1>3, <1>4, <1>5

\* The comparison is the order of the integers, whatever their spellings.
LEMMA CmpRule ==
  ASSUME NEW x \in Numbers, NEW y \in Numbers
  PROVE  IF x.special \/ y.special THEN CmpInteger(x, y) = Refused
         ELSE CmpInteger(x, y) = IF Val(x) < Val(y) THEN -1 ELSE IF Val(x) > Val(y) THEN 1 ELSE 0
<1>1. /\ x.neg \in BOOLEAN /\ x.mag \in Magnitudes
      /\ y.neg \in BOOLEAN /\ y.mag \in Magnitudes
  BY NumberType
<1>2. PICK a \in Nat, b \in Nat : a = Value(x.mag) /\ b = Value(y.mag)
  BY NumberType
<1>3. (IsZeroMag(x.mag) <=> a = 0) /\ (IsZeroMag(y.mag) <=> b = 0)
  BY <1>1, <1>2, ZeroValue
<1>4. Val(x) = (IF x.neg THEN -a ELSE a) /\ Val(y) = (IF y.neg THEN -b ELSE b)
  BY <1>2 DEF Val
<1>5. /\ MagCmp(x.mag, y.mag) = IF a < b THEN -1 ELSE IF a > b THEN 1 ELSE 0
      /\ MagCmp(y.mag, x.mag) = IF b < a THEN -1 ELSE IF b > a THEN 1 ELSE 0
  BY <1>1, <1>2, MagCmpRule
<1>6. CASE x.special \/ y.special
  BY <1>6 DEF CmpInteger, PlainBoth
<1>7. CASE ~(x.special \/ y.special)
  <2>1. CmpInteger(x, y) = IF a = 0 /\ b = 0 THEN 0
                           ELSE IF x.neg # y.neg THEN IF x.neg THEN -1 ELSE 1
                           ELSE IF x.neg THEN MagCmp(y.mag, x.mag) ELSE MagCmp(x.mag, y.mag)
    BY <1>3, <1>7 DEF CmpInteger, PlainBoth, IsZero
  <2>2. PICK u \in Int, v \in Int : u = Val(x) /\ v = Val(y)
    BY NumberType
  <2>3. PICK c : c = CmpInteger(x, y)
    OBVIOUS
  <2>4. CASE x.neg = TRUE /\ y.neg = TRUE
    <3>1. u = -a /\ v = -b
      BY <1>4, <2>2, <2>4
    <3>2. c = IF a = 0 /\ b = 0 THEN 0 ELSE MagCmp(y.mag, x.mag)
      BY <2>1, <2>3, <2>4
    <3>3. c = IF u < v THEN -1 ELSE IF u > v THEN 1 ELSE 0
      BY <1>5, <3>1, <3>2
    <3>. QED  BY <1>7, <2>2, <2>3, <3>3
  <2>5. CASE x.neg = TRUE /\ y.neg = FALSE
    <3>1. u = -a /\ v = b
      BY <1>4, <2>2, <2>5
    <3>2. c = IF a = 0 /\ b = 0 THEN 0 ELSE -1
      BY <2>1, <2>3, <2>5
    <3>3. c = IF u < v THEN -1 ELSE IF u > v THEN 1 ELSE 0
      BY <3>1, <3>2
    <3>. QED  BY <1>7, <2>2, <2>3, <3>3
  <2>6. CASE x.neg = FALSE /\ y.neg = TRUE
    <3>1. u = a /\ v = -b
      BY <1>4, <2>2, <2>6
    <3>2. c = IF a = 0 /\ b = 0 THEN 0 ELSE 1
      BY <2>1, <2>3, <2>6
    <3>3. c = IF u < v THEN -1 ELSE IF u > v THEN 1 ELSE 0
      BY <3>1, <3>2
    <3>. QED  BY <1>7, <2>2, <2>3, <3>3
  <2>7. CASE x.neg = FALSE /\ y.neg = FALSE
    <3>1. u = a /\ v = b
      BY <1>4, <2>2, <2>7
    <3>2. c = IF a = 0 /\ b = 0 THEN 0 ELSE MagCmp(x.mag, y.mag)
      BY <2>1, <2>3, <2>7
    <3>3. c = IF u < v THEN -1 ELSE IF u > v THEN 1 ELSE 0
      BY <1>5, <3>1, <3>2
    <3>. QED  BY <1>7, <2>2, <2>3, <3>3
  <2>. QED  BY <1>1, <2>4, <2>5, <2>6, <2>7
<1>. QED  BY <1>6, <1>7

\* The remainder of a division is the one below the divisor.
LEMMA ModUnique ==
  ASSUME NEW v \in Int, NEW b \in Nat, NEW k \in Int, NEW r \in Nat, r < b, v = k * b + r
  PROVE  v % b = r
<1>1. b > 0
  OBVIOUS
<1>2. PICK q \in Int, m \in Int : q = v \div b /\ m = v % b /\ 0 <= m /\ m < b
  <2>1. v \div b \in Int /\ v % b \in 0..(b - 1)
    BY <1>1
  <2>. QED  BY <1>1, <2>1
<1>3. v = b * q + m
  BY <1>1, <1>2
<1>4. PICK e \in Int : e = k - q
  OBVIOUS
<1>5. e * b = m - r
  <2>1. e * b = k * b - b * q
    BY <1>4
  <2>2. PICK t \in Int, u \in Int : t = k * b /\ u = b * q
    OBVIOUS
  <2>3. t + r = u + m
    BY <1>3, <2>2
  <2>4. t - u = m - r
    BY <2>2, <2>3
  <2>. QED  BY <2>1, <2>2, <2>4
<1>6. e = 0
  <2>1. CASE e >= 1
    <3>1. PICK t \in Int : t = e * b /\ t >= b
      <4>1. 1 * b <= e * b
        BY <2>1, ProductOrder
      <4>. QED  BY <4>1
    <3>. QED  BY <1>2, <1>5, <3>1
  <2>2. CASE e <= -1
    <3>1. PICK f \in Nat : f = -e /\ f >= 1
      BY <2>2
    <3>2. PICK t \in Int : t = f * b /\ t >= b
      <4>1. 1 * b <= f * b
        BY <3>1, ProductOrder
      <4>. QED  BY <4>1
    <3>3. e * b + f * b = 0
      <4>1. e + f = 0
        BY <3>1
      <4>2. (e + f) * b = e * b + f * b
        OBVIOUS
      <4>3. (e + f) * b = 0
        BY <4>1
      <4>. QED  BY <4>2, <4>3
    <3>. QED  BY <1>2, <1>5, <3>2, <3>3
  <2>. QED  BY <2>1, <2>2
<1>. QED  BY <1>2, <1>5, <1>6

LEMMA SignedAbs ==
  ASSUME NEW neg \in BOOLEAN, NEW b \in Nat
  PROVE  Abs(Signed(neg, b)) = b /\ (b > 0 => (Signed(neg, b) < 0 <=> neg))
<1>1. CASE b = 0
  <2>1. Signed(neg, b) + b = 0 \/ Signed(neg, b) = b
    BY DEF Signed
  <2>2. Signed(neg, b) = 0
    BY <1>1, <2>1, SignedType
  <2>. QED  BY <1>1, <2>2 DEF Abs
<1>2. CASE b > 0 /\ neg
  BY <1>2 DEF Signed, Abs
<1>3. CASE b > 0 /\ ~neg
  BY <1>3 DEF Signed, Abs
<1>. QED  BY <1>1, <1>2, <1>3

\* What every division starts with.
Division(x, y, q, r, vq, vr, vb) ==
  /\ MagDivRem(x.mag, y.mag).quotient = q /\ MagDivRem(x.mag, y.mag).remainder = r
  /\ Trimmed(q) /\ Trimmed(r) /\ Len(q) \in Nat /\ Len(r) \in Nat
  /\ Len(q) <= Len(x.mag) /\ Len(q) <= MaxDigits /\ Len(r) <= MaxDigits
  /\ vq = Value(q) /\ vr = Value(r) /\ vb = Value(y.mag)
  /\ vr < vb /\ Value(x.mag) = vq * vb + vr
  /\ IsZeroMag(r) <=> vr = 0
  /\ Val(x) = Signed(x.neg, vq * vb + vr)
  /\ Val(y) = Signed(y.neg, vb) /\ Abs(Val(y)) = vb

\* Two numbers, the second not zero, have a quotient and a remainder.
LEMMA DivisionRule ==
  ASSUME NEW x \in Numbers, NEW y \in Numbers, ~y.special, ~IsZero(y)
  PROVE  \E q, r : \E vq \in Nat, vr \in Nat, vb \in Nat : Division(x, y, q, r, vq, vr, vb)
<1>1. /\ x.mag \in Magnitudes /\ Len(x.mag) \in Nat /\ Len(x.mag) <= MaxDigits
      /\ y.mag \in Magnitudes /\ Len(y.mag) \in Nat /\ Len(y.mag) <= MaxDigits
      /\ MaxDigits \in Nat
  BY NumberType, WidthAssumption
<1>2. PICK vb \in Nat : vb = Value(y.mag) /\ 0 < vb
  <2>1. ~IsZeroMag(y.mag)
    BY DEF IsZero
  <2>2. Value(y.mag) \in Nat
    BY NumberType
  <2>3. Value(y.mag) # 0
    BY <1>1, <2>1, ZeroValue
  <2>. QED  BY <2>2, <2>3
<1>3. PICK q, r : q = MagDivRem(x.mag, y.mag).quotient /\ r = MagDivRem(x.mag, y.mag).remainder
  OBVIOUS
<1>4. /\ Trimmed(q) /\ Trimmed(r)
      /\ Len(q) <= Len(x.mag) /\ Len(r) <= Len(y.mag)
      /\ Value(q) \in Nat /\ Value(r) \in Nat
      /\ Value(r) < vb
      /\ Value(x.mag) = Value(q) * vb + Value(r)
  BY <1>1, <1>2, <1>3, MagDivRemRule
<1>5. q \in Magnitudes /\ r \in Magnitudes /\ Len(q) \in Nat /\ Len(r) \in Nat
  BY <1>4, MagnitudeType DEF Trimmed
<1>6. Len(q) <= MaxDigits /\ Len(r) <= MaxDigits
  BY <1>1, <1>4, <1>5
<1>7. PICK vq \in Nat, vr \in Nat : vq = Value(q) /\ vr = Value(r)
  BY <1>4
<1>8. IsZeroMag(r) <=> vr = 0
  BY <1>5, <1>7, ZeroValue
<1>9. Val(x) = Signed(x.neg, vq * vb + vr)
  BY <1>4, <1>7, ValSigned
<1>10. Val(y) = Signed(y.neg, vb) /\ Abs(Val(y)) = vb
  <2>1. y.neg \in BOOLEAN
    BY NumberType
  <2>2. Val(y) = Signed(y.neg, vb)
    BY <1>2, ValSigned
  <2>. QED  BY <2>1, <2>2, SignedAbs
<1>11. Division(x, y, q, r, vq, vr, vb)
  BY <1>2, <1>3, <1>4, <1>5, <1>6, <1>7, <1>8, <1>9, <1>10 DEF Division
<1>. QED  BY <1>11, Zenon

LEMMA SingleDigit ==
  ASSUME NEW d \in Digits
  PROVE  Trimmed(<<d>>) /\ Len(<<d>>) = 1 /\ Value(<<d>>) = d
<1>1. PICK z : z = <<d>> /\ z \in Seq(Digits) /\ Len(z) = 1 /\ z[1] = d
  <2>1. <<d>> \in Seq(Digits) /\ Len(<<d>>) = 1 /\ <<d>>[1] = d
    OBVIOUS
  <2>. QED  BY <2>1
<1>2. z \in Magnitudes
  BY <1>1 DEF Magnitudes
<1>3. Trim(z) = z
  <2>1. Significant(z) = 1
    BY <1>1, <1>2, SignificantRule
  <2>2. Trim(z) = [i \in 1..1 |-> z[i]]
    BY <2>1 DEF Trim
  <2>3. z = [i \in 1..Len(z) |-> z[i]]
    BY <1>2, MagnitudeType
  <2>. QED  BY <1>1, <2>2, <2>3
<1>4. Value(z) = d
  <2>1. d \in Int /\ z \in Seq(Int)
    BY <1>2, MagnitudeType, BaseAssumption DEF Digits
  <2>2. Lowest(z)[0 + 1] = Lowest(z)[0] + Digit(z, 0 + 1) * Weight[0]
    BY <2>1, LowestRule
  <2>3. Lowest(z)[0] = 0
    BY <2>1, LowestRule
  <2>4. Digit(z, 0 + 1) = d
    BY <1>1 DEF Digit
  <2>5. Weight[0] = 1
    BY WeightRule
  <2>6. Lowest(z)[0 + 1] = d
    BY <2>1, <2>2, <2>3, <2>4, <2>5
  <2>. QED  BY <1>1, <2>6 DEF Value
<1>. QED  BY <1>1, <1>2, <1>3, <1>4 DEF Trimmed

\* A remainder left over is one for either sign.
LEMMA SignedMod ==
  ASSUME NEW neg \in BOOLEAN, NEW q \in Nat, NEW r \in Nat, NEW b \in Nat, r < b, r # 0
  PROVE  Signed(neg, q * b + r) % b # 0
<1>1. CASE ~neg
  <2>1. Signed(neg, q * b + r) = q * b + r
    BY <1>1 DEF Signed
  <2>2. q * b + r \in Int
    OBVIOUS
  <2>. QED  BY <2>1, <2>2, ModUnique
<1>2. CASE neg
  <2>1. Signed(neg, q * b + r) = -(q * b + r)
    BY <1>2 DEF Signed
  <2>2. PICK v \in Int : v = -(q * b + r)
    OBVIOUS
  <2>3. PICK k \in Int, m \in Nat : k = -q - 1 /\ m = b - r /\ m < b /\ m # 0
    OBVIOUS
  <2>4. v = k * b + m
    <3>1. (-q - 1) * b = -(q * b) - b
      OBVIOUS
    <3>2. PICK t \in Int : t = q * b
      OBVIOUS
    <3>. QED  BY <2>2, <2>3, <3>1, <3>2
  <2>5. v % b = m
    BY <2>3, <2>4, ModUnique
  <2>. QED  BY <2>1, <2>2, <2>3, <2>5
<1>. QED  BY <1>1, <1>2

\* checked_div_exact: the quotient if there is no remainder, and only then.
LEMMA DivExactRule ==
  ASSUME NEW x \in Numbers, NEW y \in Numbers
  PROVE  IF x.special \/ y.special \/ IsZero(y) THEN DivExact(x, y) = Refused
         ELSE \/ DivExact(x, y) = Refused /\ Val(x) % Abs(Val(y)) # 0
              \/ \E v \in Int : Exact(DivExact(x, y), v) /\ v * Val(y) = Val(x)
<1>1. x.neg \in BOOLEAN /\ y.neg \in BOOLEAN
  BY NumberType
<1>2. CASE x.special \/ y.special \/ IsZero(y)
  BY <1>2 DEF DivExact, PlainBoth
<1>3. CASE ~(x.special \/ y.special \/ IsZero(y))
  <2>1. PICK q, r : \E vq \in Nat, vr \in Nat, vb \in Nat : Division(x, y, q, r, vq, vr, vb)
    BY <1>3, DivisionRule, Zenon
  <2>2. PICK vq \in Nat, vr \in Nat, vb \in Nat : Division(x, y, q, r, vq, vr, vb)
    BY <2>1, Zenon
  <2> USE DEF Division
  <2>3. DivExact(x, y) = IF IsZeroMag(r) THEN FromParts(q, x.neg # y.neg) ELSE Refused
    BY <1>3, <2>2 DEF DivExact, PlainBoth
  <2>4. CASE IsZeroMag(r)
    <3>1. PICK s \in BOOLEAN : s = (x.neg # y.neg)
      OBVIOUS
    <3>2. Exact(FromParts(q, s), Signed(s, vq))
      BY <2>2, <3>1, FromPartsSigned
    <3>3. DivExact(x, y) = FromParts(q, s)
      BY <2>3, <2>4, <3>1, Zenon
    <3>4. Signed(s, vq) * Val(y) = Val(x)
      <4>1. Signed(s # y.neg, vq * vb) = Signed(s, vq) * Signed(y.neg, vb)
        <5>1. vq \in Int /\ vb \in Int
          OBVIOUS
        <5>. QED  BY <1>1, <5>1, SignedProduct, Zenon
      <4>2. (s # y.neg) = x.neg
        BY <1>1, <3>1
      <4>3. vq * vb + vr = vq * vb
        BY <2>2, <2>4
      <4>. QED  BY <2>2, <4>1, <4>2, <4>3, Zenon
    <3>5. Signed(s, vq) \in Int
      BY SignedType
    <3>. QED  BY <1>3, <3>2, <3>3, <3>4, <3>5
  <2>5. CASE ~IsZeroMag(r)
    <3>1. DivExact(x, y) = Refused
      BY <2>3, <2>5
    <3>2. Signed(x.neg, vq * vb + vr) % vb # 0
      BY <1>1, <2>2, <2>5, SignedMod
    <3>. QED  BY <1>3, <2>2, <3>1, <3>2
  <2>. QED  BY <2>4, <2>5
<1>. QED  BY <1>2, <1>3

\* Operands of a sign: the truncated quotient is the floor.
LEMMA FloorSame ==
  ASSUME NEW neg \in BOOLEAN, NEW q \in Nat, NEW r \in Nat, NEW b \in Nat
  PROVE  q * Signed(neg, b) + Signed(neg, r) = Signed(neg, q * b + r)
<1>1. CASE neg
  <2>1. q * (-b) + (-r) = -(q * b + r)
    <3>1. PICK t \in Int : t = q * b
      OBVIOUS
    <3>2. q * (-b) = -t
      BY <3>1
    <3>. QED  BY <3>1, <3>2
  <2>. QED  BY <1>1, <2>1 DEF Signed
<1>2. CASE ~neg
  BY <1>2 DEF Signed
<1>. QED  BY <1>1, <1>2

\* Operands of different signs: one more, and the remainder from the other end.
LEMMA FloorOther ==
  ASSUME NEW neg \in BOOLEAN, NEW q \in Nat, NEW r \in Nat, NEW b \in Nat
  PROVE  Signed(TRUE, q + 1) * Signed(neg, b) + Signed(neg, b - r) = Signed(~neg, q * b + r)
<1>1. PICK t \in Int : t = q * b
  OBVIOUS
<1>2. (-(q + 1)) * b = -t - b /\ (-(q + 1)) * (-b) = t + b
  BY <1>1
<1>3. CASE neg
  <2>1. (-(q + 1)) * (-b) + (-(b - r)) = q * b + r
    BY <1>1, <1>2
  <2>. QED  BY <1>3, <2>1 DEF Signed
<1>4. CASE ~neg
  <2>1. (-(q + 1)) * b + (b - r) = -(q * b + r)
    BY <1>1, <1>2
  <2>. QED  BY <1>4, <2>1 DEF Signed
<1>. QED  BY <1>3, <1>4

\* Both halves of a floored division: the remainder is smaller than the divisor
\* and has its sign.
Floored(x, y, Q, R, vq, vr) ==
  /\ Exact(Q, vq) /\ Exact(R, vr)
  /\ Val(x) = vq * Val(y) + vr
  /\ \E neg \in BOOLEAN, m \in Nat, b \in Nat :
       vr = Signed(neg, m) /\ m < b /\ Val(y) = Signed(neg, b)

\* floor_divmod rounds down, or has no digit left to round with.
LEMMA FloorDivModRule ==
  ASSUME NEW x \in Numbers, NEW y \in Numbers, ~y.special, ~IsZero(y)
  PROVE  LET d == FloorDivMod(x, y)
         IN \/ d.quotient = Refused /\ Len(x.mag) = MaxDigits
            \/ \E vq \in Int, vr \in Int : Floored(x, y, d.quotient, d.remainder, vq, vr)
<1>1. /\ x.neg \in BOOLEAN /\ y.neg \in BOOLEAN
      /\ x.mag \in Magnitudes /\ Len(x.mag) \in Nat \ {0} /\ Len(x.mag) <= MaxDigits
      /\ y.mag \in Magnitudes /\ Len(y.mag) \in Nat /\ Len(y.mag) <= MaxDigits
      /\ MaxDigits \in Nat
  BY NumberType, WidthAssumption
<1>2. PICK q, r : \E vq \in Nat, vr \in Nat, vb \in Nat : Division(x, y, q, r, vq, vr, vb)
  BY DivisionRule, Zenon
<1>3. PICK vq \in Nat, vr \in Nat, vb \in Nat : Division(x, y, q, r, vq, vr, vb)
  BY <1>2, Zenon
<1>4. q \in Magnitudes /\ r \in Magnitudes
  BY <1>3 DEF Division, Trimmed
<1>5. /\ Val(x) = Signed(x.neg, vq * vb + vr) /\ Val(y) = Signed(y.neg, vb)
      /\ vr < vb /\ (IsZeroMag(r) <=> vr = 0)
  BY <1>3 DEF Division
<1>6. PICK d : d = FloorDivMod(x, y)
  OBVIOUS
<1>7. CASE IsZeroMag(r)
  <2>1. d = [quotient |-> FromParts(q, x.neg # y.neg), remainder |-> Number(FALSE, <<0>>)]
    BY <1>3, <1>6, <1>7 DEF FloorDivMod, Division
  <2>2. PICK s \in BOOLEAN : s = (x.neg # y.neg)
    OBVIOUS
  <2>3. Exact(FromParts(q, s), Signed(s, vq))
    BY <1>3, <2>2, FromPartsSigned DEF Division
  <2>4. Exact(Number(FALSE, <<0>>), 0)
    <3>1. PICK z \in Magnitudes : z = <<0>> /\ Len(z) = 1 /\ Value(z) = 0 /\ Trim(z) = z
      <4>1. 0 \in Digits
        BY BaseAssumption DEF Digits
      <4>2. Trimmed(<<0>>) /\ Len(<<0>>) = 1 /\ Value(<<0>>) = 0
        BY <4>1, SingleDigit
      <4>. QED  BY <4>2 DEF Trimmed
    <3>2. PICK n : n = Number(FALSE, z)
      OBVIOUS
    <3>3. n \in Numbers /\ n.neg = FALSE /\ n.mag = z /\ ~n.special /\ n.unit = NoUnit
      <4>1. Len(z) <= MaxDigits /\ FALSE \in BOOLEAN
        BY <1>1, <3>1
      <4>. QED  BY <3>2, <4>1, NumberIsOne
    <3>4. OneSpelling(n)
      BY <3>1, <3>3 DEF OneSpelling
    <3>5. Val(n) = 0
      BY <3>1, <3>3 DEF Val
    <3>. QED  BY <3>1, <3>2, <3>3, <3>4, <3>5 DEF Exact
  <2>5. Val(x) = Signed(s, vq) * Val(y) + 0
    <3>1. vq \in Int /\ vb \in Int
      OBVIOUS
    <3>2. Signed(s # y.neg, vq * vb) = Signed(s, vq) * Signed(y.neg, vb)
      BY <1>1, <3>1, SignedProduct, Zenon
    <3>3. (s # y.neg) = x.neg
      BY <1>1, <2>2
    <3>4. vq * vb + vr = vq * vb
      BY <1>5, <1>7
    <3>5. Val(x) = Signed(s, vq) * Val(y)
      BY <1>5, <3>2, <3>3, <3>4, Zenon
    <3>6. Val(x) \in Int
      BY NumberType
    <3>7. Val(x) + 0 = Val(x)
      BY <3>6
    <3>. QED  BY <3>5, <3>7, Zenon
  <2>6. Signed(s, vq) \in Int /\ 0 \in Int
    BY SignedType
  <2>7. Signed(y.neg, 0) = 0 /\ 0 < vb /\ 0 \in Nat
    <3>1. 0 \in Nat
      OBVIOUS
    <3>2. Abs(Signed(y.neg, 0)) = 0
      BY <1>1, <3>1, SignedAbs
    <3>3. Signed(y.neg, 0) \in Int
      BY <1>1, <3>1, SignedType
    <3>4. Signed(y.neg, 0) = 0
      BY <3>2, <3>3 DEF Abs
    <3>. QED  BY <1>5, <1>7, <3>4
  <2>8. Floored(x, y, d.quotient, d.remainder, Signed(s, vq), 0)
    BY <1>1, <1>5, <2>1, <2>2, <2>3, <2>4, <2>5, <2>7, Zenon DEF Floored
  <2>. QED  BY <1>6, <2>6, <2>8
<1>8. CASE ~IsZeroMag(r) /\ x.neg = y.neg
  <2>1. d = [quotient |-> FromParts(q, FALSE), remainder |-> FromParts(r, y.neg)]
    BY <1>3, <1>6, <1>8 DEF FloorDivMod, Division
  <2>2. Exact(FromParts(q, FALSE), vq)
    <3>1. FALSE \in BOOLEAN
      OBVIOUS
    <3>2. Exact(FromParts(q, FALSE), Signed(FALSE, vq))
      BY <1>3, <3>1, FromPartsSigned DEF Division
    <3>. QED  BY <3>2 DEF Signed
  <2>3. Exact(FromParts(r, y.neg), Signed(y.neg, vr))
    BY <1>1, <1>3, FromPartsSigned DEF Division
  <2>4. Val(x) = vq * Val(y) + Signed(y.neg, vr)
    BY <1>1, <1>5, <1>8, FloorSame
  <2>5. vq \in Int /\ Signed(y.neg, vr) \in Int
    BY <1>1, SignedType
  <2>6. Floored(x, y, d.quotient, d.remainder, vq, Signed(y.neg, vr))
    BY <1>1, <1>5, <2>1, <2>2, <2>3, <2>4 DEF Floored
  <2>. QED  BY <1>6, <2>5, <2>6
<1>9. CASE ~IsZeroMag(r) /\ x.neg # y.neg
  <2>1. PICK one \in Magnitudes : one = <<1>> /\ Len(one) = 1 /\ Value(one) = 1
    <3>1. 1 \in Digits
      BY BaseAssumption DEF Digits
    <3>2. Trimmed(<<1>>) /\ Len(<<1>>) = 1 /\ Value(<<1>>) = 1
      BY <3>1, SingleDigit
    <3>. QED  BY <3>2 DEF Trimmed
  <2>2. d = [quotient |-> FromParts(MagAdd(q, one), TRUE),
             remainder |-> FromParts(MagSub(y.mag, r), y.neg)]
    BY <1>3, <1>6, <1>9, <2>1 DEF FloorDivMod, Division
  <2>3. CASE Len(q) >= MaxDigits \/ Len(one) >= MaxDigits
    <3>1. MagAdd(q, one) = Refused
      BY <1>4, <2>3, MagAddRule
    <3>2. d.quotient = Refused
      BY <2>2, <3>1, RefusedParts
    <3>3. Len(x.mag) = MaxDigits
      <4>1. Len(q) \in Nat /\ Len(q) <= Len(x.mag)
        BY <1>3 DEF Division
      <4>. QED  BY <1>1, <2>1, <2>3, <4>1
    <3>. QED  BY <1>6, <3>2, <3>3
  <2>4. CASE ~(Len(q) >= MaxDigits \/ Len(one) >= MaxDigits)
    <3>1. PICK m : m = MagAdd(q, one) /\ Trimmed(m) /\ Len(m) <= MaxDigits /\ Value(m) = vq + 1
      <4>1. Value(q) = vq
        BY <1>3 DEF Division
      <4>2. /\ Trimmed(MagAdd(q, one)) /\ Len(MagAdd(q, one)) <= MaxDigits
            /\ Value(MagAdd(q, one)) = Value(q) + Value(one)
        BY <1>4, <2>4, MagAddRule
      <4>. QED  BY <2>1, <4>1, <4>2
    <3>2. PICK n : n = MagSub(y.mag, r) /\ Trimmed(n) /\ Len(n) <= Len(y.mag) /\ Value(n) = vb - vr
      <4>1. Value(r) = vr /\ Value(y.mag) = vb /\ ~(vb < vr)
        BY <1>3 DEF Division
      <4>. QED  BY <1>1, <1>4, <4>1, MagSubRule
    <3>3. Len(n) <= MaxDigits
      <4>1. Len(n) \in Nat
        BY <3>2, MagnitudeType DEF Trimmed
      <4>. QED  BY <1>1, <3>2, <4>1
    <3>4. Exact(FromParts(m, TRUE), Signed(TRUE, vq + 1))
      <4>1. TRUE \in BOOLEAN
        OBVIOUS
      <4>. QED  BY <3>1, <4>1, FromPartsSigned
    <3>5. Exact(FromParts(n, y.neg), Signed(y.neg, vb - vr))
      BY <1>1, <3>2, <3>3, FromPartsSigned
    <3>6. Val(x) = Signed(TRUE, vq + 1) * Val(y) + Signed(y.neg, vb - vr)
      <4>1. Signed(TRUE, vq + 1) * Signed(y.neg, vb) + Signed(y.neg, vb - vr)
              = Signed(~y.neg, vq * vb + vr)
        <5>1. PICK neg \in BOOLEAN : neg = y.neg
          BY <1>1
        <5>2. Signed(TRUE, vq + 1) * Signed(neg, vb) + Signed(neg, vb - vr)
                = Signed(~neg, vq * vb + vr)
          BY FloorOther
        <5>. QED  BY <5>1, <5>2, Zenon
      <4>2. x.neg = ~y.neg
        BY <1>1, <1>9
      <4>. QED  BY <1>5, <4>1, <4>2, Zenon
    <3>7. Signed(TRUE, vq + 1) \in Int /\ Signed(y.neg, vb - vr) \in Int
      <4>1. TRUE \in BOOLEAN /\ vq + 1 \in Int /\ vb - vr \in Int
        OBVIOUS
      <4>. QED  BY <1>1, <4>1, SignedType
    <3>8. vb - vr \in Nat /\ vb - vr < vb
      BY <1>5, <1>9
    <3>9. Floored(x, y, d.quotient, d.remainder, Signed(TRUE, vq + 1), Signed(y.neg, vb - vr))
      BY <1>1, <1>5, <2>2, <3>1, <3>2, <3>4, <3>5, <3>6, <3>8 DEF Floored
    <3>. QED  BY <1>6, <3>7, <3>9
  <2>. QED  BY <2>3, <2>4
<1>. QED  BY <1>7, <1>8, <1>9

\* What a floored division says, in integers alone.
LEMMA FlooredRemainder ==
  ASSUME NEW x \in Numbers, NEW y \in Numbers, NEW Q, NEW R, NEW vq \in Int, NEW vr \in Int,
         Floored(x, y, Q, R, vq, vr)
  PROVE  /\ \E m \in 0..(Abs(Val(y)) - 1) : vr = IF Val(y) < 0 THEN -m ELSE m
         /\ (Val(x) - vr) % Abs(Val(y)) = 0
         /\ Abs(vr) < Abs(Val(y))
         /\ vr # 0 => (vr < 0) = (Val(y) < 0)
<1>1. PICK neg \in BOOLEAN, m \in Nat, b \in Nat :
        vr = Signed(neg, m) /\ m < b /\ Val(y) = Signed(neg, b)
  BY DEF Floored
<1>2. PICK vx \in Int, vy \in Int : vx = Val(x) /\ vy = Val(y) /\ vx = vq * vy + vr
  BY NumberType DEF Floored
<1>3. m \in 0..(b - 1)
  BY <1>1
<1>4. CASE neg = TRUE
  <2>1. vr = -m /\ vy = -b
    BY <1>1, <1>2, <1>4 DEF Signed
  <2>2. vy < 0 /\ Abs(vy) = b /\ Abs(vr) = m /\ (vr # 0 => vr < 0)
    BY <1>1, <2>1 DEF Abs
  <2>3. (vx - vr) % b = 0
    <3>1. PICK t \in Int : t = vq * vy
      OBVIOUS
    <3>2. (-vq) * b = t
      BY <2>1, <3>1
    <3>3. vx - vr = (-vq) * b + 0
      BY <1>2, <3>1, <3>2
    <3>4. vx - vr \in Int /\ -vq \in Int /\ 0 \in Nat /\ 0 < b
      BY <1>1
    <3>. QED  BY <3>3, <3>4, ModUnique
  <2>. QED  BY <1>1, <1>2, <1>3, <2>1, <2>2, <2>3
<1>5. CASE neg = FALSE
  <2>1. vr = m /\ vy = b
    BY <1>1, <1>2, <1>5 DEF Signed
  <2>2. ~(vy < 0) /\ Abs(vy) = b /\ Abs(vr) = m /\ ~(vr < 0)
    BY <1>1, <2>1 DEF Abs
  <2>3. (vx - vr) % b = 0
    <3>1. vx - vr = vq * b + 0
      BY <1>2, <2>1
    <3>2. vx - vr \in Int /\ 0 \in Nat /\ 0 < b
      BY <1>1
    <3>. QED  BY <3>1, <3>2, ModUnique
  <2>. QED  BY <1>1, <1>2, <1>3, <2>1, <2>2, <2>3
<1>. QED  BY <1>4, <1>5

\* checked_div_floor and checked_rem: the two halves of the floored division, or neither.
LEMMA DivFloorRule ==
  ASSUME NEW x \in Numbers, NEW y \in Numbers, ~(x.special \/ y.special \/ IsZero(y))
  PROVE  \/ /\ Len(x.mag) = MaxDigits
            /\ DivFloor(x, y, "quotient") = Refused /\ DivFloor(x, y, "remainder") = Refused
         \/ \E vq \in Int, vr \in Int :
              Floored(x, y, DivFloor(x, y, "quotient"), DivFloor(x, y, "remainder"), vq, vr)
<1>1. PICK d : d = FloorDivMod(x, y)
  OBVIOUS
<1>2. \A half : DivFloor(x, y, half)
                  = IF Refused \in {d.quotient, d.remainder} THEN Refused ELSE d[half]
  BY <1>1 DEF DivFloor, PlainBoth
<1>3. CASE d.quotient = Refused /\ Len(x.mag) = MaxDigits
  BY <1>2, <1>3
<1>4. CASE \E vq \in Int, vr \in Int : Floored(x, y, d.quotient, d.remainder, vq, vr)
  <2>1. PICK vq \in Int, vr \in Int : Floored(x, y, d.quotient, d.remainder, vq, vr)
    BY <1>4
  <2>2. d.quotient \in Numbers /\ d.remainder \in Numbers
    BY <2>1 DEF Floored, Exact
  <2>3. Refused \notin {d.quotient, d.remainder}
    BY <2>2, NumberType
  <2>4. DivFloor(x, y, "quotient") = d.quotient /\ DivFloor(x, y, "remainder") = d.remainder
    BY <1>2, <2>3
  <2>. QED  BY <2>1, <2>4
<1>. QED  BY <1>1, <1>3, <1>4, FloorDivModRule

\* A digit above the n lowest makes a value of at least the weight of n digits.
LEMMA HighDigit ==
  ASSUME NEW m \in Magnitudes, NEW n \in Nat, \E i \in (n + 1)..Len(m) : m[i] # 0
  PROVE  Value(m) \in Nat /\ Value(m) >= Weight[n]
<1>1. m \in Seq(Digits) /\ m \in Seq(Int) /\ Len(m) \in Nat /\ Value(m) \in Int /\ 0 <= Value(m)
  BY MagnitudeType, ValueType, ZeroValue
<1>2. PICK s \in Nat : s = Significant(m) /\ s \in 1..Len(m) /\ \A i \in (s + 1)..Len(m) : m[i] = 0
  BY <1>1, SignificantRule
<1>3. s > n
  BY <1>1, <1>2
<1>4. m[s] # 0
  <2>1. s = 1 \/ m[s] # 0
    BY <1>2, SignificantRule
  <2>2. CASE s = 1
    <3>1. n = 0
      BY <1>3, <2>2
    <3>. QED  BY <1>2, <2>2, <3>1
  <2>. QED  BY <2>1, <2>2
<1>5. PICK k \in Nat : k = Digit(m, s) /\ k >= 1
  BY <1>1, <1>2, <1>4, MagnitudeType DEF Digit
<1>6. Digit(m, s) * Weight[s - 1] <= Lowest(m)[s]
  <2>1. s \in Nat \ {0}
    BY <1>2
  <2>. QED  BY <1>1, <2>1, TopDigit
<1>7. Lowest(m)[s] = Value(m)
  BY <1>2, ValueSignificant
<1>8. s - 1 \in Nat /\ n <= s - 1
  BY <1>3
<1>9. PICK w \in Nat, v \in Nat : w = Weight[s - 1] /\ v = Weight[n] /\ v <= w
  BY <1>8, WeightType, WeightGrows
<1>10. w <= k * w
  <2>1. 1 \in Nat /\ k \in Int /\ 1 <= k
    BY <1>5
  <2>2. 1 * w <= k * w
    BY <2>1, ProductOrder
  <2>. QED  BY <2>2
<1>11. k * w \in Int /\ k * w <= Value(m)
  BY <1>5, <1>6, <1>7, <1>9
<1>. QED  BY <1>1, <1>9, <1>10, <1>11

\* With no digit above them, the n lowest are all.
LEMMA NoHighDigit ==
  ASSUME NEW m \in Magnitudes, NEW n \in Nat, ~\E i \in (n + 1)..Len(m) : m[i] # 0
  PROVE  Lowest(m)[n] = Value(m)
<1>1. m \in Seq(Int) /\ Len(m) \in Nat
  BY MagnitudeType
<1>2. CASE n >= Len(m)
  BY <1>1, <1>2, LowestBeyond
<1>3. CASE n < Len(m)
  <2>1. \A i \in (n + 1)..Len(m) : Digit(m, i) = 0
    BY <1>1 DEF Digit
  <2>2. n <= Len(m)
    BY <1>1, <1>3
  <2>. QED  BY <1>1, <2>1, <2>2, ZerosAbove DEF Value
<1>. QED  BY <1>1, <1>2, <1>3

\* to_u32: an exponent it refuses is negative or beyond every exponent allowed.
LEMMA ToExponentRule ==
  ASSUME NEW y \in Numbers
  PROVE  \/ ToExponent(y) = Refused /\ (y.special \/ y.neg \/ Val(y) > MaxExponent)
         \/ ToExponent(y) \in Nat /\ ToExponent(y) = Val(y) /\ ~y.special
<1>1. /\ y.mag \in Magnitudes /\ Value(y.mag) \in Nat
      /\ NarrowDigits \in Nat /\ MaxExponent \in Nat /\ Weight[NarrowDigits] \in Nat
  BY NumberType, WidthAssumption, WeightType
<1>2. CASE y.special \/ y.neg
  BY <1>2 DEF ToExponent
<1>3. CASE ~(y.special \/ y.neg) /\ \E i \in (NarrowDigits + 1)..Len(y.mag) : y.mag[i] # 0
  <2>1. ToExponent(y) = Refused
    BY <1>3 DEF ToExponent
  <2>2. Value(y.mag) >= Weight[NarrowDigits]
    BY <1>1, <1>3, HighDigit
  <2>3. Val(y) > MaxExponent
    BY <1>1, <1>3, <2>2, ExponentAssumption DEF Val
  <2>. QED  BY <1>3, <2>1, <2>3
<1>4. CASE ~(y.special \/ y.neg) /\ ~\E i \in (NarrowDigits + 1)..Len(y.mag) : y.mag[i] # 0
  <2>1. ToExponent(y) = Lowest(y.mag)[NarrowDigits]
    BY <1>4 DEF ToExponent
  <2>2. Lowest(y.mag)[NarrowDigits] = Value(y.mag)
    BY <1>1, <1>4, NoHighDigit
  <2>. QED  BY <1>1, <1>4, <2>1, <2>2 DEF Val
<1>. QED  BY <1>2, <1>3, <1>4

\* A result with the value of a number takes no more digits than the number.
LEMMA NoLonger ==
  ASSUME NEW x \in Numbers, NEW r, Exact(r, Val(x))
  PROVE  Len(r.mag) <= Len(x.mag)
<1>1. r \in Numbers /\ r.mag \in Magnitudes /\ x.mag \in Magnitudes /\ r.mag = Trim(r.mag)
  BY NumberType DEF Exact, OneSpelling
<1>2. PICK a \in Nat, b \in Nat : a = Value(x.mag) /\ b = Value(r.mag)
  BY <1>1, NumberType
<1>3. Signed(x.neg, a) = Signed(r.neg, b)
  BY <1>1, <1>2, ValSigned DEF Exact
<1>4. x.neg \in BOOLEAN /\ r.neg \in BOOLEAN
  BY <1>1, NumberType
<1>5. Abs(Signed(x.neg, a)) = a /\ Abs(Signed(r.neg, b)) = b
  BY <1>4, SignedAbs
<1>6. a = b
  BY <1>3, <1>5
<1>7. /\ Significant(r.mag) \in Nat /\ Significant(x.mag) \in Nat
      /\ Significant(x.mag) <= Len(x.mag) /\ Len(x.mag) \in Nat
  BY <1>1, SignificantIsShort, MagnitudeType
<1>8. Len(r.mag) = Significant(r.mag)
  BY <1>1, TrimRule
<1>9. ~(Significant(x.mag) < Significant(r.mag))
  <2>1. ~(Value(x.mag) < Value(r.mag))
    BY <1>2, <1>6
  <2>. QED  BY <1>1, <2>1, LongerIsMore
<1>. QED  BY <1>7, <1>8, <1>9

\* from_u64(1), where checked_pow begins.
LEMMA OneIsOne == Exact(Number(FALSE, <<1>>), 1) /\ Number(FALSE, <<1>>).mag = <<1>> /\ Len(<<1>>) = 1
<1>1. 1 \in Digits
  BY BaseAssumption DEF Digits
<1>2. PICK m : m = <<1>> /\ Trimmed(m) /\ Len(m) = 1 /\ Value(m) = 1
  BY <1>1, SingleDigit
<1>3. m \in Magnitudes /\ Trim(m) = m /\ Len(m) <= MaxDigits
  BY <1>2, WidthAssumption DEF Trimmed
<1>4. PICK r : r = Number(FALSE, m)
  OBVIOUS
<1>5. r \in Numbers /\ r.neg = FALSE /\ r.mag = m /\ ~r.special /\ r.unit = NoUnit
  BY <1>3, <1>4, NumberIsOne
<1>6. OneSpelling(r) /\ Val(r) = 1
  BY <1>2, <1>3, <1>5 DEF OneSpelling, Val
<1>. QED  BY <1>2, <1>4, <1>5, <1>6 DEF Exact

\* The products of checked_pow, one by one.
LEMMA ProductsRule ==
  ASSUME NEW x \in Numbers
  PROVE  /\ Products(x)[0] = Number(FALSE, <<1>>)
         /\ \A n \in Nat : Products(x)[n + 1]
              = IF Products(x)[n] = Refused THEN Refused ELSE Mul(Products(x)[n], x)
<1> DEFINE S == Numbers \cup {Refused}
           first == Number(FALSE, <<1>>)
           Turn(v) == IF v = Refused THEN Refused ELSE Mul(v, x)
           step == [n \in Nat \ {0} |-> [v \in S |-> Turn(v)]]
           Obeys(f) == f = [n \in Nat |-> IF n = 0 THEN first
                                          ELSE IF f[n - 1] = Refused THEN Refused ELSE Mul(f[n - 1], x)]
<1>1. first \in S
  BY OneIsOne DEF Exact
<1>2. \A v \in S : Turn(v) \in S
  <2>1. ASSUME NEW v \in Numbers PROVE Mul(v, x) \in S
    BY MulRule DEF Exact
  <2>. QED  BY <2>1
<1>3. step \in Steps(S)
  <2> HIDE DEF S, Turn
  <2>. QED  BY <1>2, Zenon DEF Steps
<1>4. \A n \in Nat, v \in S : step[n + 1][v] = Turn(v)
  <2> HIDE DEF S, Turn
  <2>. QED  OBVIOUS
<1> HIDE DEF step, S, first
<1>5. PICK f : Runs(f, S, first, step)
  BY <1>1, <1>3, Recursion, Zenon
<1>6. ASSUME NEW n \in Nat PROVE f[n] = IF n = 0 THEN first ELSE Turn(f[n - 1])
  <2>1. CASE n = 0
    BY <1>5, <2>1 DEF Runs
  <2>2. CASE n # 0
    <3>1. PICK k \in Nat : n = k + 1
      BY <2>2
    <3>2. f[k] \in S /\ f[k + 1] = step[k + 1][f[k]]
      BY <1>5 DEF Runs
    <3>3. f[k + 1] = Turn(f[k])
      <4> HIDE DEF Turn
      <4>. QED  BY <1>4, <3>2
    <3>4. n # 0 /\ n - 1 = k
      BY <3>1
    <3>. QED  BY <3>1, <3>3, <3>4
  <2>. QED  BY <2>1, <2>2
<1>7. Obeys(f)
  BY <1>5, <1>6 DEF Runs
<1>8. Obeys(Products(x))
  <2> HIDE DEF Obeys
  <2>1. Obeys(CHOOSE g : Obeys(g))
    BY <1>7, Zenon
  <2>. QED  BY <2>1 DEF Products, Obeys, first
<1>9. PICK p : p = Products(x)
  OBVIOUS
<1>10. p[0] = first
  BY <1>8, <1>9
<1>11. ASSUME NEW n \in Nat PROVE p[n + 1] = IF p[n] = Refused THEN Refused ELSE Mul(p[n], x)
  <2>1. n + 1 \in Nat /\ n + 1 # 0 /\ (n + 1) - 1 = n
    OBVIOUS
  <2>. QED  BY <1>8, <1>9, <2>1
<1>. QED  BY <1>9, <1>10, <1>11 DEF first

\* checked_pow after n turns: given up, with n times the digits at the cap; or exact,
\* and no longer than that.
Raised(x, n) ==
  \/ Products(x)[n] = Refused /\ n * Len(x.mag) >= MaxDigits
  \/ Exact(Products(x)[n], Powers(Val(x))[n]) /\ Len(Products(x)[n].mag) <= n * Len(x.mag)

\* Every product of checked_pow is exact or given up at the cap.
LEMMA ProductsExact ==
  ASSUME NEW x \in Numbers, ~x.special
  PROVE  /\ Exact(Products(x)[0], Powers(Val(x))[0])
         /\ \A n \in Nat : Raised(x, n + 1)
<1>1. Val(x) \in Int /\ Len(x.mag) \in Nat /\ Len(x.mag) >= 1 /\ MaxDigits \in Nat
  BY NumberType, WidthAssumption
<1>2. PICK L \in Nat : L = Len(x.mag) /\ L >= 1
  BY <1>1
<1>3. Powers(Val(x))[0] = 1 /\ \A n \in Nat : Powers(Val(x))[n] \in Int
                                 /\ Powers(Val(x))[n + 1] = Val(x) * Powers(Val(x))[n]
  BY <1>1, PowersRule
<1>4. Exact(Products(x)[0], Powers(Val(x))[0])
  BY <1>3, ProductsRule, OneIsOne
<1>5. Raised(x, 1)
  <2>1. PICK one : one = Number(FALSE, <<1>>) /\ Exact(one, 1) /\ Len(one.mag) = 1
    BY OneIsOne
  <2>2. Products(x)[1] = Mul(one, x)
    <3>1. Products(x)[0 + 1] = IF Products(x)[0] = Refused THEN Refused ELSE Mul(Products(x)[0], x)
      BY ProductsRule
    <3>2. Products(x)[0] = one /\ one # Refused
      BY <2>1, ProductsRule, NumberType DEF Exact
    <3>. QED  BY <3>1, <3>2
  <2>3. one \in Numbers /\ ~one.special /\ Val(one) = 1
    BY <2>1 DEF Exact
  <2>4. CASE Len(one.mag) + Len(x.mag) > MaxDigits
    <3>1. Mul(one, x) = Refused
      BY <2>3, <2>4, MulRule
    <3>2. 1 * Len(x.mag) >= MaxDigits
      <4>1. 1 * L = L
        OBVIOUS
      <4>2. 1 + L > MaxDigits
        BY <1>2, <2>1, <2>4
      <4>3. L >= MaxDigits
        BY <1>1, <4>2
      <4>. QED  BY <1>2, <4>1, <4>3
    <3>. QED  BY <2>2, <3>1, <3>2 DEF Raised
  <2>5. CASE ~(Len(one.mag) + Len(x.mag) > MaxDigits)
    <3>1. Exact(Mul(one, x), Val(one) * Val(x))
      BY <2>3, <2>5, MulRule
    <3>2. Val(one) * Val(x) = Val(x) /\ Powers(Val(x))[0 + 1] = Val(x)
      BY <1>1, <1>3, <2>3
    <3>3. Exact(Mul(one, x), Val(x))
      BY <3>1, <3>2
    <3>4. Len(Mul(one, x).mag) <= Len(x.mag)
      BY <3>3, NoLonger
    <3>5. 1 * Len(x.mag) = Len(x.mag)
      BY <1>1
    <3>. QED  BY <2>2, <3>2, <3>3, <3>4, <3>5 DEF Raised
  <2>. QED  BY <2>4, <2>5
<1>6. ASSUME NEW n \in Nat, Raised(x, n + 1) PROVE Raised(x, (n + 1) + 1)
  <2>1. PICK k \in Nat : k = n + 1
    OBVIOUS
  <2>2. PICK t \in Nat : t = k * L
    OBVIOUS
  <2>3. k * Len(x.mag) = t /\ (k + 1) * Len(x.mag) = t + L
    <3>1. (k + 1) * L = t + L
      BY <2>2
    <3>. QED  BY <1>2, <2>2, <3>1
  <2>4. Products(x)[k + 1] = IF Products(x)[k] = Refused THEN Refused ELSE Mul(Products(x)[k], x)
    BY ProductsRule
  <2>5. CASE Products(x)[k] = Refused /\ k * Len(x.mag) >= MaxDigits
    <3>1. (k + 1) * Len(x.mag) >= MaxDigits
      <4>1. t >= MaxDigits
        BY <2>3, <2>5
      <4>2. t + L >= MaxDigits
        BY <1>1, <4>1
      <4>. QED  BY <2>3, <4>2
    <3>. QED  BY <2>1, <2>4, <2>5, <3>1 DEF Raised
  <2>6. CASE Exact(Products(x)[k], Powers(Val(x))[k]) /\ Len(Products(x)[k].mag) <= k * Len(x.mag)
    <3>1. PICK z : z = Products(x)[k] /\ z \in Numbers /\ ~z.special
                   /\ Val(z) = Powers(Val(x))[k] /\ Len(z.mag) \in Nat /\ Len(z.mag) <= t
      <4>1. Products(x)[k] \in Numbers
        BY <2>6 DEF Exact
      <4>2. Len(Products(x)[k].mag) \in Nat
        BY <4>1, NumberType
      <4>. QED  BY <1>2, <2>2, <2>6, <4>1, <4>2 DEF Exact
    <3>2. Products(x)[k + 1] = Mul(z, x)
      BY <2>4, <3>1, NumberType
    <3>3. CASE Len(z.mag) + Len(x.mag) > MaxDigits
      <4>1. Mul(z, x) = Refused
        BY <3>1, <3>3, MulRule
      <4>2. (k + 1) * Len(x.mag) >= MaxDigits
        <5>1. t + L >= MaxDigits
          <6>1. PICK c \in Nat : c = Len(z.mag) /\ c <= t
            BY <3>1
          <6>2. c + L > MaxDigits
            BY <1>2, <3>3, <6>1
          <6>. QED  BY <1>1, <6>1, <6>2
        <5>. QED  BY <2>3, <5>1
      <4>. QED  BY <2>1, <3>2, <4>1, <4>2 DEF Raised
    <3>4. CASE ~(Len(z.mag) + Len(x.mag) > MaxDigits)
      <4>1. Exact(Mul(z, x), Val(z) * Val(x)) /\ Len(Mul(z, x).mag) <= Len(z.mag) + Len(x.mag)
        BY <3>1, <3>4, MulRule
      <4>2. Val(z) * Val(x) = Powers(Val(x))[k + 1]
        BY <1>1, <1>3, <3>1
      <4>3. Mul(z, x) \in Numbers
        BY <4>1 DEF Exact
      <4>4. Len(Mul(z, x).mag) \in Nat
        BY <4>3, NumberType
      <4>5. Len(Mul(z, x).mag) <= (k + 1) * Len(x.mag)
        <5>1. Len(Mul(z, x).mag) <= t + L
          <6>1. PICK c \in Nat, e \in Nat : c = Len(z.mag) /\ c <= t /\ e = Len(Mul(z, x).mag)
            BY <3>1, <4>4
          <6>2. e <= c + L
            BY <1>2, <4>1, <6>1
          <6>3. e <= t + L
            BY <6>1, <6>2
          <6>. QED  BY <6>1, <6>3
        <5>. QED  BY <2>3, <5>1
      <4>. QED  BY <2>1, <3>2, <4>1, <4>2, <4>5 DEF Raised
    <3>. QED  BY <3>3, <3>4
  <2>. QED  BY <1>6, <2>1, <2>5, <2>6 DEF Raised
<1>7. \A n \in Nat : Raised(x, n + 1)
  <2> DEFINE T == {n \in Nat : Raised(x, n + 1)}
  <2>1. 0 \in T
    BY <1>5
  <2>2. ASSUME NEW n \in Nat, n \in T PROVE n + 1 \in T
    BY <1>6, <2>2
  <2> HIDE DEF T
  <2>3. \A n \in Nat : n \in T
    BY <2>1, <2>2, FromZeroUp
  <2>. QED  BY <2>3 DEF T
<1>. QED  BY <1>4, <1>7

\* checked_pow, its exponent read by to_u32.
LEMMA PowRule ==
  ASSUME NEW x \in Numbers, NEW y \in Numbers
  PROVE  \/ /\ Pow(x, ToExponent(y)) = Refused
            /\ \/ x.special \/ y.special \/ y.neg \/ Val(y) > MaxExponent
               \/ Val(y) * Len(x.mag) >= MaxDigits
         \/ /\ ~x.special /\ ~y.special
            /\ Exact(Pow(x, ToExponent(y)), Powers(Val(x))[Val(y)])
<1>1. CASE x.special \/ ToExponent(y) = Refused
  <2>1. Pow(x, ToExponent(y)) = Refused
    BY <1>1 DEF Pow
  <2>2. \/ ToExponent(y) = Refused /\ (y.special \/ y.neg \/ Val(y) > MaxExponent)
        \/ ToExponent(y) \in Nat
    BY ToExponentRule
  <2>3. Refused \notin Nat
    BY RefusedAssumption
  <2>. QED  BY <1>1, <2>1, <2>2, <2>3
<1>2. CASE ~(x.special \/ ToExponent(y) = Refused)
  <2>1. PICK n \in Nat : n = ToExponent(y) /\ n = Val(y) /\ ~y.special
    BY <1>2, ToExponentRule
  <2>2. Pow(x, n) = IF n > MaxExponent THEN Refused ELSE Products(x)[n]
    BY <1>2, <2>1 DEF Pow
  <2>3. CASE n > MaxExponent
    BY <2>1, <2>2, <2>3
  <2>4. CASE ~(n > MaxExponent) /\ n = 0
    BY <1>2, <2>1, <2>2, <2>4, ProductsExact
  <2>5. CASE ~(n > MaxExponent) /\ n # 0
    <3>1. PICK k \in Nat : n = k + 1
      BY <2>5
    <3>2. Raised(x, n)
      BY <1>2, <3>1, ProductsExact
    <3>. QED  BY <1>2, <2>1, <2>2, <2>5, <3>2 DEF Raised
  <2>. QED  BY <2>3, <2>4, <2>5
<1>. QED  BY <1>1, <1>2

\* Half of what the digits of an i64 reach.
LEMMA WideRule ==
  /\ WideDigits \in Nat \ {0} /\ WideDigits <= MaxDigits /\ MaxDigits \in Nat
  /\ Weight[WideDigits] \in Nat
  /\ WideMax \in Int /\ WideMax + 1 \in Nat \ {0} /\ WideMax + 1 < Weight[WideDigits]
<1>1. WideDigits \in Nat /\ WideDigits >= 1 /\ WideDigits <= MaxDigits /\ MaxDigits \in Nat
  BY WidthAssumption
<1>2. PICK k \in Nat : WideDigits = k + 1
  BY <1>1
<1>3. Weight[k] \in Nat /\ Weight[k] > 0 /\ Weight[k + 1] = Base * Weight[k] /\ Base \in Nat /\ Base >= 2
  BY WeightRule, WeightType, BaseAssumption
<1>4. PICK W \in Nat : W = Weight[WideDigits] /\ W >= 2
  <2>1. PICK v \in Nat : v = Weight[k] /\ v >= 1
    BY <1>3
  <2>2. 2 \in Nat /\ 2 * v <= Base * v
    BY <1>3, ProductOrder
  <2>3. Base * v \in Nat
    BY <1>3
  <2>. QED  BY <1>2, <1>3, <2>1, <2>2, <2>3
<1>5. PICK h \in Int : h = W \div 2 /\ 2 * h <= W /\ W < 2 * h + 2
  OBVIOUS
<1>6. h \in Nat \ {0} /\ h < W
  BY <1>4, <1>5
<1>7. WideMax = h - 1
  BY <1>4, <1>5 DEF WideMax
<1>. QED  BY <1>1, <1>4, <1>6, <1>7

\* to_i64: every integer of two's complement, and no other.
LEMMA ToI64Rule ==
  ASSUME NEW x \in Numbers
  PROVE  \/ ToI64(x) = Refused /\ (x.special \/ Val(x) \notin (-WideMax - 1)..WideMax)
         \/ ~x.special /\ ToI64(x) = Val(x) /\ Val(x) \in (-WideMax - 1)..WideMax
<1>1. x.mag \in Magnitudes /\ x.neg \in BOOLEAN
  BY NumberType
<1>2. PICK v \in Nat : v = Value(x.mag)
  BY NumberType
<1>3. PICK h \in Nat \ {0}, W \in Nat :
        /\ h = WideMax + 1 /\ W = Weight[WideDigits] /\ h < W /\ WideMax = h - 1
        /\ WideDigits \in Nat
  BY WideRule
<1>4. -WideMax - 1 = -h /\ -h \in Int /\ h - 1 \in Int
  BY <1>3
<1>5. CASE x.special
  BY <1>5 DEF ToI64
<1>6. CASE ~x.special /\ \E i \in (WideDigits + 1)..Len(x.mag) : x.mag[i] # 0
  <2>1. ToI64(x) = Refused
    BY <1>6 DEF ToI64
  <2>2. v >= W
    BY <1>1, <1>2, <1>3, <1>6, HighDigit
  <2>3. Val(x) \notin (-h)..(h - 1)
    BY <1>1, <1>2, <1>3, <2>2 DEF Val
  <2>. QED  BY <1>3, <1>4, <2>1, <2>3
<1>7. CASE ~x.special /\ ~\E i \in (WideDigits + 1)..Len(x.mag) : x.mag[i] # 0
  <2>1. Lowest(x.mag)[WideDigits] = v
    BY <1>1, <1>2, <1>3, <1>7, NoHighDigit
  <2>2. ToI64(x) = IF x.neg THEN IF v > h THEN Refused ELSE -v
                   ELSE IF v > h - 1 THEN Refused ELSE v
    BY <1>3, <1>7, <2>1 DEF ToI64
  <2>3. CASE x.neg
    <3>1. Val(x) = -v
      BY <1>2, <2>3 DEF Val
    <3>2. CASE v > h
      <4>1. ToI64(x) = Refused
        BY <2>2, <2>3, <3>2
      <4>2. -v \notin (-h)..(h - 1)
        BY <3>2
      <4>. QED  BY <1>3, <1>4, <3>1, <4>1, <4>2
    <3>3. CASE ~(v > h)
      <4>1. ToI64(x) = -v
        BY <2>2, <2>3, <3>3
      <4>2. -v \in (-h)..(h - 1)
        BY <3>3
      <4>. QED  BY <1>3, <1>4, <1>7, <3>1, <4>1, <4>2
    <3>. QED  BY <3>2, <3>3
  <2>4. CASE ~x.neg
    <3>1. Val(x) = v
      BY <1>2, <2>4 DEF Val
    <3>2. CASE v > h - 1
      <4>1. ToI64(x) = Refused
        BY <2>2, <2>4, <3>2
      <4>2. v \notin (-h)..(h - 1)
        BY <3>2
      <4>. QED  BY <1>3, <1>4, <3>1, <4>1, <4>2
    <3>3. CASE ~(v > h - 1)
      <4>1. ToI64(x) = v
        BY <2>2, <2>4, <3>3
      <4>2. v \in (-h)..(h - 1)
        BY <3>3
      <4>. QED  BY <1>3, <1>4, <1>7, <3>1, <4>1, <4>2
    <3>. QED  BY <3>2, <3>3
  <2>. QED  BY <1>1, <2>3, <2>4
<1>. QED  BY <1>5, <1>6, <1>7

\* from_i64: the digits of the value, as many as it takes.
LEMMA FromI64Rule ==
  ASSUME NEW v \in (-WideMax - 1)..WideMax
  PROVE  Exact(FromI64(v), v)
<1>1. WideDigits - 1 \in Nat /\ WideDigits \in Nat /\ WideDigits <= MaxDigits /\ MaxDigits \in Nat
  BY WideRule
<1>2. PICK u \in Nat : u = (IF v < 0 THEN -v ELSE v) /\ u < Weight[WideDigits]
  <2>1. PICK h \in Nat, W \in Nat :
          h = WideMax + 1 /\ W = Weight[WideDigits] /\ h < W /\ WideMax = h - 1
    BY WideRule
  <2>2. v \in Int /\ -h <= v /\ v <= h - 1
    BY <2>1
  <2>3. CASE v < 0
    <3>1. -v \in Nat /\ -v < W
      BY <2>1, <2>2, <2>3
    <3>. QED  BY <2>1, <2>3, <3>1
  <2>4. CASE ~(v < 0)
    <3>1. v \in Nat /\ v < W
      BY <2>1, <2>2, <2>4
    <3>. QED  BY <2>1, <2>4, <3>1
  <2>. QED  BY <2>3, <2>4
<1>3. PICK z : z = Zeros(WideDigits - 1) /\ z \in Seq(Int) /\ Len(z) = WideDigits - 1 /\ Value(z) = 0
  <2>1. PICK n \in Nat : n = WideDigits - 1
    BY <1>1
  <2>2. Zeros(n) \in Seq(Int) /\ Len(Zeros(n)) = n
    BY DEF Zeros
  <2>. QED  BY <2>1, <2>2, ZerosAreNothing
<1>4. PICK s : s = <<u>> \o z /\ s \in Seq(Int) /\ Len(s) = WideDigits /\ Value(s) = u
  <2>1. u \in Int
    OBVIOUS
  <2>2. <<u>> \o z \in Seq(Int) /\ Len(<<u>> \o z) = Len(z) + 1
    <3>1. PICK S : S = Int
      OBVIOUS
    <3>2. u \in S /\ z \in Seq(S)
      BY <1>3, <2>1, <3>1
    <3>3. <<u>> \o z \in Seq(S) /\ Len(<<u>> \o z) = Len(z) + 1
      BY <3>2, PrependType
    <3>. QED  BY <3>1, <3>3
  <2>3. Value(<<u>> \o z) = u + Base * Value(z)
    BY <1>3, <2>1, PrependValue
  <2>4. u + Base * Value(z) = u
    BY <1>3, BaseAssumption
  <2>5. Len(z) + 1 = WideDigits
    BY <1>1, <1>3
  <2>. QED  BY <2>2, <2>3, <2>4, <2>5
<1>5. PICK m : m = DigitsOf(u) /\ Trimmed(m) /\ Len(m) <= WideDigits /\ Value(m) = u
  <2>1. DigitsOf(u) = Trim(Carried(s))
    BY <1>3, <1>4 DEF DigitsOf
  <2>2. Len(s) > 0 /\ 0 <= Value(s) /\ Value(s) < Weight[Len(s)]
    BY <1>1, <1>2, <1>4
  <2>. QED  BY <1>4, <2>1, <2>2, TrimmedExact
<1>6. m \in Magnitudes /\ Trim(m) = m /\ Len(m) \in Nat
  BY <1>5, MagnitudeType DEF Trimmed
<1>7. Len(m) <= MaxDigits
  BY <1>1, <1>5, <1>6
<1>8. v \in Int
  <2>1. PICK h \in Int : h = WideMax /\ -h - 1 \in Int
    BY WideRule
  <2>. QED  BY <2>1
<1>9. PICK neg \in BOOLEAN : neg = (v < 0)
  <2>1. (v < 0) \in BOOLEAN
    BY <1>8
  <2>. QED  BY <2>1
<1>10. PICK r : r = FromI64(v) /\ r = Number(neg, m)
  <2>1. FromI64(v) = Number(v < 0, DigitsOf(IF v < 0 THEN -v ELSE v))
    BY Zenon DEF FromI64
  <2>2. FromI64(v) = Number(neg, DigitsOf(u))
    BY <1>2, <1>9, <2>1, Zenon
  <2>. QED  BY <1>5, <2>2
<1>11. r \in Numbers /\ r.neg = neg /\ r.mag = m /\ ~r.special /\ r.unit = NoUnit
  BY <1>6, <1>7, <1>10, NumberIsOne
<1>12. IsZeroMag(m) <=> u = 0
  BY <1>5, <1>6, ZeroValue
<1>13. CASE neg = TRUE
  <2>1. v < 0 /\ u = -v /\ u # 0
    <3>1. v < 0
      BY <1>9, <1>13, Zenon
    <3>2. u = -v
      BY <1>2, <3>1, Zenon
    <3>. QED  BY <1>8, <3>1, <3>2
  <2>2. Val(r) = v
    BY <1>5, <1>11, <1>8, <1>13, <2>1 DEF Val
  <2>3. OneSpelling(r)
    BY <1>6, <1>11, <1>12, <2>1 DEF OneSpelling
  <2>. QED  BY <1>10, <1>11, <2>2, <2>3 DEF Exact
<1>14. CASE neg = FALSE
  <2>1. ~(v < 0) /\ u = v
    BY <1>2, <1>9, <1>8, <1>14
  <2>2. Val(r) = v
    BY <1>5, <1>11, <1>14, <2>1 DEF Val
  <2>3. OneSpelling(r)
    BY <1>6, <1>11, <1>14 DEF OneSpelling
  <2>. QED  BY <1>10, <1>11, <2>2, <2>3 DEF Exact
<1>. QED  BY <1>13, <1>14

-----------------------------------------------------------------------------
(***************************************************************************)
(* The operations, and the calls.                                          *)
(***************************************************************************)

\* A sum keeps the operands' unit, and its spelling.
LEMMA WithUnitRule ==
  ASSUME NEW r, NEW v, Exact(r, v), NEW u \in Units
  PROVE  /\ WithUnit(r, u) \in Numbers /\ WithUnit(r, u).unit = u
         /\ Val(WithUnit(r, u)) = v /\ OneSpelling(WithUnit(r, u))
<1>1. r \in Numbers /\ r # Refused /\ OneSpelling(r) /\ Val(r) = v
  BY NumberType DEF Exact
<1>2. PICK s : s = WithUnit(r, u) /\ s = [r EXCEPT !.unit = u]
  BY <1>1 DEF WithUnit
<1>3. s \in Numbers /\ s.unit = u /\ s.mag = r.mag /\ s.neg = r.neg
  BY <1>1, <1>2 DEF Numbers
<1>4. Val(s) = Val(r) /\ OneSpelling(s)
  BY <1>1, <1>3 DEF Val, OneSpelling
<1>. QED  BY <1>1, <1>2, <1>3, <1>4

\* What one call promises.
Kept(op, x, y, r) ==
  \/ r = Refused /\ MayRefuse(op, x, y)
  \/ /\ r \in Numbers /\ ExactAnswer(op, x, y, r)
     /\ op # "neg" => OneSpelling(r)

\* Sums: a common unit, and the digits.
LEMMA SumKept ==
  ASSUME NEW x \in Numbers, NEW y \in Numbers, NEW op \in {"add", "sub"}
  PROVE  Kept(op, x, y, Checked(op, x, y))
<1>1. x.unit \in Units
  BY NumberType
<1>2. PICK s : s = IF op = "add" THEN Add(x, y) ELSE Sub(x, y)
  OBVIOUS
<1>3. PICK v : v = IF op = "add" THEN Val(x) + Val(y) ELSE Val(x) - Val(y)
  OBVIOUS
<1>4. Checked(op, x, y) = IF x.unit # y.unit THEN Refused ELSE WithUnit(s, x.unit)
  BY <1>2 DEF Checked
<1>5. IF x.special \/ y.special THEN s = Refused
      ELSE \/ s = Refused /\ MaxDigits \in {Len(x.mag), Len(y.mag)}
           \/ Exact(s, v)
  <2>1. CASE op = "add"
    BY <1>2, <1>3, <2>1, AddRule
  <2>2. CASE op = "sub"
    BY <1>2, <1>3, <2>2, SubRule
  <2>. QED  BY <2>1, <2>2
<1>6. CASE x.unit # y.unit
  BY <1>4, <1>6 DEF Kept, MayRefuse
<1>7. CASE x.unit = y.unit /\ s = Refused
  <2>1. Checked(op, x, y) = Refused
    BY <1>4, <1>7 DEF WithUnit
  <2>2. x.special \/ y.special \/ MaxDigits \in {Len(x.mag), Len(y.mag)}
    <3>1. CASE ~(x.special \/ y.special)
      <4>1. s \in Numbers => s # Refused
        BY NumberType
      <4>. QED  BY <1>5, <1>7, <3>1, <4>1 DEF Exact
    <3>. QED  BY <3>1
  <2>3. MayRefuse(op, x, y)
    BY <2>2 DEF MayRefuse
  <2>. QED  BY <2>1, <2>3 DEF Kept
<1>8. CASE x.unit = y.unit /\ s # Refused
  <2>1. Exact(s, v)
    BY <1>5, <1>8
  <2>2. PICK r : /\ r = WithUnit(s, x.unit) /\ r = Checked(op, x, y)
                 /\ r \in Numbers /\ r.unit = x.unit /\ Val(r) = v /\ OneSpelling(r)
    BY <1>1, <1>4, <1>8, <2>1, WithUnitRule
  <2>3. ExactAnswer(op, x, y, r)
    BY <1>3, <1>8, <2>2 DEF ExactAnswer
  <2>. QED  BY <2>2, <2>3 DEF Kept
<1>. QED  BY <1>6, <1>7, <1>8

\* checked_neg.
LEMMA NegKept ==
  ASSUME NEW x \in Numbers, NEW y \in Numbers
  PROVE  Kept("neg", x, y, Checked("neg", x, y))
<1>1. PICK r : r = Checked("neg", x, y) /\ r = Negate(x)
  BY DEF Checked
<1>2. CASE x.special
  BY <1>1, <1>2, NegateRule DEF Kept, MayRefuse
<1>3. CASE ~x.special
  <2>1. r \in Numbers /\ Val(r) = -Val(x)
    BY <1>1, <1>3, NegateRule
  <2>2. ExactAnswer("neg", x, y, r)
    BY <2>1 DEF ExactAnswer
  <2>. QED  BY <1>1, <2>1, <2>2 DEF Kept
<1>. QED  BY <1>2, <1>3

\* to_i64 and from_i64.
LEMMA I64Kept ==
  ASSUME NEW x \in Numbers, NEW y \in Numbers
  PROVE  Kept("i64", x, y, Checked("i64", x, y))
<1>1. Checked("i64", x, y) = IF ToI64(x) = Refused THEN Refused ELSE FromI64(ToI64(x))
  BY DEF Checked
<1>2. CASE ToI64(x) = Refused /\ (x.special \/ Val(x) \notin (-WideMax - 1)..WideMax)
  BY <1>1, <1>2 DEF Kept, MayRefuse
<1>3. CASE ToI64(x) = Val(x) /\ Val(x) \in (-WideMax - 1)..WideMax
  <2>1. Val(x) \in Int /\ Refused \notin Int
    BY NumberType, RefusedAssumption
  <2>2. PICK r : r = FromI64(Val(x)) /\ r = Checked("i64", x, y)
    BY <1>1, <1>3, <2>1
  <2>3. Exact(r, Val(x))
    BY <1>3, <2>2, FromI64Rule
  <2>4. ExactAnswer("i64", x, y, r)
    BY <2>3 DEF ExactAnswer, Exact
  <2>. QED  BY <2>2, <2>3, <2>4 DEF Kept, Exact
<1>. QED  BY <1>2, <1>3, ToI64Rule

\* to_le_bytes_signed and from_le_bytes_signed.
LEMMA BytesKept ==
  ASSUME NEW x \in Numbers, NEW y \in Numbers
  PROVE  Kept("bytes", x, y, Checked("bytes", x, y))
<1>1. PICK r : r = Checked("bytes", x, y) /\ r = ThroughBytes(x)
  BY DEF Checked
<1>2. CASE x.special
  BY <1>1, <1>2, ThroughBytesRule DEF Kept, MayRefuse
<1>3. CASE ~x.special
  <2>1. Exact(r, Val(x))
    BY <1>1, <1>3, ThroughBytesRule
  <2>2. ExactAnswer("bytes", x, y, r)
    BY <2>1 DEF ExactAnswer, Exact
  <2>. QED  BY <1>1, <2>1, <2>2 DEF Kept, Exact
<1>. QED  BY <1>2, <1>3

\* The operations that refuse a unit keep their promise once neither operand has one.
LEMMA UnitlessKept ==
  ASSUME NEW x \in Numbers, NEW y \in Numbers,
         NEW op \in {"mul", "div_exact", "div_floor", "rem", "pow"},
         Unitless(x, y) => Kept(op, x, y, OfUnitless(op, x, y))
  PROVE  Kept(op, x, y, Checked(op, x, y))
<1>1. Checked(op, x, y) = IF Unitless(x, y) THEN OfUnitless(op, x, y) ELSE Refused
  BY DEF Checked
<1>2. CASE Unitless(x, y)
  BY <1>1, <1>2
<1>3. CASE ~Unitless(x, y)
  BY <1>1, <1>3 DEF Kept, MayRefuse
<1>. QED  BY <1>2, <1>3

\* checked_mul.
LEMMA MulKept ==
  ASSUME NEW x \in Numbers, NEW y \in Numbers
  PROVE  Kept("mul", x, y, OfUnitless("mul", x, y))
<1>1. PICK r : r = OfUnitless("mul", x, y) /\ r = Mul(x, y)
  BY DEF OfUnitless
<1>2. CASE x.special \/ y.special
  BY <1>1, <1>2, MulRule DEF Kept, MayRefuse
<1>3. CASE ~(x.special \/ y.special) /\ Len(x.mag) + Len(y.mag) > MaxDigits
  BY <1>1, <1>3, MulRule DEF Kept, MayRefuse
<1>4. CASE ~(x.special \/ y.special) /\ ~(Len(x.mag) + Len(y.mag) > MaxDigits)
  <2>1. Exact(r, Val(x) * Val(y))
    BY <1>1, <1>4, MulRule
  <2>2. ExactAnswer("mul", x, y, r)
    BY <2>1 DEF ExactAnswer, Exact
  <2>. QED  BY <1>1, <2>1, <2>2 DEF Kept, Exact
<1>. QED  BY <1>2, <1>3, <1>4

\* checked_div_exact.
LEMMA DivExactKept ==
  ASSUME NEW x \in Numbers, NEW y \in Numbers
  PROVE  Kept("div_exact", x, y, OfUnitless("div_exact", x, y))
<1>1. PICK r : r = OfUnitless("div_exact", x, y) /\ r = DivExact(x, y)
  BY DEF OfUnitless
<1>2. CASE x.special \/ y.special \/ IsZero(y)
  BY <1>1, <1>2, DivExactRule DEF Kept, MayRefuse
<1>3. CASE r = Refused /\ Val(x) % Abs(Val(y)) # 0
  BY <1>1, <1>3 DEF Kept, MayRefuse
<1>4. CASE \E v \in Int : Exact(r, v) /\ v * Val(y) = Val(x)
  <2>1. PICK v \in Int : Exact(r, v) /\ v * Val(y) = Val(x)
    BY <1>4
  <2>2. ExactAnswer("div_exact", x, y, r)
    BY <2>1 DEF ExactAnswer, Exact
  <2>. QED  BY <1>1, <2>1, <2>2 DEF Kept, Exact
<1>. QED  BY <1>1, <1>2, <1>3, <1>4, DivExactRule

\* checked_div_floor and checked_rem.
LEMMA DivFloorKept ==
  ASSUME NEW x \in Numbers, NEW y \in Numbers
  PROVE  /\ Kept("div_floor", x, y, OfUnitless("div_floor", x, y))
         /\ Kept("rem", x, y, OfUnitless("rem", x, y))
<1>1. PICK Q, R : /\ Q = OfUnitless("div_floor", x, y) /\ Q = DivFloor(x, y, "quotient")
                  /\ R = OfUnitless("rem", x, y) /\ R = DivFloor(x, y, "remainder")
  BY DEF OfUnitless
<1>2. CASE x.special \/ y.special \/ IsZero(y)
  <2>1. Q = Refused /\ R = Refused
    BY <1>1, <1>2 DEF DivFloor, PlainBoth
  <2>. QED  BY <1>1, <1>2, <2>1 DEF Kept, MayRefuse
<1>3. CASE Len(x.mag) = MaxDigits /\ Q = Refused /\ R = Refused
  BY <1>1, <1>3 DEF Kept, MayRefuse
<1>4. CASE \E vq \in Int, vr \in Int : Floored(x, y, Q, R, vq, vr)
  <2>1. PICK vq \in Int, vr \in Int : Floored(x, y, Q, R, vq, vr)
    BY <1>4
  <2>2. Exact(Q, vq) /\ Exact(R, vr) /\ Val(x) = vq * Val(y) + vr
    BY <2>1 DEF Floored
  <2>3. /\ \E m \in 0..(Abs(Val(y)) - 1) : vr = IF Val(y) < 0 THEN -m ELSE m
        /\ (Val(x) - vr) % Abs(Val(y)) = 0
        /\ Abs(vr) < Abs(Val(y))
        /\ vr # 0 => (vr < 0) = (Val(y) < 0)
    BY <2>1, FlooredRemainder
  <2>4. ExactAnswer("div_floor", x, y, Q)
    <3>1. \E m \in 0..(Abs(Val(y)) - 1) : Val(x) = vq * Val(y) + (IF Val(y) < 0 THEN -m ELSE m)
      BY <2>2, <2>3, Zenon
    <3>2. Val(Q) = vq
      BY <2>2 DEF Exact
    <3>3. \E m \in 0..(Abs(Val(y)) - 1) : Val(x) = Val(Q) * Val(y) + (IF Val(y) < 0 THEN -m ELSE m)
      BY <3>1, <3>2, Zenon
    <3>. QED  BY <3>3 DEF ExactAnswer
  <2>5. ExactAnswer("rem", x, y, R)
    <3>1. Val(R) = vr
      BY <2>2 DEF Exact
    <3>. QED  BY <2>3, <3>1 DEF ExactAnswer
  <2>. QED  BY <1>1, <2>2, <2>4, <2>5 DEF Kept, Exact
<1>. QED  BY <1>1, <1>2, <1>3, <1>4, DivFloorRule

\* checked_pow.
LEMMA PowKept ==
  ASSUME NEW x \in Numbers, NEW y \in Numbers
  PROVE  Kept("pow", x, y, OfUnitless("pow", x, y))
<1>1. PICK r : r = OfUnitless("pow", x, y) /\ r = Pow(x, ToExponent(y))
  BY DEF OfUnitless
<1>2. CASE /\ r = Refused
           /\ \/ x.special \/ y.special \/ y.neg \/ Val(y) > MaxExponent
              \/ Val(y) * Len(x.mag) >= MaxDigits
  BY <1>1, <1>2 DEF Kept, MayRefuse
<1>3. CASE Exact(r, Powers(Val(x))[Val(y)])
  <2>1. ExactAnswer("pow", x, y, r)
    BY <1>3 DEF ExactAnswer, Exact
  <2>. QED  BY <1>1, <1>3, <2>1 DEF Kept, Exact
<1>. QED  BY <1>1, <1>2, <1>3, PowRule

\* Every operation keeps its promise.
LEMMA CheckedKept ==
  ASSUME NEW x \in Numbers, NEW y \in Numbers, NEW op \in Operations
  PROVE  Kept(op, x, y, Checked(op, x, y))
<1>1. CASE op \in {"add", "sub"}
  BY <1>1, SumKept
<1>2. CASE op = "neg"
  BY <1>2, NegKept
<1>3. CASE op = "i64"
  BY <1>3, I64Kept
<1>4. CASE op = "bytes"
  BY <1>4, BytesKept
<1>5. CASE op = "mul"
  BY <1>5, MulKept, UnitlessKept
<1>6. CASE op = "div_exact"
  BY <1>6, DivExactKept, UnitlessKept
<1>7. CASE op \in {"div_floor", "rem"}
  BY <1>7, DivFloorKept, UnitlessKept
<1>8. CASE op = "pow"
  BY <1>8, PowKept, UnitlessKept
<1>. QED  BY <1>1, <1>2, <1>3, <1>4, <1>5, <1>6, <1>7, <1>8 DEF Operations

\* Between calls there is a number; after a call, also what the call was asked and
\* what the code makes of it.
IntegerInv ==
  /\ reg \in Numbers
  /\ \/ last = NoCall
     \/ /\ last.op \in Operations /\ last.x = reg /\ last.y \in Operands
        /\ last.result = Checked(last.op, last.x, last.y)

\* So does the call last made.
LEMMA CallsKept ==
  ASSUME IntegerInv, last.op # "none"
  PROVE  /\ last.x \in Numbers /\ last.y \in Numbers /\ last.x = reg
         /\ last.op \in Operations
         /\ Kept(last.op, last.x, last.y, last.result)
<1>1. last # NoCall
  BY DEF NoCall
<1>2. /\ last.op \in Operations /\ last.x = reg /\ last.y \in Operands
      /\ last.result = Checked(last.op, last.x, last.y)
  BY <1>1 DEF IntegerInv
<1>3. last.x \in Numbers /\ last.y \in Numbers
  BY <1>2, StartsAssumption DEF IntegerInv
<1>. QED  BY <1>2, <1>3, CheckedKept

\* The invariant holds of every sequence of calls.
LEMMA IntegerInvHolds == IntegerSpec => []IntegerInv
<1>1. IntegerInit => IntegerInv
  BY StartsAssumption DEF IntegerInit, IntegerInv
<1>2. IntegerInv /\ [IntegerNext]_integerVars => IntegerInv'
  <2> SUFFICES ASSUME IntegerInv, [IntegerNext]_integerVars PROVE IntegerInv'
    OBVIOUS
  <2>1. CASE Call
    <3>1. PICK op \in Operations, y \in Operands :
            last' = [op |-> op, x |-> reg, y |-> y, result |-> Checked(op, reg, y)]
      BY <2>1 DEF Call
    <3>2. reg' = reg /\ reg \in Numbers
      BY <2>1 DEF Call, IntegerInv
    <3>. QED  BY <3>1, <3>2 DEF IntegerInv
  <2>2. CASE Keep
    <3>1. Kept(last.op, last.x, last.y, last.result)
      BY <2>2, CallsKept DEF Keep
    <3>2. reg' \in Numbers
      BY <2>2, <3>1 DEF Keep, Answered, Kept, IntegerInv
    <3>. QED  BY <2>2, <3>2 DEF Keep, IntegerInv
  <2>3. CASE UNCHANGED integerVars
    BY <2>3 DEF IntegerInv, integerVars
  <2>. QED  BY <2>1, <2>2, <2>3 DEF IntegerNext
<1>. QED  BY <1>1, <1>2, PTL DEF IntegerSpec

\* Every checked operation of every sequence of calls is exact, and refuses only what
\* it may: for every base, digit cap and operand (integer.rs:263-700).
THEOREM IntegersExact == IntegerSpec => []ExactOrRefused
<1>1. IntegerInv => ExactOrRefused
  <2> SUFFICES ASSUME IntegerInv, last.op # "none"
               PROVE  IF last.result = Refused THEN MayRefuse(last.op, last.x, last.y)
                      ELSE ExactAnswer(last.op, last.x, last.y, last.result)
    BY DEF ExactOrRefused
  <2>1. Kept(last.op, last.x, last.y, last.result)
    BY CallsKept
  <2>2. last.result \in Numbers => last.result # Refused
    BY NumberType
  <2>. QED  BY <2>1, <2>2 DEF Kept
<1>. QED  BY <1>1, IntegerInvHolds, PTL

\* Results have one spelling, and the comparison is the order of the integers however
\* its operands are spelled (integer.rs:230-256, 587-632).
THEOREM OneSpellingEach == IntegerSpec => []SpellingsAgree
<1>1. IntegerInv => SpellingsAgree
  <2> SUFFICES ASSUME IntegerInv PROVE SpellingsAgree
    OBVIOUS
  <2>1. reg \in Numbers
    BY DEF IntegerInv
  <2>2. CASE last.op # "none"
    <3>1. last.x \in Numbers /\ last.y \in Numbers /\ Kept(last.op, last.x, last.y, last.result)
      BY <2>2, CallsKept
    <3>2. Answered /\ last.op # "neg" => OneSpelling(last.result)
      BY <3>1 DEF Kept, Answered
    <3>3. IF last.x.special \/ last.y.special THEN CmpInteger(last.x, last.y) = Refused
          ELSE CmpInteger(last.x, last.y)
                 = IF Val(last.x) < Val(last.y) THEN -1 ELSE IF Val(last.x) > Val(last.y) THEN 1 ELSE 0
      BY <3>1, CmpRule
    <3>. QED  BY <2>1, <3>2, <3>3 DEF SpellingsAgree
  <2>3. CASE ~(last.op # "none")
    BY <2>1, <2>3 DEF SpellingsAgree, Answered
  <2>. QED  BY <2>2, <2>3
<1>. QED  BY <1>1, IntegerInvHolds, PTL
=============================================================================
