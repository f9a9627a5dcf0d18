------------------------------ MODULE Simplifier ------------------------------
(***************************************************************************)
(* `ArithmaIterativeSimplifier::simplify`: bottom-up passes over a tree    *)
(* until a pass reports no change or the budget is spent.  A pass takes    *)
(* the tree apart: detached nodes wait in Rebuild frames on the work       *)
(* stack, finished subtrees on the output stack.  One step is one turn of  *)
(* the loop of `fold_once`.                                                *)
(*                                                                         *)
(* What a tree is, and what `rewrite` makes of a node, are parameters:     *)
(* SimplifyRules has them.                                                 *)
(***************************************************************************)
EXTENDS FrameStacks

CONSTANTS
  Kids(_),               \* the children of a tree, in order
  Shell(_),              \* what take_children leaves of it
  PutChildren(_, _),     \* a shell with children put in
  Rewritten(_),          \* what rewrite makes of a node: [node, changed]
  Stub,                  \* ArithmaExpression::zero(), in the caller's place
  Nodes(_), Depth(_),    \* what measure counts
  TurnsTo(_),            \* the turns until a tree's first i children are done
  Weight(_),             \* a bound on the turns a tree takes that no rule raises
  Fold(_),               \* what a pass should make of a tree: [node, changed]
  ValueOf(_, _),         \* what a tree denotes under a binding, or
  Undefined,             \* ... that it denotes nothing there
  Bindings,              \* the bindings under which values are compared
  Inputs,                \* the trees simplified
  Requests,              \* the values of config.max_iterations
  MaxIterationCeiling,   \* MAX_ITERATION_CEILING
  MaxNodes, MaxDepth     \* MAX_NODES, MAX_DEPTH

\* The trees that simplifying an input can meet, each called by its root.
Tree == Node

\* The turns of the loop that a tree takes: a leaf one, any other node two.
Turns == [t \in Tree |-> IF Kids(t) = <<>> THEN 1 ELSE TurnsTo(t)[Len(Kids(t))] + 1]

\* A node, its children folded, and not yet rewritten.
Assembled(t) == PutChildren(Shell(t), [i \in 1..Len(Kids(t)) |-> Fold(Kids(t)[i]).node])

\* u denotes what t denotes, where that is anything.
Agree(t, u, env) == ValueOf(t, env) # Undefined => ValueOf(u, env) = ValueOf(t, env)

ASSUME LimitsAssumption ==
  /\ Requests \subseteq Nat /\ MaxIterationCeiling \in Nat
  /\ MaxNodes \in Nat /\ MaxDepth \in Nat
ASSUME TreeAssumption ==
  /\ Inputs \subseteq Tree /\ Stub \in Tree
  /\ \A t \in Tree : Kids(t) \in Seq(Tree) /\ PutChildren(Shell(t), Kids(t)) = t
ASSUME TurnsAssumption ==
  \A t \in Tree : PrefixCosts(TurnsTo(t), Turns, Kids(t))

\* A pass, by structure: the children first, then the node they leave.
ASSUME FoldAssumption ==
  \A t \in Tree :
    /\ Fold(t) \in [node : Tree, changed : BOOLEAN]
    /\ Rewritten(Assembled(t)).changed \in BOOLEAN
    /\ Fold(t).node = Rewritten(Assembled(t)).node
    /\ Fold(t).changed <=> \/ Rewritten(Assembled(t)).changed
                           \/ \E i \in 1..Len(Kids(t)) : Fold(Kids(t)[i]).changed

\* What the rules owe at one node.  They report a change if they make one; ...
ASSUME HonestAssumption ==
  \A t \in Tree :
    ~Rewritten(Assembled(t)).changed => Rewritten(Assembled(t)).node = Assembled(t)

\* ... keep the value of the node, which depends on its children through theirs; ...
ASSUME ValueAssumption ==
  \A t \in Tree : \A env \in Bindings :
    /\ (\A i \in 1..Len(Kids(t)) : Agree(Kids(t)[i], Fold(Kids(t)[i]).node, env))
         => Agree(t, Assembled(t), env)
    /\ Agree(Assembled(t), Rewritten(Assembled(t)).node, env)

\* ... and may enlarge a tree, x + x + y + y to 2 * x + 2 * y and -f(y) + x + x to
\* 2 * x + -1 * f(y), but not past its weight, which is at most three for a node.
ASSUME WeightAssumption ==
  \A t \in Tree :
    /\ Nodes(t) \in Nat /\ Weight(t) \in Nat /\ Weight(Assembled(t)) \in Nat
    /\ Turns[t] <= Weight(t) /\ Weight(t) <= 3 * Nodes(t)
    /\ (\A i \in 1..Len(Kids(t)) : Weight(Fold(Kids(t)[i]).node) <= Weight(Kids(t)[i]))
         => Weight(Assembled(t)) <= Weight(t)
    /\ Weight(Rewritten(Assembled(t)).node) <= Weight(Assembled(t))
-----------------------------------------------------------------------------
VARIABLES
  input,        \* the tree as the caller passed it (auxiliary)
  request,      \* config.max_iterations
  expr,         \* the caller's tree; a stub while a pass holds it
  work,         \* frames, top at the end
  stack,        \* finished subtrees, top at the end
  guard,        \* frames popped in this pass
  changed,      \* whether this pass has changed a node
  everChanged,  \* changed_overall, the value returned
  passes,       \* last_iterations
  before,       \* the tree this pass started from (auxiliary)
  plan,         \* for each frame its tree and those below it (auxiliary)
  phase         \* "measure", "between" passes, "folding", "returned"

call == <<input, request>>
pass == <<work, stack, guard, changed, before, plan>>
vars == <<call, expr, everChanged, passes, pass, phase>>

Budget == IF request < MaxIterationCeiling THEN request ELSE MaxIterationCeiling
FrameLimit == 2 * MaxNodes + 2

Descend(t)        == [tag |-> "Descend", node |-> t, arity |-> 0]
Rebuild(shell, n) == [tag |-> "Rebuild", node |-> shell, arity |-> n]

WorkFrames ==
  {Descend(t) : t \in Tree} \cup {Rebuild(Shell(t), Len(Kids(t))) : t \in Tree}

TypeOK ==
  /\ input \in Inputs /\ request \in Requests
  /\ expr \in Tree /\ before \in Tree
  /\ work \in Seq(WorkFrames)
  /\ stack \in Seq(Tree)
  /\ guard \in 0..FrameLimit /\ passes \in 0..Budget
  /\ changed \in BOOLEAN /\ everChanged \in BOOLEAN
  /\ plan \in Seq(Frames)
  /\ phase \in {"measure", "between", "folding", "returned"}

Init ==
  /\ input \in Inputs
  /\ request \in Requests
  /\ expr = input
  /\ work = <<>> /\ stack = <<>> /\ plan = <<>>
  /\ guard = 0 /\ passes = 0
  /\ changed = FALSE /\ everChanged = FALSE
  /\ before = input
  /\ phase = "measure"

\* A zero budget or a tree past the caps: the tree is left alone.
Refuse ==
  /\ phase = "measure"
  /\ Budget = 0 \/ Nodes(expr) > MaxNodes \/ Depth(expr) > MaxDepth
  /\ phase' = "returned"
  /\ UNCHANGED <<call, expr, everChanged, passes, pass>>

Accept ==
  /\ phase = "measure"
  /\ Budget > 0 /\ Nodes(expr) <= MaxNodes /\ Depth(expr) <= MaxDepth
  /\ phase' = "between"
  /\ UNCHANGED <<call, expr, everChanged, passes, pass>>

StartPass ==
  /\ phase = "between"
  /\ passes < Budget
  /\ passes' = passes + 1
  /\ before' = expr
  /\ work' = <<Descend(expr)>> /\ plan' = <<Enter(expr, <<>>)>>
  /\ expr' = Stub
  /\ stack' = <<>> /\ guard' = 0 /\ changed' = FALSE
  /\ phase' = "folding"
  /\ UNCHANGED <<call, everChanged>>

BudgetSpent ==
  /\ phase = "between"
  /\ passes = Budget
  /\ phase' = "returned"
  /\ UNCHANGED <<call, expr, everChanged, passes, pass>>

Top == TopOf(work)

\* What every turn of the loop does first.
Pop(tag) ==
  /\ phase = "folding"
  /\ work # <<>>
  /\ Top.tag = tag
  /\ guard' = guard + 1
  /\ guard' <= FrameLimit
  /\ UNCHANGED <<call, expr, everChanged, passes, before, phase>>

\* Variant for the mutants: only the last node visited says whether the pass changed anything.
EmitLast(t, rest) ==
  \E r \in {Rewritten(t)} :
    /\ stack' = Append(rest, r.node)
    /\ changed' = r.changed

\* The node, rewritten, is finished.
Emit(t, rest) ==
  \E r \in {Rewritten(t)} :
    /\ stack' = Append(rest, r.node)
    /\ changed' = (changed \/ r.changed)

VisitLeaf ==
  /\ Pop("Descend")
  /\ Kids(Top.node) = <<>>
  /\ work' = RestOf(work) /\ plan' = RestOf(plan)
  /\ Emit(Top.node, stack)

\* Variant for the mutants: the children are pushed in source order.
DetachInOrder(t) ==
  <<Rebuild(Shell(t), Len(Kids(t)))>>
    \o [i \in 1..Len(Kids(t)) |-> Descend(Kids(t)[i])]

\* The children are detached and pushed in reverse.
DetachChildren(t) ==
  <<Rebuild(Shell(t), Len(Kids(t)))>>
    \o [i \in 1..Len(Kids(t)) |-> Descend(Kids(t)[Len(Kids(t)) + 1 - i])]

VisitInner ==
  /\ Pop("Descend")
  /\ Kids(Top.node) # <<>>
  /\ work' = RestOf(work) \o DetachChildren(Top.node)
  /\ LET f == TopOf(plan) IN plan' = OperatorFrames(plan, f.node, Kids(f.node), f.below)
  /\ UNCHANGED <<stack, changed>>

\* Variant for the mutants: every finished subtree is taken for a child.
SplitEverything(arity) == 0

\* split_off: the last `arity` finished subtrees, all if there are fewer.
SplitPoint(arity) == IF Len(stack) >= arity THEN Len(stack) - arity ELSE 0

Reattach ==
  /\ Pop("Rebuild")
  /\ work' = RestOf(work) /\ plan' = RestOf(plan)
  /\ LET at == SplitPoint(Top.arity)
     IN Emit(PutChildren(Top.node, SubSeq(stack, at + 1, Len(stack))), SubSeq(stack, 1, at))

\* The frame that exceeds the limit is popped and dropped.
LoopEnds == work = <<>> \/ guard >= FrameLimit

FinishPass ==
  /\ phase = "folding"
  /\ LoopEnds
  /\ expr' = IF stack = <<>> THEN expr ELSE TopOf(stack)
  /\ everChanged' = (everChanged \/ changed)
  /\ phase' = IF changed THEN "between" ELSE "returned"
  /\ UNCHANGED <<call, passes, pass>>

\* Nothing happens after the call has returned; any other stop is a deadlock.
Returned == phase = "returned" /\ UNCHANGED vars

Next ==
  \/ Refuse \/ Accept \/ StartPass \/ BudgetSpent
  \/ VisitLeaf \/ VisitInner \/ Reattach \/ FinishPass
  \/ Returned

Spec == Init /\ [][Next]_vars
-----------------------------------------------------------------------------
\* The frame limit leaves room for whatever the rules make of the input.
HasRoom == Weight(input) <= FrameLimit

\* The loop is left with frames pending and the tree in pieces.
Cut == phase = "folding" /\ LoopEnds /\ work # <<>>

\* The stack-based traversal is the recursive one: a pass that takes the tree
\* apart puts every subtree back where it was, each node rewritten after its
\* children; and it reports a change exactly if some node reported one.  A pass
\* that is not cut short does so whatever the input.
PassIsFold ==
  [][phase = "folding" /\ phase' # "folding" /\ work = <<>> =>
       [node |-> expr', changed |-> changed] = Fold(before)]_vars

\* Whatever the input evaluated to, under every binding, the tree evaluates to
\* after every pass: no rule, no reordering and no collection changes a value.
ValuePreserved ==
  HasRoom /\ phase # "folding" => \A env \in Bindings : Agree(input, expr, env)

\* What is reported as unchanged is unchanged: the fixpoint loop stops at a tree that
\* is its own rewriting, and a call that returns false did nothing.  No pass is cut
\* short on the way, although a rule may enlarge the tree after its size was checked
\* (iterative.rs:1600-1690).
ReportIsHonest ==
  HasRoom =>
    /\ ~Cut
    /\ phase = "returned" =>
         /\ ~changed /\ passes > 0 => expr = before
         /\ ~everChanged => expr = input

\* "A completed traversal must leave exactly one root" (the assertion at
\* iterative.rs:1633): whatever the input, the tree is whole when the loop is left.
OneRoot == phase = "folding" /\ LoopEnds => Len(stack) = 1
=============================================================================
