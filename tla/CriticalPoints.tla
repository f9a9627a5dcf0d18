--------------------------- MODULE CriticalPoints ---------------------------
(***************************************************************************)
(* The stationary points and the monotonic pieces of a function over a     *)
(* range (critical_points.rs): scan_for_roots walks the derivative f       *)
(* sample by sample and bisects every bracket, split_intervals cuts the    *)
(* range at the roots and labels each piece by the sign at its midpoint.   *)
(*                                                                         *)
(* Arguments are numbered on a grid at least as fine as the samples.  A    *)
(* bisection is one call here: RootFinding models its inside, and Bisected *)
(* is what it answers, converged or not.  The one budget of the            *)
(* configuration is both the number of samples and the turns a bisection   *)
(* has, so a short budget leaves wide brackets between few samples.        *)
(***************************************************************************)
EXTENDS Integers

CONSTANTS
  End,        \* range.hi; range.lo is 0
  Configs,    \* the configurations
  Gap,        \* no value: a pole, or outside the domain
  Functions,  \* the derivatives scanned
  NoSample    \* prev: None

Points == 0..End

\* steps: the budget, one at the least.
StepsOf(c) == IF c.max_search_iterations = 0 THEN 1 ELSE c.max_search_iterations

ASSUME EndAssumption == End \in Nat \ {0}
ASSUME ConfigsAssumption ==
  Configs \subseteq [max_search_iterations : Nat, convergence_threshold : Nat,
                     numerical_tolerance : Nat]
\* Every sample is a point of the grid.
ASSUME GridAssumption == \A c \in Configs : End % StepsOf(c) = 0
ASSUME FunctionsAssumption == Functions \subseteq [Points -> Int \cup {Gap}]
ASSUME NoSampleAssumption == NoSample \notin Points

VARIABLES
  config,   \* the configuration of the analyser
  f,        \* the derivative
  next,     \* number of the next sample
  prev,     \* the last sample point, or NoSample after a gap
  roots,    \* the roots pushed so far
  samples,  \* samples that had a value
  zeros,    \* samples within tolerance
  state,    \* "scanning", "cutting", "done" or "failed"
  bounds,   \* the ends of the pieces
  left,     \* where the next piece begins
  pieces    \* the labelled pieces

scan == <<config, f, next, prev, samples, zeros>>
cut == <<bounds, left, pieces>>
vars == <<scan, roots, state, cut>>

Steps == StepsOf(config)
Step == End \div Steps
Tol == config.convergence_threshold

X == next * Step
WithinTol(x) == f[x] # Gap /\ -Tol <= f[x] /\ f[x] <= Tol
Crosses(l, h) ==
  f[l] # Gap /\ f[h] # Gap /\ ((f[l] < 0 /\ f[h] > 0) \/ (f[l] > 0 /\ f[h] < 0))

\* Variant for the mutants: only hits at the very same point are one root.
SamePoint(r, x) == r = x

\* Twice dedup_tol: one and a half scan steps, or the tolerance where that is wider.
Merging ==
  IF 3 * Step < 2 * config.numerical_tolerance THEN 2 * config.numerical_tolerance ELSE 3 * Step
Duplicate(r, x) == 2 * (IF r < x THEN x - r ELSE r - x) <= Merging

\* push_unique: the earlier root stays.
PushUnique(x) == IF \E r \in roots : Duplicate(r, x) THEN roots ELSE roots \cup {x}

\* A sign change between two points with nothing but gaps between them: across a
\* crossing too fine for the grid, a jump, or a pole.
Jumps(a, b) == a < b /\ Crosses(a, b) /\ \A x \in (a + 1)..(b - 1) : f[x] = Gap

\* A bracket as wide as the turns of a bisection leave it: each halves it, to a grid
\* point on either side of the middle.
Turns == config.max_search_iterations
Halved(a, b, width) ==
  (b - a - 1) * 2 ^ Turns < width /\ width < (b - a + 1) * 2 ^ Turns

\* Out of turns at the bracket [a, b], at one of its ends, the last midpoint tried;
\* without any turn that is the lower end.
OutOfTurns(r, a, b, width) ==
  /\ Crosses(a, b) /\ ~WithinTol(a) /\ ~WithinTol(b) /\ Halved(a, b, width)
  /\ r = a \/ (r = b /\ Turns > 0)

\* What a bisection of [l, h] can answer: an end within tolerance, the upper one
\* only if the lower is not; a point within tolerance or beside a jump; or, not
\* converged, the last midpoint.
Bisected(l, h) ==
  CASE WithinTol(l) -> {l}
    [] ~WithinTol(l) /\ WithinTol(h) -> {h}
    [] OTHER -> {r \in l..h :
                   \/ WithinTol(r)
                   \/ \E x \in l..h : Jumps(r, x) \/ Jumps(x, r)
                   \/ \E a, b \in l..h : a < b /\ OutOfTurns(r, a, b, h - l)}

\* It can fail where it runs into a gap.
CanFail(l, h) == \E x \in l..h : f[x] = Gap
-----------------------------------------------------------------------------
Init ==
  /\ config \in Configs
  /\ f \in Functions
  /\ next = 0 /\ prev = NoSample
  /\ roots = {} /\ samples = 0 /\ zeros = 0
  /\ state = "scanning"
  /\ bounds = {} /\ left = 0 /\ pieces = {}

Sampling == state = "scanning" /\ next <= Steps

\* The first sample must have a value.
FailFirst ==
  /\ Sampling /\ next = 0 /\ f[X] = Gap
  /\ state' = "failed"
  /\ UNCHANGED <<scan, roots, cut>>

\* Variant for the mutants: the sample before the gap is kept.
SkipGapKeeping ==
  /\ Sampling /\ next > 0 /\ f[X] = Gap
  /\ next' = next + 1
  /\ UNCHANGED <<config, f, prev, roots, samples, zeros, state, cut>>

\* A gap drops the pair, so no bracket is ever formed across it.
SkipGap ==
  /\ Sampling /\ next > 0 /\ f[X] = Gap
  /\ next' = next + 1
  /\ prev' = NoSample
  /\ UNCHANGED <<config, f, roots, samples, zeros, state, cut>>

Advance ==
  /\ Sampling /\ f[X] # Gap
  /\ next' = next + 1
  /\ prev' = X
  /\ samples' = samples + 1
  /\ UNCHANGED <<config, f, state, cut>>

NearZero ==
  /\ Advance /\ WithinTol(X)
  /\ zeros' = zeros + 1
  /\ roots' = PushUnique(X)

\* Variant for the mutants: the sign is compared with the range's first sample.
BracketedByFirst == prev # NoSample /\ Crosses(0, X)

Bracketed == prev # NoSample /\ Crosses(prev, X)

Bisect ==
  /\ Advance /\ ~WithinTol(X) /\ Bracketed
  /\ \/ \E r \in Bisected(prev, X) : roots' = PushUnique(r)
     \/ CanFail(prev, X) /\ UNCHANGED roots
  /\ UNCHANGED zeros

PassBy ==
  /\ Advance /\ ~WithinTol(X) /\ ~Bracketed
  /\ UNCHANGED <<roots, zeros>>

\* A function near zero at every sample has no isolated root.
Vanishes == samples > 2 /\ zeros = samples
Reported == IF Vanishes THEN {} ELSE roots

\* Variant for the mutants: the end of the range is forgotten.
CutAtRootsOnly(cuts) == {0} \cup cuts

\* A cut at an end of the range makes no piece.
CutAt(cuts) == {0, End} \cup cuts

Report ==
  /\ state = "scanning" /\ next > Steps
  /\ state' = "cutting"
  /\ roots' = Reported
  /\ bounds' = CutAt(Reported)
  /\ UNCHANGED <<scan, left, pieces>>

\* Variant for the mutants: the sign is read where the piece begins.
LowerEnd(l, h) == {l}

\* The midpoint may lie between two grid points; then either stands for it.
Midpoints(l, h) == {(l + h) \div 2, (l + h + 1) \div 2}

Piece(l, h, sign) == [lo |-> l, hi |-> h, increasing |-> sign > 0]
Follows(l, h) == l < h /\ \A b \in bounds : b <= l \/ h <= b

\* The window from left to the next bound.  A piece whose midpoint has no value is
\* left out.
Label ==
  /\ state = "cutting"
  /\ \E h \in bounds :
       /\ Follows(left, h)
       /\ left' = h
       /\ \E m \in Midpoints(left, h) :
            pieces' = IF f[m] = Gap THEN pieces ELSE pieces \cup {Piece(left, h, f[m])}
  /\ UNCHANGED <<scan, roots, state, bounds>>

Finish ==
  /\ state = "cutting" /\ \A b \in bounds : b <= left
  /\ state' = "done"
  /\ UNCHANGED <<scan, roots, cut>>

Next ==
  FailFirst \/ SkipGap \/ NearZero \/ Bisect \/ PassBy \/ Report \/ Label \/ Finish

Spec == Init /\ [][Next]_vars
-----------------------------------------------------------------------------
TypeOK ==
  /\ config \in Configs
  /\ f \in [Points -> Int \cup {Gap}]
  /\ next \in 0..(Steps + 1)
  /\ prev \in Points \cup {NoSample}
  /\ roots \subseteq Points
  /\ samples \in 0..next /\ zeros \in 0..samples
  /\ state \in {"scanning", "cutting", "done", "failed"}
  /\ bounds \subseteq Points /\ left \in Points
  /\ \A p \in pieces : p.lo \in Points /\ p.hi \in Points /\ p.increasing \in BOOLEAN

\* Every root is one, as far as the samples and the budget tell: the derivative is
\* within tolerance there, or changes its sign across zero beside it, with no sample in
\* between, over a jump or a bracket no wider than the budget's halvings of a scan step
\* leave it.  A bracket that reached across a sample without a value would break this.
Narrowed(a, b) == a < b /\ Crosses(a, b) /\ (b - a - 1) * 2 ^ Turns < Step
RootsJustified ==
  \A r \in roots :
    \/ WithinTol(r)
    \/ \E a, b \in Points :
         /\ a <= r /\ r <= b /\ (Jumps(a, b) \/ Narrowed(a, b))
         /\ \A i \in 0..Steps : i * Step <= a \/ b <= i * Step

\* No two roots are within a step of each other: two samples in a row that are both
\* near zero, or a near-zero sample and the bracket beside it, count once.
RootsDistinct == \A r, s \in roots : r < s => s - r > Step

\* Nothing the samples show is lost: once the scan is over, every near-zero sample
\* and every sign change between two samples in a row with no gap between them has
\* a reported root, in the bracket or at most the merging distance before it.
Near(l, h) == \E r \in roots : 2 * r + Merging >= 2 * l /\ r <= h
Shown(i) ==
  LET x == i * Step
  IN /\ WithinTol(x) => Near(x, x)
     /\ i > 0 /\ Crosses(x - Step, x) /\ ~CanFail(x - Step, x) => Near(x - Step, x)
NothingShownIsLost ==
  state \in {"cutting", "done"} /\ ~Vanishes => \A i \in 0..Steps : Shown(i)

\* The pieces do not overlap, none has a root inside, and together they leave out
\* only stretches whose midpoint has no value.
PiecesTile ==
  /\ \A p \in pieces : p.lo < p.hi /\ \A r \in roots : ~(p.lo < r /\ r < p.hi)
  /\ \A p, q \in pieces : p # q => p.hi <= q.lo \/ q.hi <= p.lo
  /\ state = "done" =>
       \A x \in Points \ {End} :
         \/ \E p \in pieces : p.lo <= x /\ x < p.hi
         \/ \E l \in roots \cup {0}, h \in roots \cup {End} :
              /\ l <= x /\ x < h /\ \A r \in roots : r <= l \/ h <= r
              /\ \E m \in Midpoints(l, h) : f[m] = Gap

\* The labels are right wherever the samples resolve the derivative: if it has a
\* value everywhere, is not near zero at every sample and keeps its sign for at least
\* a step at a time, then a piece longer than the merging distance and a step never has
\* the sign opposite to its label, except that far from its beginning (roots within the
\* merging distance are one) and in its last step.
Changes == {x \in Points \ {0} : ~(f[x - 1] > 0 <=> f[x] > 0)}
Resolved ==
  /\ ~Vanishes
  /\ \A x \in Points : f[x] # Gap
  /\ \A x, y \in Changes : x < y => y - x >= Step
Inside(p) ==
  LET blurred == Merging + 2 * Step
  IN {x \in Points : p.hi - p.lo >= blurred /\ 2 * (x - p.lo) > blurred /\ p.hi - x >= Step}
Against(p, x) == IF p.increasing THEN f[x] < -Tol ELSE f[x] > Tol
LabelsRight == Resolved => \A p \in pieces : \A x \in Inside(p) : ~Against(p, x)
=============================================================================
