-------------------------- MODULE PreciseInterval --------------------------
(***************************************************************************)
(* `evaluate_precise`: enclosing a closed expression to a requested number *)
(* of bits, in exact rationals rounded outward to a grid of 2^-budget.     *)
(*                                                                         *)
(* An expression is its postfix program: the order in which the traversal  *)
(* of `eval_tree` pushes its leaves and combines its functions (see        *)
(* Evaluator for that traversal).  A step is one leaf, one exact operator, *)
(* or one turn of a Newton or Taylor loop.  The bit budgets are constants: *)
(* the argument for the enclosure does not depend on their size.           *)
(***************************************************************************)
EXTENDS Rationals, Integers, Sequences, FiniteSetsExt, Functions

CONSTANTS
  Jobs,             \* the calls: [prog, bits]
  GuardBits,        \* ARITHMA_PRECISE_GUARD_BITS
  RoundingGuard,    \* ARITHMA_PRECISE_ROUNDING_GUARD
  PiGuard,          \* the bits pi_bounds adds
  SeriesCap,        \* ARITHMA_PRECISE_SERIES_CAP
  NewtonCap,        \* ARITHMA_PRECISE_NEWTON_CAP
  RetryCap,         \* ARITHMA_PRECISE_RETRY_CAP
  MaxPower          \* ARITHMA_PRECISE_MAX_POWER_EXPONENT
-----------------------------------------------------------------------------
pow2_recip(bits) == <<1, 2 ^ bits>>

\* The largest multiple of 2^-bits not above r, and the least not below it.
round_down(r, bits) ==
  Rat((r[1] * Scale(r, pow2_recip(bits))) \div Scale(pow2_recip(bits), r), 2 ^ bits)
round_up(r, bits)   == NegR(round_down(NegR(r), bits))
-----------------------------------------------------------------------------
(***************************************************************************)
(* Intervals of rationals.                                                 *)
(***************************************************************************)
Iv(lo, hi) == [lo |-> lo, hi |-> hi]
Point(v)   == Iv(v, v)

contains_zero(iv) == iv.lo[1] <= 0 /\ iv.hi[1] >= 0

round_outward(iv, bits) == Iv(round_down(iv.lo, bits), round_up(iv.hi, bits))
interval_abs_max(iv) == MaxR({AbsR(iv.lo), AbsR(iv.hi)})

AddI(x, y) == Iv(AddR(x.lo, y.lo), AddR(x.hi, y.hi))
SubI(x, y) == Iv(SubR(x.lo, y.hi), SubR(x.hi, y.lo))
NegI(x)    == Iv(NegR(x.hi), NegR(x.lo))

HullOf(S) == Iv(MinR(S), MaxR(S))
MulI(x, y) == HullOf({MulR(a, b) : a \in {x.lo, x.hi}, b \in {y.lo, y.hi}})
DivI(x, y) == HullOf({DivR(a, b) : a \in {x.lo, x.hi}, b \in {y.lo, y.hi}})

PowPositive(x, k) ==
  LET ends == {PowR(AbsR(x.lo), k), PowR(AbsR(x.hi), k)}
  IN IF k % 2 = 1 THEN Iv(PowR(x.lo, k), PowR(x.hi, k))
     ELSE Iv(IF contains_zero(x) THEN Zero ELSE MinR(ends), MaxR(ends))

pow_int_interval(x, k) ==
  CASE k = 0 -> Point(One)
    [] k > 0 -> PowPositive(x, k)
    [] OTHER -> DivI(Point(One), PowPositive(x, -k))

clamp_unit(iv) == Iv(MaxR({iv.lo, Int2Rat(-1)}), MinR({iv.hi, One}))

Midpoint(x)  == DivR(AddR(x.lo, x.hi), Int2Rat(2))
HalfWidth(x) == AbsR(DivR(SubR(x.hi, x.lo), Int2Rat(2)))
Widened(core, by) == clamp_unit(Iv(SubR(core.lo, by), AddR(core.hi, by)))

\* The width the caller asked for, relative to the magnitude of the value.
interval_meets_width(iv, bits) ==
  LeR(SubR(iv.hi, iv.lo), MulR(MaxR({One, AbsR(iv.lo), AbsR(iv.hi)}), pow2_recip(bits)))
-----------------------------------------------------------------------------
(***************************************************************************)
(* The Taylor loops.  All have one shape: a first term, a factor by which  *)
(* every term is multiplied, and a rational that depends on its index.     *)
(***************************************************************************)
Series == {"exp", "ln", "sin", "cos", "atan"}

Squared(x, budget) == round_outward(MulI(x, x), budget)
NegSquared(x, budget) == round_outward(NegI(MulI(x, x)), budget)

\* ln(x) = 2 atanh((x - 1) / (x + 1)).
Argument(kind, x) == IF kind = "ln" THEN DivR(SubR(x, One), AddR(x, One)) ELSE x

SeriesStart(kind, x, budget) ==
  LET x_iv == round_outward(Point(Argument(kind, x)), budget)
      first == IF kind \in {"exp", "cos"} THEN Point(One) ELSE x_iv
  IN [kind |-> kind, turn |-> 0, term |-> first, sum |-> first, x |-> x,
      factor |-> CASE kind = "exp" -> x_iv
                   [] kind = "ln"  -> Squared(x_iv, budget)
                   [] OTHER        -> NegSquared(x_iv, budget)]

Coefficient(kind, k) ==
  CASE kind = "exp" -> <<1, k + 1>>
    [] kind = "sin" -> <<1, (2 * k + 2) * (2 * k + 3)>>
    [] kind = "cos" -> <<1, (2 * k + 1) * (2 * k + 2)>>
    [] OTHER        -> <<2 * k + 1, 2 * k + 3>>

NextTerm(s, budget) ==
  round_outward(MulI(MulI(s.term, s.factor), Point(Coefficient(s.kind, s.turn))), budget)

TurnsAllowed(kind) ==
  CASE kind = "sqrt" -> NewtonCap [] kind = "exp" -> SeriesCap [] OTHER -> SeriesCap + 1

\* The last two terms shrink by half at least, and twice the last one is small.
HalvesEnough(next, term) ==
  LeR(interval_abs_max(next), DivR(interval_abs_max(term), Int2Rat(2)))

\* Variant for the mutants: the last term itself instead of twice the term.
TailOnce(next) == interval_abs_max(next)

TailBound(next) == MulR(interval_abs_max(next), Int2Rat(2))

TailSmall(next, sum, bits) ==
  LeR(TailBound(next), MulR(MaxR({One, interval_abs_max(sum)}), pow2_recip(bits)))

SeriesAnswer(s, next) ==
  LET tail == TailBound(next)
      lo   == SubR(s.sum.lo, tail)
      hi   == AddR(s.sum.hi, tail)
  IN CASE s.kind = "ln"            -> Iv(MulR(lo, Int2Rat(2)), MulR(hi, Int2Rat(2)))
       [] s.kind \in {"sin", "cos"} -> clamp_unit(Iv(lo, hi))
       [] OTHER                    -> Iv(lo, hi)

\* Newton's method from above: hi stays at or above the root, x / hi below.
NewtonStart(x, budget) ==
  [kind |-> "sqrt", turn |-> 0, x |-> x,
   hi |-> IF LtR(One, x) THEN round_up(x, budget) ELSE One]

NewtonNext(s, budget) ==
  round_up(DivR(AddR(s.hi, DivR(s.x, s.hi)), Int2Rat(2)), budget)

NewtonDone(s, bits) ==
  LeR(SubR(s.hi, DivR(s.x, s.hi)), MulR(MaxR({One, s.hi}), pow2_recip(bits)))
-----------------------------------------------------------------------------
VARIABLES
  job,       \* the call
  pc,        \* the next token of the program
  stack,     \* the intervals of finished operands, top at the end
  working,   \* working_bits
  tries,     \* walks of the expression begun
  todo,      \* bounds the current token still needs: <<kind, argument>>
  loop,      \* the Newton or Taylor loop that runs, <<>> if none
  found,     \* bounds computed for the current token
  outcome,   \* "running", "ok", "error" or "gaveup"; "idle" with no call
  answer     \* the interval returned

preciseVars == <<job, pc, stack, working, tries, todo, loop, found, outcome, answer>>

Given(j, how) ==
  /\ job = j /\ outcome = how
  /\ pc = 1 /\ stack = <<>> /\ todo = <<>> /\ loop = <<>> /\ found = <<>>
  /\ working = j.bits + GuardBits
  /\ tries = 1
  /\ answer = Point(Zero)

PreciseInit == \E j \in Jobs : Given(j, "running")

AtToken == outcome = "running" /\ pc <= Len(job.prog) /\ todo = <<>> /\ found = <<>>

Token  == job.prog[pc]
Budget == working + RoundingGuard
Top    == stack[Len(stack)]
Below  == stack[Len(stack) - 1]
Drop(n) == SubSeq(stack, 1, Len(stack) - n)

Fail == outcome' = "error" /\ UNCHANGED <<pc, stack, todo, loop, found>>

\* Leaves are pushed as they are, results are rounded outward.
PushNumber ==
  /\ AtToken /\ Token.op = "num"
  /\ stack' = Append(stack, Point(Token.val))
  /\ pc' = pc + 1
  /\ UNCHANGED <<job, working, tries, todo, loop, found, outcome, answer>>

\* An exact integer exponent of bounded size.
Exponent(iv) == IF iv.lo = iv.hi /\ iv.lo[2] = 1 THEN iv.lo[1] ELSE MaxPower + 1

Refuses(op) ==
  CASE op = "div" -> contains_zero(Top)
    [] op = "pow" -> LET k == Exponent(Top)
                     IN AbsInt(k) > MaxPower \/ (k < 0 /\ contains_zero(Below))
    [] OTHER      -> FALSE

Exact(op) ==
  CASE op = "add" -> AddI(Below, Top)
    [] op = "sub" -> SubI(Below, Top)
    [] op = "mul" -> MulI(Below, Top)
    [] op = "div" -> DivI(Below, Top)
    [] op = "pow" -> pow_int_interval(Below, Exponent(Top))
    [] op = "neg" -> NegI(Top)

ExactOps == {"add", "sub", "mul", "div", "pow", "neg"}

Combine ==
  /\ AtToken /\ Token.op \in ExactOps
  /\ IF Refuses(Token.op) THEN Fail
     ELSE /\ stack' = Append(Drop(IF Token.op = "neg" THEN 1 ELSE 2),
                             round_outward(Exact(Token.op), Budget))
          /\ pc' = pc + 1
          /\ UNCHANGED <<todo, loop, found, outcome>>
  /\ UNCHANGED <<job, working, tries, answer>>

\* The bounds a transcendental token asks for, and the bits it asks for.
NeedsBounds == {"sqrt", "exp", "ln", "sin", "cos", "pi"}

Tasks(op) ==
  CASE op = "pi"            -> <<<<"atan", <<1, 5>>>>, <<"atan", <<1, 239>>>>>>
    [] op \in {"sin", "cos"} -> <<<<op, Midpoint(Top)>>>>
    [] op = "sqrt"          -> <<<<op, MaxR({Top.lo, Zero})>>, <<op, Top.hi>>>>
    [] OTHER                -> <<<<op, Top.lo>>, <<op, Top.hi>>>>

OutsideDomain(op) ==
  \/ op = "sqrt" /\ LtR(Top.hi, Zero)
  \/ op = "ln" /\ LeR(Top.lo, Zero)

Begin ==
  /\ AtToken /\ Token.op \in NeedsBounds
  /\ IF OutsideDomain(Token.op) THEN Fail
     ELSE /\ todo' = Tasks(Token.op)
          /\ UNCHANGED <<pc, stack, loop, found, outcome>>
  /\ UNCHANGED <<job, working, tries, answer>>

Target == IF Token.op = "pi" THEN working + PiGuard ELSE working

Yield(bounds) ==
  /\ found' = Append(found, bounds)
  /\ todo' = Tail(todo)
  /\ loop' = <<>>
  /\ UNCHANGED outcome

Busy == outcome = "running" /\ todo # <<>>

EnterLoop ==
  /\ Busy /\ loop = <<>>
  /\ LET kind == todo[1][1]
         x    == todo[1][2]
     IN IF kind = "sqrt" /\ x = Zero THEN Yield(Point(Zero))
        ELSE /\ loop' = IF kind = "sqrt" THEN NewtonStart(x, Target + RoundingGuard)
                        ELSE SeriesStart(kind, x, Target + RoundingGuard)
             /\ UNCHANGED <<todo, found, outcome>>
  /\ UNCHANGED <<job, pc, stack, working, tries, answer>>

CapHit ==
  /\ Busy /\ loop # <<>>
  /\ loop.turn >= TurnsAllowed(loop.kind)
  /\ Fail
  /\ UNCHANGED <<job, working, tries, answer>>

NewtonTurn ==
  /\ Busy /\ loop # <<>>
  /\ loop.kind = "sqrt" /\ loop.turn < TurnsAllowed("sqrt")
  /\ IF NewtonDone(loop, Target) THEN Yield(Iv(DivR(loop.x, loop.hi), loop.hi))
     ELSE /\ loop' = [loop EXCEPT !.turn = @ + 1, !.hi = NewtonNext(loop, Target + RoundingGuard)]
          /\ UNCHANGED <<todo, found, outcome>>
  /\ UNCHANGED <<job, pc, stack, working, tries, answer>>

SeriesTurn ==
  /\ Busy /\ loop # <<>>
  /\ loop.kind \in Series /\ loop.turn < TurnsAllowed(loop.kind)
  /\ \E next \in {NextTerm(loop, Target + RoundingGuard)} :
       IF HalvesEnough(next, loop.term) /\ TailSmall(next, loop.sum, Target)
         THEN Yield(SeriesAnswer(loop, next))
         ELSE /\ loop' = [loop EXCEPT !.turn = @ + 1, !.term = next,
                            !.sum = round_outward(AddI(@, next), Target + RoundingGuard)]
              /\ UNCHANGED <<todo, found, outcome>>
  /\ UNCHANGED <<job, pc, stack, working, tries, answer>>

\* The bounds found make the interval of the token.
Assembled(op) ==
  CASE op = "pi"            -> SubI(MulI(Point(Int2Rat(16)), found[1]), MulI(Point(Int2Rat(4)), found[2]))
    [] op \in {"sin", "cos"} -> round_outward(Widened(found[1], HalfWidth(Top)), Budget)
    [] OTHER                -> round_outward(Iv(found[1].lo, found[2].hi), Budget)

Assemble ==
  /\ outcome = "running" /\ todo = <<>> /\ found # <<>>
  /\ stack' = Append(IF Token.op = "pi" THEN stack ELSE Drop(1), Assembled(Token.op))
  /\ found' = <<>>
  /\ pc' = pc + 1
  /\ UNCHANGED <<job, working, tries, todo, loop, outcome, answer>>

\* The exact width decides: answer, walk again with more bits, or give up.
Walked == outcome = "running" /\ pc > Len(job.prog)

Accept ==
  /\ Walked
  /\ interval_meets_width(stack[1], job.bits)
  /\ outcome' = "ok" /\ answer' = stack[1]
  /\ UNCHANGED <<job, pc, stack, working, tries, todo, loop, found>>

Retry ==
  /\ Walked
  /\ ~interval_meets_width(stack[1], job.bits)
  /\ IF tries < RetryCap
       THEN /\ working' = working + MaxR({Int2Rat(working), Int2Rat(GuardBits)})[1]
            /\ tries' = tries + 1
            /\ pc' = 1 /\ stack' = <<>>
            /\ UNCHANGED outcome
       ELSE outcome' = "gaveup" /\ UNCHANGED <<working, tries, pc, stack>>
  /\ UNCHANGED <<job, todo, loop, found, answer>>

PreciseNext ==
  \/ PushNumber \/ Combine \/ Begin
  \/ EnterLoop \/ CapHit \/ NewtonTurn \/ SeriesTurn \/ Assemble
  \/ Accept \/ Retry

PreciseSpec == PreciseInit /\ [][PreciseNext]_preciseVars
-----------------------------------------------------------------------------
(***************************************************************************)
(* job.truth brackets the value of the expression.  job.far: a logarithm   *)
(* whose series shrinks by less than half per term in the long run, that   *)
(* is ((x - 1) / (x + 1))^2 > 1/2.                                         *)
(***************************************************************************)
Missed == LtR(job.truth[2], answer.lo) \/ LtR(answer.hi, job.truth[1])

\* Every interval returned encloses the value: rounding each term, cutting the
\* series off, walking intervals instead of points and walking again with more
\* bits never lose it -- for every expression without a far logarithm.  And what
\* is returned is as narrow as was asked for.
PreciseEncloses ==
  outcome = "ok" =>
    /\ ~job.far => ~Missed
    /\ interval_meets_width(answer, job.bits)
    /\ LeR(answer.lo, answer.hi)

\* numerical/precise_interval.rs:43 -- "Every one of these brackets is a sound
\* enclosure of the true value by construction".
BracketsAreSound == outcome = "ok" => ~Missed
=============================================================================
