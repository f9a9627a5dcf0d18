------------------------------- MODULE MCSolver -------------------------------
(***************************************************************************)
(* Nine points; every sequence of the values -3 and 2, one of which may be *)
(* replaced by a value within tolerance, by zero or by none; and every     *)
(* single step between -3 and 2 with two tiny values of opposite signs,    *)
(* whose product underflows.  Expansions of 3 and 5 points give brackets   *)
(* of 3 and 5.                                                             *)
(***************************************************************************)
EXTENDS Solver

MCPoints == 0..8
MCValues == {-3, -1, 0, 1, 2}
MCVanishing == {-1, 0, 1} \X {-1, 0, 1}

Rough == [MCPoints -> {-3, 2}]
StepAt(k, v, w) == [x \in MCPoints |-> IF x < k THEN v ELSE w]
Single == UNION {{StepAt(k, -3, 2), StepAt(k, 2, -3)} : k \in MCPoints}

MCFunctions ==
  Rough
  \cup {[g EXCEPT ![x] = v] : g \in Rough, x \in MCPoints, v \in {-1, 0, Undefined}}
  \cup {[g EXCEPT ![x] = 1, ![y] = -1] : g \in Single, x \in MCPoints, y \in MCPoints}

MCReach == [k \in 0..2 |-> IF k = 0 THEN 0 ELSE 5 * k - 2]

MCCalls ==
  [method : {"bisection", "brent"}, seed : {0, 4, 8}]
  \cup [method : {"newton"}, seed : {4, Infinite}]
  \cup [method : {"secant"}, seed : {4}]
=============================================================================
