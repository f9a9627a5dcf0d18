-------------------------- MODULE MCCriticalPoints --------------------------
(***************************************************************************)
(* A range of twelve grid points.  Every derivative with the values -2 and *)
(* 2 and at most four sign changes, the first value 2, one of which may be *)
(* within tolerance or a gap, and such derivatives with the values -1      *)
(* (within tolerance) and 2.  A budget of six is the common case; of two   *)
(* leaves brackets of two points between samples six apart; of nothing     *)
(* makes one step without a turn; of twelve samples every point, and       *)
(* merges by the tolerance.                                                *)
(***************************************************************************)
EXTENDS CriticalPoints, FiniteSetsExt

Config(n, merge) ==
  [max_search_iterations |-> n, convergence_threshold |-> 1, numerical_tolerance |-> merge]
MCConfigs == {Config(6, 0), Config(2, 0), Config(0, 0), Config(12, 2)}

Turning == UNION {kSubset(n, 1..End) : n \in 0..4}
\* It starts with v and changes to w and back at each of the points.
Zigzag(turns, v, w) ==
  [x \in Points |-> IF Cardinality(turns \cap 1..x) % 2 = 0 THEN v ELSE w]
Smooth == {Zigzag(turns, 2, -2) : turns \in Turning}
MCFunctions ==
  Smooth \cup {Zigzag(turns, v, 1 - v) : turns \in Turning, v \in {-1, 2}}
  \cup {[g EXCEPT ![x] = v] : g \in Smooth, x \in Points, v \in {-1, Gap}}
=============================================================================
