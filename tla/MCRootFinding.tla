---------------------------- MODULE MCRootFinding ----------------------------
(***************************************************************************)
(* Every function from six points to four values or to no value at all. *)
(* Tol = 1 makes the value 1 a root; products of values up to 1 in         *)
(* magnitude underflow.                                                    *)
(***************************************************************************)
EXTENDS RootFinding

Width == 5
MCPoints == 0..Width
MCValues == {-3, -2, 1, 2}
MCVanishing == {p \in MCValues \X MCValues : WithinTol(p[1]) /\ WithinTol(p[2])}
MCFunctions == [MCPoints -> MCValues \cup {Undefined}]

Call(m, x, y) == [method |-> m, a |-> x, b |-> y]
MCCalls ==
  {Call("bisection", 0, 5), Call("bisection", 5, 0), Call("bisection", 1, 3),
   Call("bisection", 2, Infinite), Call("newton", 2, 2), Call("newton", Infinite, 2),
   Call("secant", 1, 4), Call("secant", 2, 2)}
=============================================================================
