----------------------------- MODULE Rationals -----------------------------
(***************************************************************************)
(* `Rational` (numerical/precise_interval.rs): exact, positive denominator. *)
(* The code reduces late; here a rational is always in Lowest terms.       *)
(***************************************************************************)
EXTENDS Integers

AbsInt(v) == IF v < 0 THEN -v ELSE v

Euclid[x \in Nat, y \in Nat] == IF y = 0 THEN x ELSE Euclid[y, x % y]
Gcd(a, b) == Euclid[AbsInt(a), b]                  \* b is not negative

Divided(n, d, g) == <<n \div g, d \div g>>
Lowest(n, d) == Divided(n, d, Gcd(n, d))
Rat(n, d)  == Lowest(IF d < 0 THEN -n ELSE n, AbsInt(d))
Int2Rat(n) == <<n, 1>>

Scale(a, b) == b[2] \div Gcd(a[2], b[2])

\* Over the least common denominator, which keeps TLC's integers small.
AddOver(a, b, g) == Lowest(a[1] * (b[2] \div g) + b[1] * (a[2] \div g), a[2] * (b[2] \div g))
AddR(a, b) == AddOver(a, b, Gcd(a[2], b[2]))
NegR(a)    == <<-a[1], a[2]>>
SubR(a, b) == AddR(a, NegR(b))
MulR(a, b) == Lowest(a[1] * b[1], a[2] * b[2])
DivR(a, b) == Rat(a[1] * b[2], a[2] * b[1])
AbsR(a)    == <<AbsInt(a[1]), a[2]>>
PowR(a, k) == Lowest(a[1] ^ k, a[2] ^ k)

\* The sign of a - b, cross-multiplied.
Order(a, b, g) == a[1] * (b[2] \div g) - b[1] * (a[2] \div g)
LeR(a, b) == Order(a, b, Gcd(a[2], b[2])) <= 0
LtR(a, b) == Order(a, b, Gcd(a[2], b[2])) < 0

\* The half of a bracket that keeps a sign change: y at its middle, ya at its start.
Middle(ab) == DivR(AddR(ab[1], ab[2]), Int2Rat(2))
HalfKept(ab, mid, y, ya) ==
  IF y = 0 THEN <<mid, mid>>
  ELSE IF (y < 0) = (ya < 0) THEN <<mid, ab[2]>> ELSE <<ab[1], mid>>

MaxR(S) == CHOOSE a \in S : \A b \in S : LeR(b, a)
MinR(S) == CHOOSE a \in S : \A b \in S : LeR(a, b)

Zero == Int2Rat(0)
One  == Int2Rat(1)
Half == Rat(1, 2)
=============================================================================
