------------------------------ MODULE Geometry ------------------------------
(***************************************************************************)
(* Geometry over expressions (geometry/), as Python and Rust call it        *)
(* (pyfacade/geometry.rs): a vector is a triple of terms, a line, plane or *)
(* sphere a record of them, a NURBS curve a record of numbers.  A session  *)
(* holds a function from names to objects; every call that makes an object *)
(* stores it under the name of the call's `to`.  Numbers are rational, so a *)
(* tolerance on zero is exact zero; the accessors of a field are left out. *)
(***************************************************************************)
EXTENDS Terms, Calls

CONSTANTS MaxControl,          \* ARITHMA_BEZIER_MAX_CONTROL_POINTS
          MaxSegments          \* the most segments of a tessellation

AddV(a, b)   == [k \in 1..3 |-> Add(a[k], b[k])]
SubV(a, b)   == [k \in 1..3 |-> Sub(a[k], b[k])]
ScaleV(a, s) == [k \in 1..3 |-> Mul(a[k], s)]
DotV(a, b)   == Add(Add(Mul(a[1], b[1]), Mul(a[2], b[2])), Mul(a[3], b[3]))
CrossV(a, b) ==
  [k \in 1..3 |-> LET i == (k % 3) + 1
                      j == (i % 3) + 1
                  IN  Sub(Mul(a[i], b[j]), Mul(a[j], b[i]))]
Norm2(a) == DotV(a, a)
Root(t)  == Fn("Sqrt", <<t>>)

LineAt(line, t) == AddV(line.origin, ScaleV(line.direction, t))
SignedDistance(plane, p) == Div(Sub(DotV(plane.normal, p), plane.offset), Root(Norm2(plane.normal)))

-----------------------------------------------------------------------------
(* Intersections: the branch is chosen on what a term is worth with nothing *)
(* bound; a term with a free name is taken for the general case.           *)

Sign(v) == IF v = Zero THEN "zero" ELSE IF LtR(Zero, v) THEN "positive" ELSE "negative"
ClassOf(d) == IF d.ok THEN Sign(d.v) ELSE "unknown"

\* Variant for the mutants: what cannot be evaluated counts as zero, its value in NoValue.
ClassifyUnknownZero(t) == Sign(ValueAt(t, <<>>).v)

Classify(t) == ClassOf(ValueAt(t, <<>>))

NoHit == [kind |-> "none", points |-> <<>>]
HitAt(p) == [kind |-> "point", points |-> <<p>>]

LinePlane(line, plane) ==
  LET denominator == DotV(plane.normal, line.direction)
      numerator   == Sub(plane.offset, DotV(plane.normal, line.origin))
  IN  IF Classify(denominator) # "zero" THEN HitAt(LineAt(line, Div(numerator, denominator)))
      ELSE IF Classify(numerator) = "zero" THEN [kind |-> "continuous", points |-> <<>>]
      ELSE NoHit

LineSphere(line, sphere) ==
  LET oc == SubV(line.origin, sphere.centre)
      a  == Norm2(line.direction)
      b  == Mul(Lit(2), DotV(oc, line.direction))
      c  == Sub(Norm2(oc), Mul(sphere.radius, sphere.radius))
      discriminant == Sub(Mul(b, b), Mul(Mul(Lit(4), a), c))
      At2A(t) == LineAt(line, Div(t, Mul(Lit(2), a)))
  IN  IF Classify(a) = "zero" \/ Classify(discriminant) = "negative" THEN NoHit
      ELSE IF Classify(discriminant) = "zero" THEN HitAt(At2A(Neg(b)))
      ELSE [kind |-> "two_points", points |-> <<At2A(Sub(Neg(b), Root(discriminant))),
                                                At2A(Add(Neg(b), Root(discriminant)))>>]

\* The line, if any: none when the normals are parallel.
PlanePlane(A, B) ==
  LET aa  == Norm2(A.normal)
      bb  == Norm2(B.normal)
      ab  == DotV(A.normal, B.normal)
      det == Sub(Mul(aa, bb), Mul(ab, ab))
      ca  == Div(Sub(Mul(A.offset, bb), Mul(B.offset, ab)), det)
      cb  == Div(Sub(Mul(B.offset, aa), Mul(A.offset, ab)), det)
  IN  IF Classify(det) = "zero" THEN <<>>
      ELSE <<[origin    |-> AddV(ScaleV(A.normal, ca), ScaleV(B.normal, cb)),
              direction |-> CrossV(A.normal, B.normal)]>>

ClosestParam(line, p) == Div(DotV(SubV(p, line.origin), line.direction), Norm2(line.direction))

-----------------------------------------------------------------------------
(* Curves through or near control points, one term for each axis.           *)

Curve(axes)      == [error |-> "none", axes |-> axes]
CurveRefused(e)  == [error |-> e]
Misshapen(points) ==
  IF \E p, q \in Range(points) : Len(p) # Len(q) THEN "DimensionMismatch"
  ELSE IF points = <<>> \/ points[1] = <<>> THEN "EmptyControlPoints" ELSE "none"

Binomial(n, k) == FoldLeft(LAMBDA c, i : (c * (n - i)) \div (i + 1), 1,
                           [m \in 1..(IF k < n - k THEN k ELSE n - k) |-> m - 1])

Bezier(control, x) ==
  LET degree == Len(control) - 1
      Basis(i) == Mul(Mul(Lit(Binomial(degree, i)), Pow(Var(x), Lit(i))),
                      Pow(Sub(Lit(1), Var(x)), Lit(degree - i)))
      Axis(k) == FoldLeft(LAMBDA sum, i : Add(sum, Mul(Basis(i - 1), control[i][k])),
                          Lit(0), [i \in DOMAIN control |-> i])
  IN  IF Len(control) > MaxControl THEN CurveRefused("TooManyControlPoints")
      ELSE IF Misshapen(control) # "none" THEN CurveRefused(Misshapen(control))
      ELSE Curve([k \in DOMAIN control[1] |-> Axis(k)])

KnotStep(a, b, spacing) ==
  LET Squared(k) == Mul(Sub(a[k], b[k]), Sub(a[k], b[k]))
      distance == Root(FoldLeft(LAMBDA sum, k : Add(sum, Squared(k)), Lit(0), [k \in DOMAIN a |-> k]))
  IN  CASE spacing = "uniform" -> Lit(1)
        [] spacing = "chordal" -> distance
        [] spacing = "centripetal" -> Root(distance)

Blend(t, lo, hi, p, q) ==
  [k \in DOMAIN p |-> Div(Add(Mul(Sub(hi, t), p[k]), Mul(Sub(t, lo), q[k])), Sub(hi, lo))]

\* Barry and Goldman's pyramid over the knots u.
Pyramid(p, u, t) ==
  LET A(k) == Blend(t, u[k], u[k + 1], p[k], p[k + 1])
      B(k) == Blend(t, u[k], u[k + 2], A(k), A(k + 1))
  IN  Blend(t, u[2], u[3], B(1), B(2))

\* From p[2] at 0 to p[3] at 1.
CatmullRom(p, spacing, x) ==
  LET step == [k \in 1..3 |-> KnotStep(p[k], p[k + 1], spacing)]
      t2 == Add(step[1], step[2])
  IN  IF Misshapen(p) # "none" THEN CurveRefused(Misshapen(p))
      ELSE Curve(Pyramid(p, <<Lit(0), step[1], t2, Add(t2, step[3])>>, Add(step[1], Mul(Var(x), step[2]))))

Reflect(far, near) == [k \in DOMAIN near |-> Sub(Mul(Lit(2), near[k]), far[k])]

\* 1 where t is not negative, else 0.
StepGeZero(t) == Div(Add(Fn("Sign", <<t>>), Fn("Abs", <<Fn("Sign", <<t>>)>>)), Lit(2))

\* The segments end to end, each over one unit of the parameter.
CatmullRomThrough(points, spacing, x) ==
  LET n == Len(points)
      Before(i) == IF i = 1 THEN Reflect(points[2], points[1]) ELSE points[i - 1]
      After(i)  == IF i + 2 > n THEN Reflect(points[n - 1], points[n]) ELSE points[i + 2]
      Segment(i) == CatmullRom(<<Before(i), points[i], points[i + 1], After(i)>>, spacing, x).axes
      Moved(i, k) == Substitute(Segment(i)[k], x, Sub(Var(x), Lit(i - 1)))
      Axis(k) == FoldRight(LAMBDA i, rest : Cond(StepGeZero(Sub(Lit(i), Var(x))), Moved(i, k), rest),
                           [i \in 1..(n - 2) |-> i], Moved(n - 1, k))
  IN  IF n < 2 THEN CurveRefused("TooFewPoints")
      ELSE IF Misshapen(points) # "none" THEN CurveRefused(Misshapen(points))
      ELSE Curve([k \in DOMAIN points[1] |-> Axis(k)])

-----------------------------------------------------------------------------
(* NURBS: [degree, points, knots], a point <<wx, wy, wz, w>>, indices from 0. *)

KnotAt(c, i)  == c.knots[i + 1]
PointAt(c, i) == c.points[i + 1]
LastPoint(c)  == Len(c.points) - 1
Domain(c)     == <<KnotAt(c, c.degree), KnotAt(c, LastPoint(c) + 1)>>
Cartesian(h)  == [k \in 1..3 |-> DivR(h[k], h[4])]

NewNurbs(degree, points, weights, knots) ==
  IF \/ degree = 0 \/ Len(points) # Len(weights) \/ Len(points) <= degree
     \/ Len(knots) # Len(points) + degree + 1
     \/ \E i \in 2..Len(knots) : LtR(knots[i], knots[i - 1])
     \/ \E i \in DOMAIN weights : ~LtR(Zero, weights[i])
  THEN Raised("InvalidCurve")
  ELSE Gave([degree |-> degree, knots |-> knots,
             points |-> [i \in DOMAIN points |->
                          Append([k \in 1..3 |-> MulR(points[i][k], weights[i])], weights[i])]])

ClampedNurbs(degree, points, weights) ==
  LET interior == Len(points) - degree - 1
  IN  IF Len(points) <= degree THEN Raised("InvalidCurve")
      ELSE NewNurbs(degree, points, weights,
                    [i \in 1..(degree + 1) |-> Zero] \o [i \in 1..interior |-> Rat(i, interior + 1)]
                    \o [i \in 1..(degree + 1) |-> One])

\* The sweep is given by the cosine and the sine of its half.
CircularArc(centre, radius, half) ==
  LET At(x, y) == <<AddR(centre[1], MulR(radius, x)), AddR(centre[2], MulR(radius, y)), centre[3]>>
      c == half[1]
      s == half[2]
  IN  IF ~LtR(Zero, radius) \/ ~LtR(Zero, c) \/ ~LtR(Zero, s) THEN Raised("InvalidCurve")
      ELSE NewNurbs(2, <<At(One, Zero), At(One, DivR(s, c)),
                         At(SubR(MulR(c, c), MulR(s, s)), MulR(Two, MulR(c, s)))>>,
                    <<One, c, One>>, <<Zero, Zero, Zero, One, One, One>>)

\* The knot interval of t, by bisection.
RECURSIVE Bisected(_, _, _, _)
Bisected(c, t, lo, hi) ==
  LET mid == (lo + hi) \div 2
  IN  IF LtR(t, KnotAt(c, mid)) THEN Bisected(c, t, lo, mid)
      ELSE IF LeR(KnotAt(c, mid + 1), t) THEN Bisected(c, t, mid, hi)
      ELSE mid
Span(c, t) ==
  IF LeR(KnotAt(c, LastPoint(c) + 1), t) THEN LastPoint(c)
  ELSE Bisected(c, t, c.degree, LastPoint(c) + 1)

ClampedTo(ab, t) == IF LtR(t, ab[1]) THEN ab[1] ELSE IF LtR(ab[2], t) THEN ab[2] ELSE t

Mix(p, q, alpha) == [k \in 1..4 |-> AddR(MulR(p[k], SubR(One, alpha)), MulR(q[k], alpha))]
Alpha(c, t, r, i) ==
  LET width == SubR(KnotAt(c, i + c.degree + 1 - r), KnotAt(c, i))
  IN  IF width = Zero THEN Zero ELSE DivR(SubR(t, KnotAt(c, i)), width)

\* One round of de Boor: the points r..degree are replaced, the last first.
Round(c, t, first, d, r) ==
  [j \in 0..c.degree |-> IF j < r THEN d[j] ELSE Mix(d[j - 1], d[j], Alpha(c, t, r, j + first))]

DeBoor(c, at) ==
  LET t == ClampedTo(Domain(c), at)
      first == Span(c, t) - c.degree
  IN  Cartesian(FoldLeft(LAMBDA d, r : Round(c, t, first, d, r), [j \in 0..c.degree |-> PointAt(c, j + first)],
                         [r \in 1..c.degree |-> r])[c.degree])

CoxTerm(basis, numerator, width) ==
  IF width = Zero THEN <<>> ELSE <<Mul(Div(numerator, Num(width)), basis)>>

\* The basis functions that are not zero on span k, by degree.
SpanBasis(c, k, x) ==
  LET Raise(cur, q) ==
        [j \in 0..q |->
          LET i == k + j - q
              left  == IF j = 0 THEN <<>>
                       ELSE CoxTerm(cur[j - 1], Sub(Var(x), Num(KnotAt(c, i))),
                                    SubR(KnotAt(c, i + q), KnotAt(c, i)))
              right == IF j = q THEN <<>>
                       ELSE CoxTerm(cur[j], Sub(Num(KnotAt(c, i + q + 1)), Var(x)),
                                    SubR(KnotAt(c, i + q + 1), KnotAt(c, i + 1)))
          IN  FoldLeft(Add, Lit(0), left \o right)]
  IN  FoldLeft(Raise, [j \in {0} |-> Lit(1)], [q \in 1..c.degree |-> q])

SpanExpression(c, k, x) ==
  LET basis == SpanBasis(c, k, x)
      Axis(a) == FoldLeft(LAMBDA sum, j : Add(sum, Mul(Num(PointAt(c, j + k - c.degree)[a]), basis[j])),
                          Lit(0), [j \in 1..(c.degree + 1) |-> j - 1])
  IN  [a \in 1..3 |-> Div(Axis(a), Axis(4))]

\* The direction of the tangent, its length left out: the code divides by it.
Tangent(c, at) ==
  LET t == ClampedTo(Domain(c), at)
      slopes == [a \in 1..3 |-> DualValue(SpanExpression(c, Span(c, t), "t")[a], [x \in {"t"} |-> Dual(t, One)])]
  IN  IF \E a \in 1..3 : ~slopes[a].ok THEN Raised("Expression") ELSE Gave([a \in 1..3 |-> slopes[a].d])

\* length: of the control polygon.  The least n with n * n * tolerance >= length.
SegmentCount(length, tolerance) ==
  CHOOSE n \in 2..MaxSegments :
    /\ n = MaxSegments \/ LeR(length, MulR(Int2Rat(n * n), tolerance))
    /\ n = 2 \/ LtR(MulR(Int2Rat((n - 1) * (n - 1)), tolerance), length)

Tessellated(c, tolerance) ==
  LET corners == [i \in DOMAIN c.points |-> Cartesian(c.points[i])]
      Side(i) == SquareRoot(FoldLeft(LAMBDA sum, k : AddR(sum, PowR(SubR(corners[i + 1][k], corners[i][k]), 2)),
                                     Zero, <<1, 2, 3>>))
      length == FoldLeft(LAMBDA sum, i : AddR(sum, Side(i)), Zero, [i \in 1..LastPoint(c) |-> i])
      n == SegmentCount(length, tolerance)
      lo == Domain(c)[1]
      hi == Domain(c)[2]
  IN  IF ~LtR(Zero, tolerance) THEN Raised("InvalidTolerance")
      ELSE Gave([i \in 1..(n + 1) |-> DeBoor(c, AddR(lo, MulR(SubR(hi, lo), Rat(i - 1, n))))])

-----------------------------------------------------------------------------
(* The classes.  An operand is [class, term].  A tree is refused at the budget *)
(* already: the walk needs one more turn to find its stack empty.           *)

Bounded(t) == Nodes(t) < SequenceCap
BoundedV(v) == \A k \in 1..3 : Bounded(v[k])

CoordinateRefused(arg) ==
  Screen(<< <<arg.class = "bool", "TypeError">>,
            <<arg.class = "Expression" /\ ~Bounded(arg.term), "ValueError">>,
            <<arg.class = "nonfinite", "ValueError">>,
            <<OperandRefused({arg.class}), "TypeError">> >>)

Self  == held[Call.self]
Other == held[Call.other]

\* A refused call stores nothing.
Store(made) ==
  /\ Reply(IF made.raised = "none" THEN Gave(Call.to) ELSE made)
  /\ held' = IF made.raised = "none" THEN [held EXCEPT ![Call.to] = made.value] ELSE held
Answer(reply) == Reply(reply) /\ UNCHANGED held

\* What needs an operand of the caller refuses it first.
WithOperand(result) ==
  IF CoordinateRefused(Call.arg) # "none" THEN Raised(CoordinateRefused(Call.arg)) ELSE Gave(result)
Within(vectors, reply) == IF \E v \in vectors : ~BoundedV(v) THEN Raised("ValueError") ELSE reply

\* Coordinates are converted in order; only a sequence can have too few or too many.
VectorOf(args) ==
  LET why == Screen([k \in DOMAIN args |-> <<CoordinateRefused(args[k]) # "none", CoordinateRefused(args[k])>>])
  IN  IF why # "none" THEN Raised(why) ELSE Gave([k \in 1..3 |-> args[k].term])
FromSequence(args) == IF Len(args) # 3 THEN Raised("ValueError") ELSE VectorOf(args)

MakesVector == {"Vector", "from_sequence", "zero", "add", "sub", "cross", "neg", "scale"}
MakeVector ==
  /\ Calling("geometry") /\ Call.op \in MakesVector
  /\ Store(CASE Call.op = "Vector"        -> VectorOf(Call.args)
             [] Call.op = "from_sequence" -> FromSequence(Call.args)
             [] Call.op = "zero"          -> Gave([k \in 1..3 |-> Lit(0)])
             [] Call.op = "add"           -> Gave(AddV(Self, Other))
             [] Call.op = "sub"           -> Gave(SubV(Self, Other))
             [] Call.op = "cross"         -> Gave(CrossV(Self, Other))
             [] Call.op = "neg"           -> Gave(ScaleV(Self, Lit(-1)))
             [] Call.op = "scale"         -> WithOperand(ScaleV(Self, Call.arg.term)))

\* The dictionary first, its size and then its entries (envAs: the classes of the
\* values); a component that has no value refuses the vector.
EvaluateVector(v, call) ==
  LET values == [k \in 1..3 |-> ValueAt(v[k], call.env)]
  IN  IF Cardinality(DOMAIN call.env) > SequenceCap THEN Raised("ValueError")
      ELSE IF ~(call.envAs \subseteq {"int", "float"}) THEN Raised("TypeError")
      ELSE IF \E k \in 1..3 : ~values[k].ok THEN Raised("ValueError")
      ELSE Gave([k \in 1..3 |-> values[k].v])

Component(v, index) ==
  LET at == IF index < 0 THEN index + 3 ELSE index
  IN  IF at \in 0..2 THEN Gave(v[at + 1]) ELSE Raised("IndexError")

ReadVector ==
  /\ Calling("geometry")
  /\ Call.op \in {"dot", "magnitude_squared", "magnitude", "evaluate", "component", "components"}
  /\ Answer(CASE Call.op = "dot"               -> Gave(DotV(Self, Other))
              [] Call.op = "magnitude_squared" -> Gave(Norm2(Self))
              [] Call.op = "magnitude"         -> Gave(Root(Norm2(Self)))
              [] Call.op = "evaluate"          -> EvaluateVector(Self, Call)
              [] Call.op = "component"         -> Component(Self, Call.index)
              [] Call.op = "components"        -> Gave(Self))

LineCall ==
  \/ /\ Calling("geometry") /\ Call.op = "Line"
     /\ Store(Within({Self, Other}, Gave([origin |-> Self, direction |-> Other])))
  \/ /\ Calling("geometry") /\ Call.op = "at"
     /\ Store(WithOperand(LineAt(Self, Call.arg.term)))

PlaneCall ==
  \/ /\ Calling("geometry") /\ Call.op = "Plane"
     /\ Store(Within({Self}, WithOperand([normal |-> Self, offset |-> Call.arg.term])))
  \/ /\ Calling("geometry") /\ Call.op = "signed_distance"
     /\ Answer(Within({Other}, Gave(SignedDistance(Self, Other))))

\* A radius with a free name may have any sign.
SphereOf(centre, arg) ==
  LET reply == WithOperand([centre |-> centre, radius |-> arg.term])
      worth == ValueAt(arg.term, <<>>)
  IN  IF reply.raised = "none" /\ worth.ok /\ LtR(worth.v, Zero) THEN Raised("ValueError") ELSE reply
SphereCall ==
  \/ /\ Calling("geometry") /\ Call.op = "Sphere"
     /\ Store(Within({Self}, SphereOf(Self, Call.arg)))
  \/ /\ Calling("geometry") /\ Call.op = "radius_squared"
     /\ Answer(Gave(Mul(Self.radius, Self.radius)))

Intersect ==
  /\ Calling("geometry") /\ Call.op \in {"line_plane", "line_sphere", "plane_plane"}
  /\ Store(Gave(CASE Call.op = "line_plane"  -> LinePlane(Self, Other)
                  [] Call.op = "line_sphere" -> LineSphere(Self, Other)
                  [] Call.op = "plane_plane" -> PlanePlane(Self, Other)))

ReadHits ==
  /\ Calling("geometry") /\ Call.op \in {"point", "truth"}
  /\ Answer(Gave(CASE Call.op = "truth" -> Self.kind # "none"
                   [] Call.op = "point" -> IF Self.points = <<>> THEN <<>> ELSE <<Self.points[1]>>))

ClosestCall ==
  \/ /\ Calling("geometry") /\ Call.op = "closest_param"
     /\ Answer(Gave(ClosestParam(Self, Other)))
  \/ /\ Calling("geometry") /\ Call.op = "closest_point"
     /\ Store(Gave(LineAt(Self, ClosestParam(Self, Other))))

\* Curves are called from Rust.
CurveCall ==
  /\ Calling("geometry") /\ Call.op \in {"bezier", "catmull_rom", "through"}
  /\ Answer(Gave(CASE Call.op = "bezier"      -> Bezier(Call.points, "t")
                   [] Call.op = "catmull_rom" -> CatmullRom(Call.points, Call.spacing, "t")
                   [] Call.op = "through"     -> CatmullRomThrough(Call.points, Call.spacing, "t")))

MakeNurbs ==
  /\ Calling("geometry") /\ Call.op \in {"nurbs", "clamped", "polyline", "arc"}
  /\ Store(CASE Call.op = "nurbs"    -> NewNurbs(Call.degree, Call.points, Call.weights, Call.knots)
             [] Call.op = "clamped"  -> ClampedNurbs(Call.degree, Call.points, Call.weights)
             [] Call.op = "polyline" -> ClampedNurbs(1, Call.points, [i \in DOMAIN Call.points |-> One])
             [] Call.op = "arc"      -> CircularArc(Call.points[1], Call.radius, Call.half))

ReadNurbs ==
  /\ Calling("geometry") /\ Call.op \in {"curve_at", "span_expression", "tangent", "to_polyline"}
  /\ Answer(CASE Call.op = "curve_at"        -> Gave(DeBoor(Self, Call.t))
              [] Call.op = "span_expression" -> Gave(SpanExpression(Self, Span(Self, ClampedTo(Domain(Self), Call.t)), "t"))
              [] Call.op = "tangent"         -> Tangent(Self, Call.t)
              [] Call.op = "to_polyline"     -> Tessellated(Self, Call.tolerance))

GeometryNext == MakeVector \/ ReadVector \/ LineCall \/ PlaneCall \/ SphereCall \/ Intersect \/ ReadHits
                \/ ClosestCall \/ CurveCall \/ MakeNurbs \/ ReadNurbs
=============================================================================
