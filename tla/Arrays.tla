------------------------------- MODULE Arrays -------------------------------
(***************************************************************************)
(* Matrices and tensors (matrix.rs, tensor.rs, pyfacade/linalg.rs).  A cell *)
(* of a matrix is a rational, a cell of a tensor an uninterpreted symbol,   *)
(* so the cells of a contraction come back as the sums of products built.  *)
(***************************************************************************)
EXTENDS Rationals, Sequences, FiniteSets, SequencesExt, Calls

CONSTANTS MaxDimension,        \* MAX_DIMENSION
          MaxOrder,            \* MAX_DETERMINANT_ORDER
          MaxRank, MaxCells,   \* MAX_RANK, MAX_CELLS
          FacadeRank,          \* MAX_TENSOR_RANK
          ScanSteps,           \* EIGEN_SCAN_STEPS
          ScanHalvings         \* halvings of one bracket before it is narrow

ASSUME ArraysAssumption ==
  /\ {MaxDimension, MaxOrder, MaxRank, MaxCells, ScanHalvings} \subseteq Nat
  /\ ScanSteps \in Nat \ {0}

Ok(v)   == [error |-> "none", value |-> v]
Refusal(e) == [error |-> e]
Largest(S)  == CHOOSE n \in S : \A k \in S : k <= n
Smallest(S) == CHOOSE n \in S : \A k \in S : n <= k
SumOf(q)  == FoldLeft(AddR, Zero, q)
Product(q) == FoldLeft(LAMBDA a, b : a * b, 1, q)

-----------------------------------------------------------------------------
(* Permutations: the successor in lexicographic order, and the loop over them. *)

\* The places that rise, and the last element to the right of place i above p[i].
Ascents(p) == {i \in 1..(Len(p) - 1) : p[i] < p[i + 1]}
LastAbove(p, i) == Largest({k \in i..Len(p) : p[k] > p[i]})
Swapped(p, i, j) == [k \in 1..Len(p) |-> p[IF k = i THEN j ELSE IF k = j THEN i ELSE k]]
TailReversed(p, i) == SubSeq(p, 1, i) \o Reverse(SubSeq(p, i + 1, Len(p)))
SwappedAt(p, i) == Swapped(p, i, LastAbove(p, i))

\* Variant for the mutants: the tail is not reversed.
NextWithoutReversal(p) ==
  IF Ascents(p) = {} THEN <<>> ELSE SwappedAt(p, Largest(Ascents(p)))

\* Pivot on the last ascent, swap in the last larger element, reverse the tail.
NextPermutation(p) ==
  IF Ascents(p) = {} THEN <<>>
  ELSE TailReversed(SwappedAt(p, Largest(Ascents(p))), Largest(Ascents(p)))

IsOdd(p) ==
  Cardinality({ij \in (DOMAIN p) \X (DOMAIN p) :
                 ij[1] < ij[2] /\ p[ij[1]] > p[ij[2]]}) % 2 = 1

\* The permutations the expansion of order n visits, at most n! of them.
Visited(n) ==
  LET Step(seen, k) == LET next == NextPermutation(Last(seen))
                       IN  IF next = <<>> THEN seen ELSE Append(seen, next)
      Limit == Product([k \in 1..n |-> k])
  IN  FoldLeft(Step, <<[k \in 1..n |-> k - 1]>>, [k \in 1..(Limit - 1) |-> k])

\* The sign of each as well, tabulated once for every order in use.
WithSigns(perms) == [k \in DOMAIN perms |-> [perm |-> perms[k], odd |-> IsOdd(perms[k])]]
Expansion == [n \in 0..MaxOrder |-> WithSigns(Visited(n))]

-----------------------------------------------------------------------------
(* Matrices: [rows, cols, cells], the cells row by row. *)

Matrix(r, c, cells) == [rows |-> r, cols |-> c, cells |-> cells]
Cell(M, i, j) == M.cells[i * M.cols + j + 1]        \* i and j from 0
Build(r, c, F(_, _)) ==
  Matrix(r, c, [k \in 1..(r * c) |-> F((k - 1) \div c, (k - 1) % c)])

Zeros(r, c) ==
  IF r > MaxDimension \/ c > MaxDimension THEN Refusal("TooLarge")
  ELSE Ok(Build(r, c, LAMBDA i, j : Zero))

Identity(n) ==
  IF n > MaxDimension THEN Refusal("TooLarge")
  ELSE Ok(Build(n, n, LAMBDA i, j : IF i = j THEN One ELSE Zero))

FromRows(rows) ==
  LET width == IF rows = <<>> THEN 0 ELSE Len(rows[1])
  IN  IF \E i \in DOMAIN rows : Len(rows[i]) # width THEN Refusal("DimensionMismatch")
      ELSE IF Len(rows) > MaxDimension \/ width > MaxDimension THEN Refusal("TooLarge")
      ELSE Ok(Matrix(Len(rows), width, FlattenSeq(rows)))

InBounds(M, i, j) == i \in 0..(M.rows - 1) /\ j \in 0..(M.cols - 1)
GetCell(M, i, j) == IF InBounds(M, i, j) THEN Ok(Cell(M, i, j)) ELSE Refusal("OutOfBounds")
SetCell(M, i, j, v) ==
  IF InBounds(M, i, j) THEN Ok([M EXCEPT !.cells[i * M.cols + j + 1] = v])
  ELSE Refusal("OutOfBounds")

Transpose(M) == Build(M.cols, M.rows, LAMBDA i, j : Cell(M, j, i))

ZipWith(A, B, Combine(_, _)) ==
  IF A.rows # B.rows \/ A.cols # B.cols THEN Refusal("DimensionMismatch")
  ELSE Ok([A EXCEPT !.cells = [k \in DOMAIN A.cells |->
                                 Combine(A.cells[k], B.cells[k])]])
AddM(A, B) == ZipWith(A, B, AddR)
SubM(A, B) == ZipWith(A, B, SubR)
ScaleM(M, s) == [M EXCEPT !.cells = [k \in DOMAIN M.cells |-> MulR(s, M.cells[k])]]

MatMul(A, B) ==
  IF A.cols # B.rows THEN Refusal("DimensionMismatch")
  ELSE Ok(Build(A.rows, B.cols, LAMBDA i, j :
            SumOf([k \in 1..A.cols |-> MulR(Cell(A, i, k - 1), Cell(B, k - 1, j))])))

IsSquare(M) == M.rows = M.cols

Trace(M) == IF ~IsSquare(M) THEN Refusal("NotSquare")
            ELSE Ok(SumOf([i \in 1..M.rows |-> Cell(M, i - 1, i - 1)]))

\* One signed product per permutation; the empty determinant is 1.
Signed(odd, r) == IF odd THEN NegR(r) ELSE r
LeibnizTerm(M, p) ==
  Signed(p.odd, FoldLeft(MulR, One, [i \in DOMAIN p.perm |-> Cell(M, i - 1, p.perm[i])]))
LeibnizSum(M, terms) == SumOf([k \in DOMAIN terms |-> LeibnizTerm(M, terms[k])])

Determinant(M) ==
  IF ~IsSquare(M) THEN Refusal("NotSquare")
  ELSE IF M.rows > MaxOrder THEN Refusal("TooLarge")
  ELSE Ok(LeibnizSum(M, Expansion[M.rows]))

Minor(M, i, j) ==
  IF ~IsSquare(M) THEN Refusal("NotSquare")
  ELSE IF ~InBounds(M, i, j) THEN Refusal("OutOfBounds")
  ELSE Ok(Build(M.rows - 1, M.cols - 1, LAMBDA a, b :
            Cell(M, IF a < i THEN a ELSE a + 1, IF b < j THEN b ELSE b + 1)))

Mapped(r, F(_)) == IF r.error # "none" THEN r ELSE Ok(F(r.value))
Cofactor(M, i, j) ==
  LET minor == Minor(M, i, j)
  IN  IF minor.error # "none" THEN minor
      ELSE Mapped(Determinant(minor.value), LAMBDA det : Signed((i + j) % 2 = 1, det))

Adjugate(M) ==
  IF ~IsSquare(M) THEN Refusal("NotSquare")
  ELSE IF M.rows > MaxOrder + 1 THEN Refusal("TooLarge")
  ELSE IF M.rows = 1 THEN FromRows(<<<<One>>>>)
  ELSE Ok(Build(M.rows, M.cols, LAMBDA i, j : Cofactor(M, j, i).value))

\* The adjugate over one shared determinant, refused when that is exactly 0.
InverseOver(M, det) ==
  IF det.error # "none" THEN det
  ELSE IF det.value = Zero THEN Refusal("Singular")
  ELSE IF M.rows = 1 THEN FromRows(<<<<DivR(One, det.value)>>>>)
  ELSE Ok(ScaleM(Adjugate(M).value, DivR(One, det.value)))
InverseM(M) == InverseOver(M, Determinant(M))

-----------------------------------------------------------------------------
(* Eigenvalues: sign changes of det(A - x I) across the Gershgorin window. *)

CharPoly(M, x) ==
  IF ~IsSquare(M) THEN Refusal("NotSquare")
  ELSE Determinant(Build(M.rows, M.cols, LAMBDA i, j :
         IF i = j THEN SubR(Cell(M, i, i), x) ELSE Cell(M, i, j)))

RowSum(M, i) == SumOf([j \in 1..M.cols |-> AbsR(Cell(M, i, j - 1))])
GershgorinBound(M) == MaxR({Zero} \cup {RowSum(M, i) : i \in 0..(M.rows - 1)})

CharSign(M, x) == CharPoly(M, x).value[1]

\* A root of the bracket: halved until its midpoint is one, or it is narrow.
BisectedRoot(M, a, b) ==
  LET Halve(ab, k) ==
        IF ab[1] = ab[2] THEN ab
        ELSE HalfKept(ab, Middle(ab), CharSign(M, Middle(ab)), CharSign(M, ab[1]))
  IN  Middle(FoldLeft(Halve, <<a, b>>, [k \in 1..ScanHalvings |-> k]))

\* A root closer than half a step to a recorded one is taken for the same.
PushRoot(roots, x, dx) ==
  IF \E r \in roots : LeR(AbsR(SubR(r, x)), DivR(dx, Int2Rat(2)))
  THEN roots ELSE roots \cup {x}

ScanStep(M) == DivR(AddR(MulR(Int2Rat(2), GershgorinBound(M)), Int2Rat(2)), Int2Rat(ScanSteps))
ScanPoint(M, i) == AddR(NegR(AddR(GershgorinBound(M), One)), MulR(ScanStep(M), Int2Rat(i)))

\* The samples in order; signs[i] is the sign at points[i].
ScanRoots(M, points, signs, dx) ==
  LET Visit(roots, i) ==
        IF signs[i] = 0 THEN PushRoot(roots, points[i], dx)
        ELSE IF i > 0 /\ signs[i - 1] * signs[i] < 0
             THEN PushRoot(roots, BisectedRoot(M, points[i - 1], points[i]), dx)
        ELSE roots
  IN  FoldLeft(Visit, {}, [i \in 1..(ScanSteps + 1) |-> i - 1])

EigenvaluesReal(M) ==
  IF ~IsSquare(M) THEN Refusal("NotSquare")
  ELSE IF M.rows > MaxOrder THEN Refusal("TooLarge")
  ELSE IF M.rows = 0 THEN Ok({})
  ELSE Ok(ScanRoots(M, [i \in 0..ScanSteps |-> ScanPoint(M, i)],
                    [i \in 0..ScanSteps |-> CharSign(M, ScanPoint(M, i))], ScanStep(M)))

-----------------------------------------------------------------------------
(* Tensors: [shape, cells], row-major; an axis is numbered from 0. *)

Tensor(shape, cells) == [shape |-> shape, cells |-> cells]
Rank(t) == Len(t.shape)
Extent(t, axis) == t.shape[axis + 1]

\* The product is tested after every factor, so a late zero comes too late.
CheckedCellCount(shape) ==
  IF Len(shape) > MaxRank THEN Refusal("TooLarge")
  ELSE IF \E k \in DOMAIN shape : Product(SubSeq(shape, 1, k)) > MaxCells
       THEN Refusal("TooLarge")
  ELSE Ok(Product(shape))

Strides(shape) == [k \in DOMAIN shape |-> Product(SubSeq(shape, k + 1, Len(shape)))]

Offset(t, index) ==
  IF Len(index) # Rank(t) \/ \E k \in DOMAIN index : index[k] >= t.shape[k]
  THEN Refusal("BadIndex")
  ELSE Ok(FoldLeft(LAMBDA flat, k : flat * t.shape[k] + index[k], 0,
                   [k \in DOMAIN index |-> k]))

GetAt(t, index) ==
  LET at == Offset(t, index)
  IN  IF at.error # "none" THEN at ELSE Ok(t.cells[at.value + 1])
SetAt(t, index, v) ==
  LET at == Offset(t, index)
  IN  IF at.error # "none" THEN at ELSE Ok([t EXCEPT !.cells[at.value + 1] = v])

Reshape(t, shape) ==
  LET wanted == CheckedCellCount(shape)
  IN  IF wanted.error # "none" THEN wanted
      ELSE IF wanted.value # Len(t.cells) THEN Refusal("ReshapeMismatch")
      ELSE Ok(Tensor(shape, t.cells))

Origin(shape) == [k \in DOMAIN shape |-> 0]

\* Carries from the last axis; the first that does not wrap stops the carry.
AdvanceOdometer(counter, shape) ==
  LET free == {k \in DOMAIN counter : counter[k] + 1 < shape[k]}
      stop == IF free = {} THEN 0 ELSE Largest(free)
  IN  [k \in DOMAIN counter |-> IF k > stop THEN 0
                                ELSE IF k = stop THEN counter[k] + 1
                                ELSE counter[k]]

\* The counters met by `count` steps of the odometer, from `start`.
Readings(start, shape, count) ==
  FoldLeft(LAMBDA seen, k : Append(seen, AdvanceOdometer(Last(seen), shape)),
           <<start>>, [k \in 1..count |-> k])

DistinctInRange(axes, rank) ==
  /\ Len(axes) <= rank
  /\ \A k \in DOMAIN axes : axes[k] < rank
  /\ \A k, l \in DOMAIN axes : k # l => axes[k] # axes[l]
IsPermutation(axes, rank) == Len(axes) = rank /\ DistinctInRange(axes, rank)
FreeAxes(rank, used) ==
  SelectSeq([k \in 1..rank |-> k - 1], LAMBDA axis : axis \notin Range(used))

\* The flat offset reached by standing at `counter` on the given axes.
BaseOf(t, counter, axes) ==
  FoldLeft(LAMBDA base, k : base + counter[k] * Strides(t.shape)[axes[k] + 1],
           0, [k \in DOMAIN axes |-> k])

PermuteAxes(t, axes) ==
  LET shape == [k \in DOMAIN axes |-> Extent(t, axes[k])]
      walk == Readings(Origin(shape), shape, Len(t.cells))
  IN  IF ~IsPermutation(axes, Rank(t)) THEN Refusal("BadPermutation")
      ELSE Ok(Tensor(shape, [n \in DOMAIN t.cells |->
                               t.cells[BaseOf(t, walk[n], axes) + 1]]))

ZipTensors(a, b) ==
  IF a.shape # b.shape THEN Refusal("ShapeMismatch")
  ELSE Ok([a EXCEPT !.cells = [n \in DOMAIN a.cells |-> <<a.cells[n], b.cells[n]>>]])

\* Both axes step together, so their strides add.
TraceAxes(t, a, b) ==
  LET kept == FreeAxes(Rank(t), <<a, b>>)
      shape == [k \in DOMAIN kept |-> Extent(t, kept[k])]
      count == CheckedCellCount(shape)
      diagonal == Strides(t.shape)[a + 1] + Strides(t.shape)[b + 1]
      walk == Readings(Origin(shape), shape, count.value)
  IN  IF ~DistinctInRange(<<a, b>>, Rank(t)) THEN Refusal("BadAxes")
      ELSE IF Extent(t, a) # Extent(t, b) THEN Refusal("AxisMismatch")
      ELSE IF count.error # "none" THEN count
      ELSE Ok(Tensor(shape, [n \in 1..count.value |->
                [s \in 1..Extent(t, a) |->
                   t.cells[BaseOf(t, walk[n], kept) + (s - 1) * diagonal + 1]]]))

\* The inner odometer is never reset: it is carried from cell to cell.
TensorDot(a, b, axesA, axesB) ==
  LET freeA == FreeAxes(Rank(a), axesA)
      freeB == FreeAxes(Rank(b), axesB)
      shape == [k \in DOMAIN freeA |-> Extent(a, freeA[k])]
               \o [k \in DOMAIN freeB |-> Extent(b, freeB[k])]
      inner == [k \in DOMAIN axesA |-> Extent(a, axesA[k])]
      count == CheckedCellCount(shape)
      turns == CheckedCellCount(inner)
      walk == Readings(Origin(shape), shape, count.value)
      spins == Readings(Origin(inner), inner, count.value * turns.value)
      ShareA(n) == SubSeq(walk[n], 1, Len(freeA))
      ShareB(n) == SubSeq(walk[n], Len(freeA) + 1, Len(shape))
      TermAt(n, s) ==
        LET spin == spins[(n - 1) * turns.value + s]
        IN  <<a.cells[BaseOf(a, ShareA(n), freeA) + BaseOf(a, spin, axesA) + 1],
              b.cells[BaseOf(b, ShareB(n), freeB) + BaseOf(b, spin, axesB) + 1]>>
  IN  IF Len(axesA) # Len(axesB) THEN Refusal("BadAxes")
      ELSE IF ~DistinctInRange(axesA, Rank(a)) THEN Refusal("BadAxes")
      ELSE IF ~DistinctInRange(axesB, Rank(b)) THEN Refusal("BadAxes")
      ELSE IF \E k \in DOMAIN axesA : Extent(a, axesA[k]) # Extent(b, axesB[k])
           THEN Refusal("AxisMismatch")
      ELSE IF count.error # "none" THEN count
      ELSE IF turns.error # "none" THEN turns
      ELSE Ok(Tensor(shape, [n \in 1..count.value |->
                               [s \in 1..turns.value |-> TermAt(n, s)]]))

-----------------------------------------------------------------------------
(***************************************************************************)
(* Matrix and Tensor as Python sees them (pyfacade/linalg.rs).  The facade  *)
(* has caps of its own: it bounds the number of cells, never an extent, and *)
(* admits a rank the kernel then refuses to compute with.                  *)
(***************************************************************************)

\* What a kernel refuses is a ValueError.
Checked(result) == IF result.error = "none" THEN Gave(result.value) ELSE Raised("ValueError")

\* cells: [values, classes], a Python list and what its items are.
CellsRefused(cells) ==
  Screen(<< <<"str" \in cells.classes, "TypeError">>,
            <<Len(cells.values) > SequenceCap, "ValueError">>,
            <<OperandRefused(cells.classes), "TypeError">> >>)
AreaRefused(r, c) == r * c > SequenceCap

\* The product of the extents so far is tested at every axis.
ShapeRefused(shape) ==
  \/ Len(shape) > FacadeRank
  \/ \E k \in DOMAIN shape : shape[k] < 0
  \/ \E k \in DOMAIN shape : Product(SubSeq(shape, 1, k)) > SequenceCap
IndexRefused(index) == Len(index) > FacadeRank \/ \E k \in DOMAIN index : index[k] < 0

FlatIndex(shape, index) ==
  IF Len(index) # Len(shape) THEN Raised("ValueError")
  ELSE IF \E k \in DOMAIN shape : index[k] >= shape[k] THEN Raised("IndexError")
  ELSE Gave(FoldLeft(LAMBDA at, k : at * shape[k] + index[k], 0, [k \in DOMAIN shape |-> k]))

-----------------------------------------------------------------------------
NewMatrix(call) ==
  LET cells == CellsRefused(call.cells)
      why == IF AreaRefused(call.rows, call.cols) THEN "ValueError"
             ELSE IF cells # "none" THEN cells
             ELSE IF Len(call.cells.values) # call.rows * call.cols THEN "ValueError"
             ELSE "none"
  IN  IF why = "none" THEN Gave(Matrix(call.rows, call.cols, call.cells.values)) ELSE Raised(why)

\* Each row in turn: its cells, its length, the area so far.
MatrixFromRows(lists) ==
  LET width == IF lists = <<>> THEN 0 ELSE Len(lists[1].values)
      RowRefused(list) ==
        LET cells == CellsRefused(list)
        IN  IF cells # "none" THEN cells
            ELSE IF Len(list.values) # width \/ AreaRefused(Len(lists), width) THEN "ValueError"
            ELSE "none"
      why == Screen([k \in DOMAIN lists |-> <<RowRefused(lists[k]) # "none", RowRefused(lists[k])>>])
  IN  IF Len(lists) > SequenceCap THEN Raised("ValueError")
      ELSE IF why # "none" THEN Raised(why)
      ELSE Gave(Matrix(Len(lists), width, FlattenSeq([k \in DOMAIN lists |-> lists[k].values])))

FilledMatrix(call) ==
  IF AreaRefused(call.rows, call.cols) THEN Raised("ValueError")
  ELSE Gave(Build(call.rows, call.cols, LAMBDA i, j :
              IF call.op = "identity" /\ i = j THEN One ELSE Zero))

MatrixCell(M, i, j) ==
  IF InBounds(M, i, j) THEN Gave(Cell(M, i, j)) ELSE Raised("IndexError")
MatrixRow(M, i) ==
  IF i \in 0..(M.rows - 1) THEN Gave([j \in 1..M.cols |-> Cell(M, i, j - 1)])
  ELSE Raised("IndexError")

MatrixRead(M, call) ==
  CASE call.op = "get"     -> MatrixCell(M, call.row, call.col)
    [] call.op = "row"     -> MatrixRow(M, call.row)
    [] call.op = "to_rows" -> Gave([i \in 1..M.rows |-> MatrixRow(M, i - 1).value])
    [] call.op = "shape"   -> Gave(<<M.rows, M.cols, IsSquare(M)>>)

MatrixAlgebra(M, call) ==
  CASE call.op = "transpose"   -> Gave(Transpose(M))
    [] call.op = "add"         -> Checked(AddM(M, call.other))
    [] call.op = "sub"         -> Checked(SubM(M, call.other))
    [] call.op = "scalar_mul"  -> Gave(ScaleM(M, call.by))
    [] call.op = "matmul"      -> Checked(MatMul(M, call.other))
    [] call.op = "trace"       -> Checked(Trace(M))
    [] call.op = "determinant" -> Checked(Determinant(M))
    [] call.op = "minor"       -> Checked(Minor(M, call.row, call.col))
    [] call.op = "cofactor"    -> Checked(Cofactor(M, call.row, call.col))
    [] call.op = "adjugate"    -> Checked(Adjugate(M))
    [] call.op = "inverse"     -> Checked(InverseM(M))
    [] call.op = "eigenvalues" -> Checked(EigenvaluesReal(M))
    [] call.op = "char_poly"   -> \* as the values it takes at call.points
         IF call.var = "" THEN Raised("ValueError")
         ELSE IF ~IsSquare(M) \/ M.rows > MaxOrder THEN Raised("ValueError")
         ELSE Gave([x \in call.points |-> CharPoly(M, x).value])

-----------------------------------------------------------------------------
MakeTensor(call) ==
  LET cells == CellsRefused(call.cells)
  IN  IF ShapeRefused(call.shape) THEN Raised("ValueError")
      ELSE CASE call.op = "new_tensor" ->
                  IF cells # "none" THEN Raised(cells)
                  ELSE IF Len(call.cells.values) # Product(call.shape) THEN Raised("ValueError")
                  ELSE Gave(Tensor(call.shape, call.cells.values))
             [] call.op = "zeros_tensor" ->
                  Gave(Tensor(call.shape, [n \in 1..Product(call.shape) |-> "0"]))
             [] call.op = "cell_count" -> Gave(Product(call.shape))

TensorGet(t, index) ==
  LET at == FlatIndex(t.shape, index)
  IN  IF IndexRefused(index) THEN Raised("ValueError")
      ELSE IF at.raised # "none" THEN at ELSE Gave(t.cells[at.value + 1])

TensorRead(t, call) ==
  CASE call.op = "get_at"  -> TensorGet(t, call.index)
    [] call.op = "cell"    -> IF call.flat < Len(t.cells) THEN Gave(t.cells[call.flat + 1])
                              ELSE Raised("IndexError")
    [] call.op = "strides" -> Gave(Strides(t.shape))

\* A list of axes or extents is read like an index.
TensorAlgebra(t, call) ==
  IF IndexRefused(call.axes) \/ IndexRefused(call.others) THEN Raised("ValueError")
  ELSE CASE call.op = "reshape"   -> Checked(Reshape(t, call.axes))
         [] call.op = "permute"   -> Checked(PermuteAxes(t, call.axes))
         [] call.op = "hadamard"  -> Checked(ZipTensors(t, call.other))
         [] call.op = "contract"  -> Checked(TraceAxes(t, call.axes[1], call.axes[2]))
         [] call.op = "tensordot" -> Checked(TensorDot(t, call.other, call.axes, call.others))
         [] call.op = "outer"     -> Checked(TensorDot(t, call.other, <<>>, <<>>))

-----------------------------------------------------------------------------
Reading == {"get", "row", "to_rows", "shape"}

MatrixCall ==
  /\ Calling("matrix")
  /\ Reply(CASE Call.op = "new"       -> NewMatrix(Call)
             [] Call.op = "from_rows" -> MatrixFromRows(Call.lists)
             [] Call.op \in {"zeros", "identity"} -> FilledMatrix(Call)
             [] Call.op \in Reading   -> MatrixRead(held, Call)
             [] OTHER                 -> MatrixAlgebra(held, Call))
  /\ UNCHANGED held

TensorCall ==
  /\ Calling("tensor") /\ Call.op # "set"
  /\ Reply(CASE Call.op \in {"new_tensor", "zeros_tensor", "cell_count"} -> MakeTensor(Call)
             [] Call.op \in {"get_at", "cell", "strides"} -> TensorRead(held, Call)
             [] OTHER -> TensorAlgebra(held, Call))
  /\ UNCHANGED held

\* The one call that changes an object.  Every refusal of the kernel is an IndexError.
TensorSet ==
  LET written == SetAt(held, Call.index, Call.cell)
      refused == IndexRefused(Call.index)
  IN  /\ Calling("tensor") /\ Call.op = "set"
      /\ Reply(IF refused THEN Raised("ValueError")
               ELSE IF written.error # "none" THEN Raised("IndexError")
               ELSE Gave("None"))
      /\ held' = IF refused \/ written.error # "none" THEN held ELSE written.value

LinalgNext == MatrixCall \/ TensorCall \/ TensorSet
=============================================================================
