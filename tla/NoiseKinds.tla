----------------------------- MODULE NoiseKinds -----------------------------
(***************************************************************************)
(* The kinds of noise of a FastNoise object, by the values and directions  *)
(* that its tables give to the points of the lattice of integers.          *)
(* Value, Perlin and cubic noise: between the points around a position.    *)
(* Simplex noise: space is skewed so that the cubes of the lattice fall    *)
(* apart into simplices; the corners of the one around a point contribute  *)
(* what is left of their falloff at the point.                             *)
(* Cellular noise: every cell of the lattice has one point, moved from its *)
(* centre by the jitter; the noise is told by the points near a position.  *)
(***************************************************************************)
EXTENDS NoiseSettings

CONSTANTS VAL_LUT, GRAD_X, GRAD_Y, GRAD_Z, GRAD_4D,     \* by what the tables yield
          CELL_2D, CELL_3D      \* the directions by which points are moved

\* The tables' numbers are fractions in lowest terms.
TableAssumption ==
    /\ \A i \in 0 .. N-1 : VAL_LUT[i] \in LowestTerms
    /\ \A i \in 0 .. Gradients-1 : {GRAD_X[i], GRAD_Y[i], GRAD_Z[i]} \subseteq LowestTerms

\* Mutant: rounded towards zero.
FastFloorTowardsZero(f) == Truncated(f)
\* For a whole negative number this is one less than the number.
FastFloor(f) == IF Leq(Zero, f) THEN Truncated(f) ELSE Truncated(f) - 1
FastRound(f) == IF Leq(Zero, f) THEN Truncated(Plus(f, Half)) ELSE Truncated(Minus(f, Half))

InterpHermiteFunc(t) == Times(Times(t, t), Minus(Whole(3), Times(Whole(2), t)))
InterpQuinticFunc(t) ==
    Times(Times(t, Times(t, t)),
          Plus(Times(t, Minus(Times(t, Whole(6)), Whole(15))), Whole(10)))
CubicLerp(p, q, r, s, t) ==
    LET w == Minus(Minus(s, r), Minus(p, q))
    IN  Plus(Plus(Times(Times(t, Times(t, t)), w), Times(Times(t, t), Minus(Minus(p, q), w))),
             Plus(Times(t, Minus(r, p)), q))

Smooth(t) ==
    CASE m.interp = "Linear" -> t
      [] m.interp = "Hermite" -> InterpHermiteFunc(t)
      [] m.interp = "Quintic" -> InterpQuinticFunc(t)

\* Coordinates are hashed from the last to the first; & 0xff is % N, & 31 is % 32.
Index2D_12(offset, x, y) == perm12[(x % N) + perm[(y % N) + offset]]
Index3D_12(offset, x, y, z) == perm12[(x % N) + perm[(y % N) + perm[(z % N) + offset]]]
Index2D_256(offset, x, y) == perm[(x % N) + perm[(y % N) + offset]]
Index3D_256(offset, x, y, z) == perm[(x % N) + perm[(y % N) + perm[(z % N) + offset]]]
Index4D_32(offset, x, y, z, w) ==
    perm[(x % N) + perm[(y % N) + perm[(z % N) + perm[(w % N) + offset]]]] % 32

ValCoord2DFast(offset, x, y) == VAL_LUT[Index2D_256(offset, x, y)]
ValCoord3DFast(offset, x, y, z) == VAL_LUT[Index3D_256(offset, x, y, z)]

GradCoord2D(offset, x, y, xd, yd) ==
    LET lutPos == Index2D_12(offset, x, y)
    IN  Plus(Times(xd, GRAD_X[lutPos]), Times(yd, GRAD_Y[lutPos]))

GradCoord3D(offset, x, y, z, xd, yd, zd) ==
    LET lutPos == Index3D_12(offset, x, y, z)
    IN  Plus(Plus(Times(xd, GRAD_X[lutPos]), Times(yd, GRAD_Y[lutPos])),
             Times(zd, GRAD_Z[lutPos]))

GradCoord4D(offset, x, y, z, w, xd, yd, zd, wd) ==
    LET g == GRAD_4D[Index4D_32(offset, x, y, z, w)]
    IN  Plus(Plus(Times(xd, g[1]), Times(yd, g[2])), Plus(Times(zd, g[3]), Times(wd, g[4])))

\* The same for a point and its distances, by their number.
GradAt(offset, c, d) ==
    CASE Len(c) = 2 -> GradCoord2D(offset, c[1], c[2], d[1], d[2])
      [] Len(c) = 3 -> GradCoord3D(offset, c[1], c[2], c[3], d[1], d[2], d[3])
      [] Len(c) = 4 -> GradCoord4D(offset, c[1], c[2], c[3], c[4], d[1], d[2], d[3], d[4])

\* The multiplicative hash of a point, any function of it into -1 .. 1.
ValCoord2D(seed, x, y) == Q(((seed + 3*x + 5*y) % 8) - 4, 4)
ValCoord3D(seed, x, y, z) == Q(((seed + 3*x + 5*y + z) % 8) - 4, 4)
ValCoord4D(seed, x, y, z, w) == Q(((seed + 3*x + 5*y + z + 2*w) % 8) - 4, 4)

\* The lattice point below a point, and its distances from one, as weights.
Floors(p) == [a \in DOMAIN p |-> FastFloor(p[a])]
Smoothed(c, p) == [a \in DOMAIN p |-> Smooth(Minus(p[a], Whole(c[a])))]

\* The cell c is usually that of the point; at its border another may do.
ValueIn2(offset, c, p) ==
    Lerp2([e \in Square |-> ValCoord2DFast(offset, c[1] + e[1], c[2] + e[2])], Smoothed(c, p))
ValueIn3(offset, c, p) ==
    Lerp3([e \in Cube |-> ValCoord3DFast(offset, c[1] + e[1], c[2] + e[2], c[3] + e[3])],
          Smoothed(c, p))
PerlinIn2(offset, c, p) ==
    Lerp2([e \in Square |-> GradAt(offset, CornerOf(c, e), From(CornerOf(c, e), p))], Smoothed(c, p))
PerlinIn3(offset, c, p) ==
    Lerp3([e \in Cube |-> GradAt(offset, CornerOf(c, e), From(CornerOf(c, e), p))], Smoothed(c, p))

\* Two points on each side; the weights add up to more than one.
Cubic1(v, t) == CubicLerp(v[-1], v[0], v[1], v[2], t)
Cubic2(v, t) ==
    Cubic1([j \in Four |-> Cubic1([i \in Four |-> v[<<i, j>>]], t[1])], t[2])
Cubic3(v, t) ==
    Cubic1([k \in Four |-> Cubic2([e \in Four \X Four |-> v[<<e[1], e[2], k>>]], t)], t[3])
CubicIn2(offset, c, p) ==
    Times(<<4, 9>>,
          Cubic2([e \in Four \X Four |-> ValCoord2DFast(offset, c[1] + e[1], c[2] + e[2])],
                 From(c, p)))
CubicIn3(offset, c, p) ==
    Times(<<8, 27>>,
          Cubic3([e \in Four \X Four \X Four |->
                     ValCoord3DFast(offset, c[1] + e[1], c[2] + e[2], c[3] + e[3])], From(c, p)))

\* Of the cell that FastFloor finds; p is the point, a sequence of coordinates.
SingleValue2(offset, p) == ValueIn2(offset, Floors(p), p)
SingleValue3(offset, p) == ValueIn3(offset, Floors(p), p)
SinglePerlin2(offset, p) == PerlinIn2(offset, Floors(p), p)
SinglePerlin3(offset, p) == PerlinIn3(offset, Floors(p), p)
SingleCubic2(offset, p) == CubicIn2(offset, Floors(p), p)
SingleCubic3(offset, p) == CubicIn3(offset, Floors(p), p)

\* (sqrt(3)-1)/2 and (3-sqrt(3))/6, each the other's inverse skew, and the
\* factors of four dimensions, about as large as the code's.
F2 == <<3, 8>>
G2 == <<3, 14>>
F4 == <<3, 10>>
G4 == <<7, 5>>

\* The cell of a point.
SimplexCell(p, F) ==
    LET t == Times(SumQ(p), F) IN [a \in DOMAIN p |-> FastFloor(Plus(p[a], t))]

Contribution(offset, corner, d, radius) ==
    LET t == Minus(radius, SquareSum(d))
    IN  IF Less(t, Zero) THEN Zero ELSE Times(Falloff(t), GradAt(offset, corner, d))

\* The corners between the first and the last, by the order of the distances.
Steps2(d) == << <<0, 0>>, IF Less(d[2], d[1]) THEN <<1, 0>> ELSE <<0, 1>>, <<1, 1>> >>

Steps3(d) ==
    LET xy == Leq(d[2], d[1])
        yz == Leq(d[3], d[2])
        xz == Leq(d[3], d[1])
        between == IF xy THEN IF yz THEN << <<1, 0, 0>>, <<1, 1, 0>> >>
                              ELSE IF xz THEN << <<1, 0, 0>>, <<1, 0, 1>> >>
                                         ELSE << <<0, 0, 1>>, <<1, 0, 1>> >>
                   ELSE IF ~yz THEN << <<0, 0, 1>>, <<0, 1, 1>> >>
                        ELSE IF ~xz THEN << <<0, 1, 0>>, <<0, 1, 1>> >>
                                    ELSE << <<0, 1, 0>>, <<1, 1, 0>> >>
    IN  << <<0, 0, 0>> >> \o between \o << <<1, 1, 1>> >>

\* The ranks of the coordinates for the bits of a comparison of each two of them;
\* the rows for comparisons that contradict each other are all 0.
SIMPLEX_4D ==
    [c \in 0 .. 63 |->
        CASE c = 0 -> <<0,1,2,3>> [] c = 1 -> <<0,1,3,2>> [] c = 3 -> <<0,2,3,1>> [] c = 7 -> <<1,2,3,0>>
          [] c = 8 -> <<0,2,1,3>> [] c = 10 -> <<0,3,1,2>> [] c = 11 -> <<0,3,2,1>> [] c = 15 -> <<1,3,2,0>>
          [] c = 24 -> <<1,2,0,3>> [] c = 26 -> <<1,3,0,2>> [] c = 30 -> <<2,3,0,1>> [] c = 31 -> <<2,3,1,0>>
          [] c = 32 -> <<1,0,2,3>> [] c = 33 -> <<1,0,3,2>> [] c = 37 -> <<2,0,3,1>> [] c = 39 -> <<2,1,3,0>>
          [] c = 48 -> <<2,0,1,3>> [] c = 52 -> <<3,0,1,2>> [] c = 53 -> <<3,0,2,1>> [] c = 55 -> <<3,1,2,0>>
          [] c = 56 -> <<2,1,0,3>> [] c = 60 -> <<3,1,0,2>> [] c = 62 -> <<3,2,0,1>> [] c = 63 -> <<3,2,1,0>>
          [] OTHER -> <<0,0,0,0>>]

Compared(d) ==
    LET bit(a, b, value) == IF Less(d[b], d[a]) THEN value ELSE 0
    IN  bit(1, 2, 32) + bit(1, 3, 16) + bit(2, 3, 8) + bit(1, 4, 4) + bit(2, 4, 2) + bit(3, 4, 1)

Ranks(d) == SIMPLEX_4D[Compared(d)]

Steps4(d) ==
    LET above(rank) == [a \in 1 .. 4 |-> IF Ranks(d)[a] >= rank THEN 1 ELSE 0]
    IN  << <<0, 0, 0, 0>>, above(3), above(2), above(1), <<1, 1, 1, 1>> >>

Steps(d) == CASE Len(d) = 2 -> Steps2(d) [] Len(d) = 3 -> Steps3(d) [] Len(d) = 4 -> Steps4(d)

SumOfCorners(offset, p, F, G, radius) ==
    LET cell == SimplexCell(p, F)
        d == FromCell(p, cell, G)
        add(step, sum) ==
            Plus(sum, Contribution(offset, CornerOf(cell, step),
                                   FromCorner(d, step, G), radius))
    IN  FoldSeq(add, Zero, Steps(d))

SingleSimplex2(offset, p) ==
    Times(Whole(70), SumOfCorners(offset, p, F2, G2, Half))
SingleSimplex3(offset, p) ==
    Times(Whole(32), SumOfCorners(offset, p, F3, G3, <<3, 5>>))
SingleSimplex4(offset, p) ==
    Times(Whole(27), SumOfCorners(offset, p, F4, G4, <<3, 5>>))

-----------------------------------------------------------------------------
Rounded(p) == [a \in DOMAIN p |-> FastRound(p[a])]

Direction(c) ==
    IF Len(c) = 2 THEN CELL_2D[Index2D_256(0, c[1], c[2])]
                  ELSE CELL_3D[Index3D_256(0, c[1], c[2], c[3])]

CellPoint(c) ==
    LET moved == Scaled(Direction(c), m.cellularJitter)
    IN  [a \in DOMAIN c |-> Plus(Whole(c[a]), moved[a])]

DistanceOf(v) ==
    CASE m.cellularDistanceFunction = "Euclidean" -> SquareSum(v)
      [] m.cellularDistanceFunction = "Manhattan" -> Manhattan(v)
      [] m.cellularDistanceFunction = "Natural" -> Plus(Manhattan(v), SquareSum(v))

DistanceTo(c, p) ==
    LET q == CellPoint(c) IN DistanceOf([a \in DOMAIN p |-> Minus(q[a], p[a])])

ValCoord(c) ==
    IF Len(c) = 2 THEN ValCoord2D(m.seed, c[1], c[2]) ELSE ValCoord3D(m.seed, c[1], c[2], c[3])

\* The noise of the other FastNoise object, some function of the point.
LookedUp(q) == SumQ(q)

Distances(cells, p) == [n \in DOMAIN cells |-> DistanceTo(cells[n], p)]

\* What is returned for the nearest cell.
OfNearest(nearest) ==
    CASE m.cellularReturnType = "CellValue" -> ValCoord(nearest.cell)
      [] m.cellularReturnType = "NoiseLookup" ->
             IF m.cellularNoiseLookup THEN LookedUp(CellPoint(nearest.cell)) ELSE NoNumber
      [] m.cellularReturnType = "Distance" -> nearest.distance

SingleCellular(cells, p) == OfNearest(Nearest(cells, Distances(cells, p)))

SingleCellular2(p) == SingleCellular(Around2(Rounded(p)), p)
SingleCellular3(p) == SingleCellular(Around3(Rounded(p)), p)

OfIndices(distance) ==
    OfTwo(m.cellularReturnType,
          distance[m.cellularDistanceIndex0], distance[m.cellularDistanceIndex1])
SingleCellular2Edge(cells, p) ==
    OfIndices(NearestDistances(Distances(cells, p), m.cellularDistanceIndex1))

SingleCellular2Edge2(p) == SingleCellular2Edge(Around2(Rounded(p)), p)
SingleCellular2Edge3(p) == SingleCellular2Edge(Around3(Rounded(p)), p)

OneDistance == m.cellularReturnType \in {"CellValue", "NoiseLookup", "Distance"}
Cellular2(p) == IF OneDistance THEN SingleCellular2(p) ELSE SingleCellular2Edge2(p)
Cellular3(p) == IF OneDistance THEN SingleCellular3(p) ELSE SingleCellular2Edge3(p)
GetCellular2(p) == Cellular2(Scaled(p, m.frequency))
GetCellular3(p) == Cellular3(Scaled(p, m.frequency))
=============================================================================
