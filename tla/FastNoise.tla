----------------------------- MODULE FastNoise ------------------------------
(***************************************************************************)
(* The calls of a FastNoise object: the noise of a point under the settings*)
(* (GetNoise and the functions for one kind of noise), and the warping of  *)
(* a point (GradientPerturb).  A point is a sequence of two to four        *)
(* coordinates, and a name ends in their number.                           *)
(***************************************************************************)
EXTENDS NoiseKinds

CONSTANTS Points2, Points3       \* where the properties look at the noise

\* So are the points' coordinates.
PointAssumption ==
    /\ Points2 \subseteq LowestTerms \X LowestTerms
    /\ Points3 \subseteq LowestTerms \X LowestTerms \X LowestTerms

Spec == Init /\ [][Next]_vars

-----------------------------------------------------------------------------
\* A kind of noise of lattice points, in the plane or in space.
SingleNoise(noise, offset, p) ==
    LET plane == Len(p) = 2
    IN  CASE noise = "Value" -> IF plane THEN SingleValue2(offset, p) ELSE SingleValue3(offset, p)
          [] noise = "Perlin" -> IF plane THEN SinglePerlin2(offset, p) ELSE SinglePerlin3(offset, p)
          [] noise = "Simplex" -> IF plane THEN SingleSimplex2(offset, p) ELSE SingleSimplex3(offset, p)
          [] noise = "Cubic" -> IF plane THEN SingleCubic2(offset, p) ELSE SingleCubic3(offset, p)

\* The octaves' numbers, each of a higher frequency and a smaller amplitude.
Octaves(noise, p) ==
    LET at[i \in Nat] == IF i = 0 THEN p ELSE Scaled(at[i-1], m.lacunarity)
        amp[i \in Nat] == IF i = 0 THEN One ELSE Times(amp[i-1], m.gain)
    IN  [i \in 1 .. (IF m.octaves > 1 THEN m.octaves ELSE 1) |->
            [value |-> SingleNoise(noise, perm[i-1], at[i-1]), amp |-> amp[i-1]]]

\* Mutant: the sum is not scaled.
FBMUnscaled(octaves) == SumQ([i \in DOMAIN octaves |-> Times(octaves[i].value, octaves[i].amp)])

\* The ways to put them together.
FBM(octaves) ==
    Times(SumQ([i \in DOMAIN octaves |-> Times(octaves[i].value, octaves[i].amp)]),
          m.fractalBounding)
Billow(octaves) ==
    Times(SumQ([i \in DOMAIN octaves |-> Times(BillowOf(octaves[i].value), octaves[i].amp)]),
          m.fractalBounding)
RigidMulti(octaves) ==
    Minus(RigidOf(Head(octaves).value),
          SumQ([i \in 1 .. Len(octaves) - 1 |->
                   Times(RigidOf(octaves[i+1].value), octaves[i+1].amp)]))
Blend(octaves) ==
    Times(FoldLeft(LAMBDA product, o : Times(product, Plus(Times(o.value, o.amp), One)),
                   Head(octaves).value, Tail(octaves)),
          m.fractalBounding)

Joined(octaves) ==
    CASE m.fractalType = "FBM" -> FBM(octaves)
      [] m.fractalType = "Billow" -> Billow(octaves)
      [] m.fractalType = "RigidMulti" -> RigidMulti(octaves)
Fractal(noise, p) == Joined(Octaves(noise, p))

\* The bits of a float, as far as a hash is made of them.
Bits(q) == 2 * q[1] + q[2]
WhiteNoise2(p) == ValCoord2D(m.seed, Bits(p[1]), Bits(p[2]))
WhiteNoise3(p) == ValCoord3D(m.seed, Bits(p[1]), Bits(p[2]), Bits(p[3]))
WhiteNoise4(p) == ValCoord4D(m.seed, Bits(p[1]), Bits(p[2]), Bits(p[3]), Bits(p[4]))

GetValue2(p) == SingleValue2(0, Scaled(p, m.frequency))
GetValue3(p) == SingleValue3(0, Scaled(p, m.frequency))
GetPerlin2(p) == SinglePerlin2(0, Scaled(p, m.frequency))
GetPerlin3(p) == SinglePerlin3(0, Scaled(p, m.frequency))
GetSimplex2(p) == SingleSimplex2(0, Scaled(p, m.frequency))
GetSimplex3(p) == SingleSimplex3(0, Scaled(p, m.frequency))
GetSimplex4(p) == SingleSimplex4(0, Scaled(p, m.frequency))
GetCubic2(p) == SingleCubic2(0, Scaled(p, m.frequency))
GetCubic3(p) == SingleCubic3(0, Scaled(p, m.frequency))

GetValueFractal2(p) == Fractal("Value", Scaled(p, m.frequency))
GetValueFractal3(p) == Fractal("Value", Scaled(p, m.frequency))
GetPerlinFractal2(p) == Fractal("Perlin", Scaled(p, m.frequency))
GetPerlinFractal3(p) == Fractal("Perlin", Scaled(p, m.frequency))
GetSimplexFractal2(p) == Fractal("Simplex", Scaled(p, m.frequency))
GetSimplexFractal3(p) == Fractal("Simplex", Scaled(p, m.frequency))
GetCubicFractal2(p) == Fractal("Cubic", Scaled(p, m.frequency))
GetCubicFractal3(p) == Fractal("Cubic", Scaled(p, m.frequency))

\* Not offered by any call of the class.
SimplexFractalBlend2(p) == Blend(Octaves("Simplex", p))

FractalOf == [ValueFractal |-> "Value", PerlinFractal |-> "Perlin",
              SimplexFractal |-> "Simplex", CubicFractal |-> "Cubic"]
Noise2(type, q) ==
    CASE type \in Fractals -> Fractal(FractalOf[type], q)
      [] type = "Cellular" -> Cellular2(q)
      [] type = "WhiteNoise" -> WhiteNoise2(q)
      [] OTHER -> SingleNoise(type, 0, q)
Noise3(type, q) ==
    CASE type \in Fractals -> Fractal(FractalOf[type], q)
      [] type = "Cellular" -> Cellular3(q)
      [] type = "WhiteNoise" -> WhiteNoise3(q)
      [] OTHER -> SingleNoise(type, 0, q)
GetNoise2(p) == Noise2(m.noiseType, Scaled(p, m.frequency))
GetNoise3(p) == Noise3(m.noiseType, Scaled(p, m.frequency))

-----------------------------------------------------------------------------
\* The way a point goes: the directions of a cell's corners, weighted.
Warp2(offset, c, s) ==
    [a \in 1 .. 2 |->
        Lerp2([e \in Square |-> CELL_2D[Index2D_256(offset, c[1] + e[1], c[2] + e[2])][a]], s)]
Warp3(offset, c, s) ==
    [a \in 1 .. 3 |->
        Lerp3([e \in Cube |->
                  CELL_3D[Index3D_256(offset, c[1] + e[1], c[2] + e[2], c[3] + e[3])][a]], s)]
Way(offset, q) ==
    IF Len(q) = 2 THEN Warp2(offset, Floors(q), Smoothed(Floors(q), q))
                  ELSE Warp3(offset, Floors(q), Smoothed(Floors(q), q))

Moved(p, way, warpAmp) == [a \in DOMAIN p |-> Plus(p[a], Times(way[a], warpAmp))]
SingleGradientPerturb(offset, warpAmp, frequency, p) ==
    Moved(p, Way(offset, Scaled(p, frequency)), warpAmp)

\* Each octave starts from where the one before it has taken the point.
Perturbed(p) ==
    LET amp[i \in Nat] == IF i = 0 THEN Times(m.gradientPerturbAmp, m.fractalBounding)
                          ELSE Times(amp[i-1], m.gain)
        freq[i \in Nat] == IF i = 0 THEN m.frequency ELSE Times(freq[i-1], m.lacunarity)
    IN  FoldLeft(LAMBDA q, i : SingleGradientPerturb(perm[i], amp[i], freq[i], q), p,
                 [i \in 1 .. (IF m.octaves > 1 THEN m.octaves ELSE 1) |-> i - 1])

GradientPerturb2(p) == SingleGradientPerturb(0, m.gradientPerturbAmp, m.frequency, p)
GradientPerturb3(p) == SingleGradientPerturb(0, m.gradientPerturbAmp, m.frequency, p)
GradientPerturbFractal2(p) == Perturbed(p)
GradientPerturbFractal3(p) == Perturbed(p)

-----------------------------------------------------------------------------
\* What follows from other settings follows from those of now: the octaves'
\* amplitudes, scaled by the bounding, add up to one; the two indices are in
\* order and in range; the second half of a table repeats the first (the place
\* that a draw of N spoils left aside), and the directions are the remainders.
SettingsAgree ==
    /\ LET amps[i \in Nat] == IF i = 0 THEN One ELSE Times(amps[i-1], m.gain)
           rounds == IF m.octaves > 1 THEN m.octaves ELSE 1
       IN  Times(m.fractalBounding, SumQ([i \in 1 .. rounds |-> amps[i-1]])) = One
    /\ 0 <= m.cellularDistanceIndex0 /\ m.cellularDistanceIndex0 <= m.cellularDistanceIndex1
    /\ m.cellularDistanceIndex1 <= IndexMax
    /\ \A j \in 0 .. 2*N-1 : perm[j] \in 0 .. N-1 /\ perm12[j] \in 0 .. Gradients-1
    /\ \A j \in 0 .. N-1 :
          /\ perm12[j] = perm[j] % Gradients /\ perm12[j+N] = perm12[j]
          /\ j > 0 => perm[j+N] = perm[j]

\* The cells that a position is in: several, when it is on a border.
CellsOf2(p) == {c \in (-4 .. 3) \X (-4 .. 3) :
                   \A a \in 1 .. 2 : Leq(Whole(c[a]), p[a]) /\ Leq(p[a], Whole(c[a]+1))}
CellsOf3(p) == {c \in (-4 .. 3) \X (-4 .. 3) \X (-4 .. 3) :
                   \A a \in 1 .. 3 : Leq(Whole(c[a]), p[a]) /\ Leq(p[a], Whole(c[a]+1))}

\* Noise has no seam: on a border, each of the cells there gives the same value,
\* on both sides of zero.
NoiseIn2(type, c, q) ==
    CASE type = "Value" -> ValueIn2(0, c, q)
      [] type = "Perlin" -> PerlinIn2(0, c, q)
      [] type = "Cubic" -> CubicIn2(0, c, q)
NoiseIn3(type, c, q) ==
    CASE type = "Value" -> ValueIn3(0, c, q)
      [] type = "Perlin" -> PerlinIn3(0, c, q)
      [] type = "Cubic" -> CubicIn3(0, c, q)
CellsMeet ==
    m.noiseType \in {"Value", "Perlin", "Cubic"} =>
        /\ \A p \in Points2 : LET q == Scaled(p, m.frequency)
                              IN  \A c \in CellsOf2(q) : GetNoise2(p) = NoiseIn2(m.noiseType, c, q)
        /\ \A p \in Points3 : LET q == Scaled(p, m.frequency)
                              IN  \A c \in CellsOf3(q) : GetNoise3(p) = NoiseIn3(m.noiseType, c, q)

\* The corners of the simplex around a position are at the distances of those
\* points of the lattice, and in the plane no other point contributes anything.
Corners(p, F, G) ==
    LET cell == SimplexCell(p, F)
        d == FromCell(p, cell, G)
    IN  {[step |-> Steps(d)[n], at |-> [a \in DOMAIN p |-> cell[a] + Steps(d)[n][a]],
          d |-> FromCorner(d, Steps(d)[n], G)] : n \in 1 .. Len(p) + 1}

TrianglesMeet ==
    m.noiseType = "Simplex" =>
        /\ \A p \in Points2 :
              LET q == Scaled(p, m.frequency)
                  corners == Corners(q, F2, G2)
              IN  /\ \A c \in corners : c.d = FromCell(q, c.at, G2)
                  /\ \A i, j \in -2 .. 3 :
                        LET at == <<FastFloor(q[1]) + i, FastFloor(q[2]) + j>>
                        IN  Contribution(0, at, FromCell(q, at, G2), Half) # Zero =>
                                \E c \in corners : c.at = at
        /\ \A p \in Points3 :
              LET q == Scaled(p, m.frequency)
              IN  \A c \in Corners(q, F3, G3) : c.d = FromCell(q, c.at, G3)

\* From the first corner to the last, the way goes along the axes in the order
\* of the distances, the greatest first.
InOrder(d, steps) ==
    \A n \in 1 .. Len(d) : \E a \in DOMAIN d :
        /\ steps[n+1] = [steps[n] EXCEPT ![a] = 1] /\ steps[n][a] = 0
        /\ \A b \in DOMAIN d : steps[n][b] = 0 => Leq(d[b], d[a])

SimplicesInOrder ==
    /\ \A d \in [1 .. 3 -> {Zero, Half, One}] : InOrder(d, Steps3(d))
    /\ \A d \in [1 .. 4 -> {Zero, <<1, 4>>, Half, One}] : InOrder(d, Steps4(d))

\* A value within -1 .. 1, also of octaves that are summed up.
WithinOne(v) == Leq(AbsQ(v), One)

\* The sum of the octaves stays within -1 .. 1, and a warp takes a point no
\* farther than the amplitude, the maximum distance that FastNoise.h:157 sets;
\* several warps are asked of where they are of few digits.
Bounded ==
    /\ m.noiseType \in {"Value", "Cubic"} \/
       (m.noiseType \in {"ValueFractal", "CubicFractal"} /\ m.fractalType # "RigidMulti") =>
          /\ \A p \in Points2 : WithinOne(GetNoise2(p))
          /\ \A p \in Points3 : WithinOne(GetNoise3(p))
    /\ LET far(p, q) == SquareSum([a \in DOMAIN p |-> Minus(q[a], p[a])])
           near(p, q) == Leq(far(p, q), Times(m.gradientPerturbAmp, m.gradientPerturbAmp))
       IN  /\ \A p \in Points2 : near(p, GradientPerturb2(p))
           /\ \A p \in Points3 : near(p, GradientPerturb3(p))
           /\ m.interp = "Linear" /\ m.octaves < 3 =>
                 /\ \A p \in Points2 : near(p, GradientPerturbFractal2(p))
                 /\ \A p \in Points3 : near(p, GradientPerturbFractal3(p))

\* Cellular noise tells of the nearest cells: of the first, or of those that have
\* as many nearer cells as the indices say.
TellsOf(cells, distance, nearest, d0, d1, v) ==
    CASE m.cellularReturnType = "CellValue" ->
             \E n \in DOMAIN cells : distance[n] = nearest /\ v = ValCoord(cells[n])
      [] m.cellularReturnType = "NoiseLookup" ->
             IF m.cellularNoiseLookup
             THEN \E n \in DOMAIN cells :
                     distance[n] = nearest /\ v = LookedUp(CellPoint(cells[n]))
             ELSE v = NoNumber
      [] m.cellularReturnType = "Distance" -> v = nearest
      [] m.cellularReturnType = "Distance2" -> v = d1
      [] m.cellularReturnType = "Distance2Add" -> v = Plus(d0, d1)
      [] m.cellularReturnType = "Distance2Sub" -> v = Minus(d1, d0) /\ Leq(Zero, v)
      [] m.cellularReturnType = "Distance2Mul" -> v = Times(d0, d1)
      [] m.cellularReturnType = "Distance2Div" -> v # NoNumber => Times(v, d1) = d0 /\ Leq(v, One)
TellsOfKth(cells, distance, v) ==
    TellsOf(cells, distance, KthOf(distance, 0), KthOf(distance, m.cellularDistanceIndex0),
            KthOf(distance, m.cellularDistanceIndex1), v)
TellsOfCells(cells, p, v) == TellsOfKth(cells, Distances(cells, p), v)

\* That, for the two-dimensional and the three-dimensional functions.
NearestCells ==
    m.noiseType = "Cellular" =>
        /\ \A p \in Points2 : LET q == Scaled(p, m.frequency)
                              IN  TellsOfCells(Around2(Rounded(q)), q, GetNoise2(p))
        /\ \A p \in Points3 : LET q == Scaled(p, m.frequency)
                              IN  TellsOfCells(Around3(Rounded(q)), q, GetNoise3(p))
=============================================================================
