--------------------------- MODULE FastNoiseSIMD ----------------------------
(***************************************************************************)
(* The sets of noise that FastNoiseSIMD fills, a vector at a time: the     *)
(* choice of an instruction set, the settings of an object, the sets of    *)
(* vectors and of noise.  What is kept of the numbers in a set is what     *)
(* they are computed from: the points, once the warps, and once the octaves*)
(* of the noise.  The build is that of FN_ALIGNED_SETS, on x86.            *)
(* First comes what a lane computes (FastNoiseSIMD_internal.cpp): the      *)
(* ...Single functions, written once for vectors of every instruction set, *)
(* over the operations that each instruction set has a macro for.  A lane  *)
(* is one number, a point a sequence of three, a mask a Boolean.           *)
(***************************************************************************)
EXTENDS NoiseGeometry

\* The instruction sets, and how many numbers a vector of theirs has.
FN_NO_SIMD_FALLBACK == 0
FN_SSE2 == 1
FN_SSE41 == 2
FN_AVX2 == 3
FN_AVX512 == 4
VectorSize(level) == <<1, 4, 4, 8, 16>>[level+1]

\* Two of them have no instruction that rounds down.
FloorOf(level, f) ==
    IF level = FN_SSE2
    THEN IF Less(f, Whole(Truncated(f))) THEN Truncated(f) - 1 ELSE Truncated(f)
    ELSE f[1] \div f[2]

\* To the nearest number; from the middle away from zero, or to the even one.
ToInt(level, f) ==
    LET down == f[1] \div f[2]
        rest == Minus(f, Whole(down))
    IN  IF Less(rest, Half) THEN down
        ELSE IF Less(Half, rest) THEN down + 1
        ELSE IF level = FN_NO_SIMD_FALLBACK THEN (IF f[1] < 0 THEN down ELSE down + 1)
        ELSE (IF down % 2 = 0 THEN down ELSE down + 1)

\* 1/sqrt(q), which is estimated, here as quarters from below.
InvSqrt(q) ==
    IF q = Zero THEN NoNumber
    ELSE LET n == CHOOSE k \in 0 .. 32 : /\ k = 32 \/ Less(One, Times(q, Q((k+1) * (k+1), 16)))
                                         /\ Leq(Times(q, Q(k * k, 16)), One)
         IN  Q(n, 4)

-----------------------------------------------------------------------------
\* With the products in the order that MUL_ADD asks for.
InterpQuintic(t) ==
    LET r == Plus(Times(Minus(Times(t, Whole(6)), Whole(15)), t), Whole(10))
    IN  Times(Times(Times(r, t), t), t)
CubicLerp(p, q, r, s, t) ==
    LET w == Minus(Minus(s, r), Minus(p, q))
    IN  Plus(Times(t, Times(t, Times(t, w))),
             Plus(Times(t, Times(t, Minus(Minus(p, q), w))),
                  Plus(Times(t, Minus(r, p)), q)))

\* The hashes of a point of the lattice, some functions of it; of their bits,
\* 2 stand for 10, so that 3/2 stands for 511.5.
Hash(seed, c) == (seed + c[1] + 5 * c[2] + 11 * c[3]) % 16
HashHB(seed, c) == (seed + 5 * c[1] + 19 * c[2] + 37 * c[3]) % 64
Middle == <<3, 2>>
Fields(hash) ==
    [a \in 1 .. 3 |-> Minus(Whole((hash \div <<1, 4, 16>>[a]) % 4), Middle)]

ValCoord(seed, c) == Q(HashHB(seed, c) - 32, 32)

\* The direction of a hash: looked up, or put together from its bits.
X_GRAD == <<0, -1, 0, 1, 0, 0, 0, 0, -1, 1, -1, 1, -1, 1, -1, 1>>
Y_GRAD == <<-1, 1, -1, 1, -1, 1, -1, 1, 0, 0, 0, 0, -1, -1, 1, 1>>
Z_GRAD == <<-1, 0, 1, 0, -1, -1, 1, 1, -1, -1, 1, 1, 0, 0, 0, 0>>
GradByTable(hash, d) ==
    SumQ([a \in 1 .. 3 |-> Times(d[a], Whole(<<X_GRAD, Y_GRAD, Z_GRAD>>[a][16 - hash]))])

GradByBits(hash, d) ==
    LET hasha13 == hash - 2 * ((hash \div 2) % 2)
        u == IF hasha13 < 8 THEN d[1] ELSE d[2]
        v == IF hasha13 < 2 THEN d[2] ELSE IF hasha13 = 12 THEN d[1] ELSE d[3]
    IN  Plus(IF hash % 2 = 1 THEN Neg(u) ELSE u, IF (hash \div 2) % 2 = 1 THEN Neg(v) ELSE v)

GradCoord(level, seed, c, d) ==
    IF level = FN_AVX512 THEN GradByTable(Hash(seed, c), d) ELSE GradByBits(Hash(seed, c), d)

-----------------------------------------------------------------------------
\* In the cell c, which is usually that of the point.
Smoothed(c, p) == [a \in 1 .. 3 |-> InterpQuintic(Minus(p[a], Whole(c[a])))]
ValueIn(seed, c, p) == Lerp3([e \in Cube |-> ValCoord(seed, CornerOf(c, e))], Smoothed(c, p))
GradFrom(level, seed, c, p) == GradCoord(level, seed, c, From(c, p))
PerlinIn(level, seed, c, p) ==
    Lerp3([e \in Cube |-> GradFrom(level, seed, CornerOf(c, e), p)], Smoothed(c, p))

Cubic1(v, t) == CubicLerp(v[-1], v[0], v[1], v[2], t)
Cubic2(v, t) ==
    Cubic1([j \in Four |-> Cubic1([i \in Four |-> v[<<i, j>>]], t[1])], t[2])
Cubic3(v, t) ==
    Cubic1([k \in Four |-> Cubic2([e \in Four \X Four |-> v[<<e[1], e[2], k>>]], t)], t[3])
CubicIn(seed, c, p) ==
    Times(Cubic3([e \in Four \X Four \X Four |-> ValCoord(seed, CornerOf(c, e))], From(c, p)),
          <<8, 27>>)

CellOf(level, p) == [a \in 1 .. 3 |-> FloorOf(level, p[a])]
ValueSingle(level, seed, p) == ValueIn(seed, CellOf(level, p), p)
PerlinSingle(level, seed, p) == PerlinIn(level, seed, CellOf(level, p), p)
CubicSingle(level, seed, p) == CubicIn(seed, CellOf(level, p), p)

\* The numbers' bits are hashed, also of numbers that are not whole.
WhiteNoiseSingle(seed, p) == ValCoord(seed, [a \in 1 .. 3 |-> 2 * p[a][1] + p[a][2]])

\* Mutant: the second corner's mask for y does not look at x.
MaskedStepsOfY(d) ==
    LET xy == Leq(d[2], d[1])
        yz == Leq(d[3], d[2])
        xz == Leq(d[3], d[1])
        bit(mask) == IF mask THEN 1 ELSE 0
    IN  << <<0, 0, 0>>,
           <<bit(xy /\ xz), bit(yz), bit(~xz /\ ~yz)>>,
           <<bit(xy \/ xz), bit(~xy \/ yz), bit(~(xz /\ yz))>>,
           <<1, 1, 1>> >>

\* The corners between the first and the last, without a branch.
MaskedSteps(d) ==
    LET xy == Leq(d[2], d[1])
        yz == Leq(d[3], d[2])
        xz == Leq(d[3], d[1])
        bit(mask) == IF mask THEN 1 ELSE 0
    IN  << <<0, 0, 0>>,
           <<bit(xy /\ xz), bit(~xy /\ yz), bit(~xz /\ ~yz)>>,
           <<bit(xy \/ xz), bit(~xy \/ yz), bit(~(xz /\ yz))>>,
           <<1, 1, 1>> >>

SkewedCell(level, p) ==
    LET f == Times(F3, SumQ(p)) IN [a \in 1 .. 3 |-> FloorOf(level, Plus(p[a], f))]

SimplexSingle(level, seed, p) ==
    LET cell == SkewedCell(level, p)
        d == FromCell(p, cell, G3)
        part(step) ==
            LET e == FromCorner(d, step, G3)
                t == Minus(<<3, 5>>, SquareSum(e))
            IN  IF Less(t, Zero) THEN Zero
                ELSE Times(Falloff(t), GradCoord(level, seed, CornerOf(cell, step), e))
    IN  Times(Whole(32), FoldSeq(LAMBDA step, sum : Plus(sum, part(step)), Zero, MaskedSteps(d)))

Single(noise, level, seed, p) ==
    CASE noise = "Value" -> ValueSingle(level, seed, p)
      [] noise = "Perlin" -> PerlinSingle(level, seed, p)
      [] noise = "Simplex" -> SimplexSingle(level, seed, p)
      [] noise = "Cubic" -> CubicSingle(level, seed, p)
      [] noise = "WhiteNoise" -> WhiteNoiseSingle(seed, p)

\* The way from a point: the directions of a cell's corners, weighted.
Way(seed, c, s) ==
    [a \in 1 .. 3 |-> Lerp3([e \in Cube |-> Fields(HashHB(seed, CornerOf(c, e)))[a]], s)]
WayFrom(seed, c, f) == Way(seed, c, Smoothed(c, f))

\* Where a warp with this amplitude and frequency takes a point.
Moved(p, way, amp) == [a \in 1 .. 3 |-> Plus(Times(way[a], amp), p[a])]
GradientPerturbSingle(level, seed, amp, frequency, p) ==
    Moved(p, WayFrom(seed, CellOf(level, Scaled(p, frequency)), Scaled(p, frequency)), amp)

-----------------------------------------------------------------------------
\* The point of a cell, whose direction has the length 1 or a little less.
PointAlong(c, way, invMag) == [a \in 1 .. 3 |-> Plus(Times(way[a], invMag), Whole(c[a]))]
CellPoint(seed, c, jitter) ==
    PointAlong(c, Fields(HashHB(seed, c)), Times(jitter, InvSqrt(SquareSum(Fields(HashHB(seed, c))))))

\* Natural_DISTANCE is redefined before the functions that return distances.
DistanceBy(function, v, returnsDistance) ==
    CASE function = "Euclidean" -> SquareSum(v)
      [] function = "Manhattan" -> Manhattan(v)
      [] function = "Natural" -> IF returnsDistance THEN Times(SquareSum(v), Manhattan(v))
                                                    ELSE Plus(SquareSum(v), Manhattan(v))

Vector(p, q) == [a \in 1 .. 3 |-> Minus(q[a], p[a])]

CellsAround(level, p) == Around3([a \in 1 .. 3 |-> ToInt(level, p[a])])

Distances(p, seed, jitter, function, returnsDistance, cells) ==
    [n \in DOMAIN cells |->
        DistanceBy(function, Vector(p, CellPoint(seed, cells[n], jitter)), returnsDistance)]

NearestCell(level, seed, jitter, function, p) ==
    LET cells == CellsAround(level, p)
    IN  Nearest(cells, Distances(p, seed, jitter, function, FALSE, cells)).cell

CellularValueSingle(level, seed, jitter, function, p) ==
    ValCoord(seed, NearestCell(level, seed, jitter, function, p))

CellularDistanceSingle(level, seed, jitter, function, p) ==
    LET cells == CellsAround(level, p)
    IN  Nearest(cells, Distances(p, seed, jitter, function, TRUE, cells)).distance

OfIndices(return, distance, index0, index1) == OfTwo(return, distance[index0], distance[index1])
CellularDistance2Single(return, level, seed, jitter, function, index0, index1, p) ==
    OfIndices(return,
              NearestDistances(Distances(p, seed, jitter, function, TRUE, CellsAround(level, p)), index1),
              index0, index1)

\* Two divisions, of which the second is of other cells, half a cell away.
LeastNumber(c0, c1) == IF c0 = NoNumber \/ c1 = NoNumber THEN NoNumber ELSE Least(c0, c1)
CellularDistance2CaveSingle(level, seed, jitter, function, index0, index1, p) ==
    LeastNumber(
        CellularDistance2Single("Distance2Div", level, seed, jitter, function, index0, index1, p),
        CellularDistance2Single("Distance2Div", level, seed + 1, jitter, function, index0, index1,
                                [a \in 1 .. 3 |-> Plus(p[a], Half)]))

-----------------------------------------------------------------------------
CONSTANTS
    Compiled,           \* the instruction sets compiled in
    Cpu,                \* the processor's
    Values,            \* what clients set: values by the names of members
    OctaveCounts, Gains, Indices, Amps, Seeds,
    Blocks, Starts, Scales, SampleScales, Offsets,
    OtherKinds,         \* kinds asked for by name
    MaxChanges,         \* bound: the settings that differ from the defaults
    FilledChanges,      \* bound: those that may differ when there is a set
    Points              \* where the properties look at the noise

\* Members that are not set alone: the class, and those with calls of their own.
Kept == {"class", "octaves", "gain", "fractalBounding",
         "perturbAmp", "perturbOctaves", "perturbGain", "perturbFractalBounding",
         "cellularDistanceIndex0", "cellularDistanceIndex1"}
PerturbTypes == {"None", "Gradient", "GradientFractal", "Normalise", "Gradient_Normalise",
                 "GradientFractal_Normalise"}
Triples(S) == [1 .. 3 -> S]

\* SSE2 is compiled in with SSE4.1, blocks have cells, sums of gains are positive,
\* and fractions are in lowest terms.
Assumption ==
    /\ Compiled \subseteq FN_NO_SIMD_FALLBACK .. FN_AVX512 /\ Compiled # {}
    /\ FN_SSE41 \in Compiled => FN_SSE2 \in Compiled
    /\ DOMAIN Values \cap Kept = {}
    /\ "seed" \in DOMAIN Values => Values["seed"] \subseteq Int
    /\ "perturbType" \in DOMAIN Values => Values["perturbType"] \subseteq PerturbTypes
    /\ Seeds \subseteq Int /\ OctaveCounts \subseteq Int /\ Indices \subseteq Int
    /\ Gains \subseteq Nat \X (Nat \ {0}) /\ Amps \subseteq Int \X (Nat \ {0})
    /\ \A name \in DOMAIN Values \cap {"lacunarity", "perturbFrequency", "perturbLacunarity"} :
          Values[name] \subseteq Int \X (Nat \ {0})
    /\ "frequency" \in DOMAIN Values => Values["frequency"] \subseteq LowestTerms
    /\ "scales" \in DOMAIN Values => Values["scales"] \subseteq Triples(LowestTerms)
    /\ Points \subseteq Triples(LowestTerms)
    /\ Blocks \subseteq Triples(Nat \ {0}) /\ Starts \subseteq Triples(Int)
    /\ SampleScales \subseteq Int

VARIABLES
    m,                  \* the object's members, and its class
    level,              \* s_currentSIMDLevel
    vectorSet,          \* the set, and the block it is of
    noiseSet            \* the set, and what it was asked for

vars == <<m, level, vectorSet, noiseSet>>

NoObject == [class |-> -1]
NoSet == [size |-> -1]
NoPoint == <<NoNumber, NoNumber, NoNumber>>
Undefined == <<>>

Plain == {"Value", "Perlin", "Simplex", "Cubic"}
FractalOf == [ValueFractal |-> "Value", PerlinFractal |-> "Perlin",
              SimplexFractal |-> "Simplex", CubicFractal |-> "Cubic"]

-----------------------------------------------------------------------------
\* cpuid's and xgetbv's bits, as a set; ids is the greatest number cpuid takes.
GetFastestSIMD(cpu) ==
    IF cpu.ids < 1 \/ "SSE2" \notin cpu.has THEN FN_NO_SIMD_FALLBACK
    ELSE IF "SSE41" \notin cpu.has THEN FN_SSE2
    ELSE IF ~({"XSAVE", "OSXSAVE", "AVX", "ymm saved"} \subseteq cpu.has) THEN FN_SSE41
    ELSE IF cpu.ids < 7 \/ ~({"FMA", "AVX2"} \subseteq cpu.has) THEN FN_SSE41
    ELSE IF ~({"AVX512", "zmm saved"} \subseteq cpu.has) THEN FN_AVX2
    ELSE FN_AVX512

GetSIMDLevel == IF level < 0 THEN GetFastestSIMD(Cpu) ELSE level

\* By which class the static functions align their sets.
Width ==
    LET classes == {c \in Compiled \cap {FN_SSE2, FN_AVX2, FN_AVX512} : c <= GetSIMDLevel}
    IN  IF classes = {} THEN 1 ELSE VectorSize(Max(classes))

RoundedUp(size, unit) == ((size + unit - 1) \div unit) * unit
AlignedSize(size) == RoundedUp(size, Width)

DefaultBounding == CalculateFractalBounding(Half, 3)
Defaults(class, seed) ==
   [class |-> class, seed |-> seed, frequency |-> One, noiseType |-> "SimplexFractal",
    scales |-> <<One, One, One>>, octaves |-> 3, lacunarity |-> Whole(2), gain |-> Half,
    fractalType |-> "FBM", fractalBounding |-> DefaultBounding,
    cellularDistanceFunction |-> "Euclidean", cellularReturnType |-> "Distance",
    cellularNoiseLookupType |-> "Simplex", cellularNoiseLookupFrequency |-> Half,
    cellularDistanceIndex0 |-> 0, cellularDistanceIndex1 |-> 1, cellularJitter |-> One,
    perturbType |-> "None", perturbAmp |-> One, perturbFrequency |-> Half,
    perturbOctaves |-> 3, perturbLacunarity |-> Whole(2), perturbGain |-> Half,
    perturbFractalBounding |-> DefaultBounding, perturbNormaliseLength |-> One]

\* To be called before there are objects, and here before there are sets.
SetSIMDLevel(l) ==
    /\ m = NoObject /\ vectorSet = NoSet
    /\ level' = l
    /\ UNCHANGED <<m, vectorSet, noiseSet>>

NewFastNoiseSIMD(seed) ==
    /\ m = NoObject
    /\ LET fit == {c \in Compiled : c <= GetSIMDLevel}
           class == IF fit = {} THEN Min(Compiled) ELSE Max(fit)
       IN  m' = Defaults(class, seed) /\ level' = class
    /\ UNCHANGED <<vectorSet, noiseSet>>

Changes(members) ==
    LET default == Defaults(members.class, members.seed)
    IN  {k \in DOMAIN members : members[k] # default[k]} \ {"fractalBounding", "perturbFractalBounding"}

\* A client that is done with its sets.
Setting(new) ==
    /\ m # NoObject /\ noiseSet = NoSet /\ vectorSet = NoSet
    /\ m' = new
    /\ Cardinality(Changes(new)) <= MaxChanges
    /\ UNCHANGED <<level, vectorSet, noiseSet>>

\* The setters of one member.
SetMember(name) == \E value \in Values[name] : Setting([m EXCEPT ![name] = value])
SetFractalOctaves(n) ==
    Setting([m EXCEPT !.octaves = n, !.fractalBounding = CalculateFractalBounding(m.gain, n)])
SetFractalGain(g) ==
    Setting([m EXCEPT !.gain = g, !.fractalBounding = CalculateFractalBounding(g, m.octaves)])
SetPerturbFractalOctaves(n) ==
    Setting([m EXCEPT !.perturbOctaves = n,
                      !.perturbFractalBounding = CalculateFractalBounding(m.perturbGain, n)])
SetPerturbFractalGain(g) ==
    Setting([m EXCEPT !.perturbGain = g,
                      !.perturbFractalBounding = CalculateFractalBounding(g, m.perturbOctaves)])
SetPerturbAmp(amp) == Setting([m EXCEPT !.perturbAmp = Times(amp, Reciprocal(Middle))])
SetCellularDistance2Indicies(i, j) ==
    Setting([m EXCEPT !.cellularDistanceIndex0 = Clamped(IF i < j THEN i ELSE j),
                      !.cellularDistanceIndex1 = Clamped(IF i < j THEN j ELSE i)])

-----------------------------------------------------------------------------
\* The rounds of a loop whose first is outside of it.
Rounds(n) == 1 .. (IF n > 1 THEN n ELSE 1)

Octave == [seed |-> m.seed, times |-> One, amp |-> One]
Octaves ==
    LET octave[i \in Rounds(m.octaves)] ==
            IF i = 1 THEN Octave
            ELSE [seed |-> octave[i-1].seed + 1,
                  times |-> Times(octave[i-1].times, m.lacunarity),
                  amp |-> Times(octave[i-1].amp, m.gain)]
    IN  octave

\* What PERTURB_SWITCH does to a point: warps, one after another, and its length.
\* The amplitude of several is bounded by the bounding of the noise's octaves.
Warps ==
    LET warp(amp) == [seed |-> m.seed - 1, frequency |-> m.perturbFrequency, amp |-> amp]
        warps[i \in Rounds(m.perturbOctaves)] ==
            IF i = 1 THEN warp(Times(m.perturbAmp, m.fractalBounding))
            ELSE [seed |-> warps[i-1].seed - 1,
                  frequency |-> Times(warps[i-1].frequency, m.perturbLacunarity),
                  amp |-> Times(warps[i-1].amp, m.perturbGain)]
    IN  CASE m.perturbType \in {"None", "Normalise"} -> <<>>
          [] m.perturbType \in {"Gradient", "Gradient_Normalise"} -> <<warp(m.perturbAmp)>>
          [] m.perturbType \in {"GradientFractal", "GradientFractal_Normalise"} -> warps

Length ==
    IF m.perturbType \in {"Normalise", "Gradient_Normalise", "GradientFractal_Normalise"}
    THEN Times(m.perturbNormaliseLength, m.frequency) ELSE NoNumber

\* The noise of a kind: of one octave, or of those that are joined.
Noise(kind) ==
    IF kind \in DOMAIN FractalOf
    THEN [noise |-> FractalOf[kind], warps |-> Warps, length |-> Length,
          octaves |-> Octaves, joined |-> m.fractalType]
    ELSE [noise |-> kind, warps |-> Warps, length |-> Length,
          octaves |-> <<Octave>>, joined |-> "Single"]

Unwarped(noise) == [noise EXCEPT !.warps = <<>>, !.length = NoNumber]

\* In a block, white noise is that of the cells themselves.
NoiseOfCells(kind) == IF kind = "WhiteNoise" THEN Unwarped(Noise(kind)) ELSE Noise(kind)

Placed(p, scale) == [a \in 1 .. 3 |-> Times(p[a], Times(Times(scale, m.frequency), m.scales[a]))]
PointOf(kind, c, scale) ==
    LET p == [a \in 1 .. 3 |-> Whole(c[a])]
    IN  IF kind = "WhiteNoise" THEN p ELSE Placed(p, scale)

\* Numbers, where no warp is in between.
Joined(numbers, octaves, joined) ==
    CASE joined = "FBM" ->
             Times(SumQ([k \in DOMAIN octaves |-> Times(numbers[k], octaves[k].amp)]),
                   m.fractalBounding)
      [] joined = "Billow" ->
             Times(SumQ([k \in DOMAIN octaves |-> Times(BillowOf(numbers[k]), octaves[k].amp)]),
                   m.fractalBounding)
      [] joined = "RigidMulti" ->
             Minus(RigidOf(numbers[1]),
                   SumQ([k \in 1 .. Len(octaves) - 1 |->
                            Times(RigidOf(numbers[k+1]), octaves[k+1].amp)]))
      [] joined = "Single" -> numbers[1]

Number(v, p) ==
    Joined([k \in DOMAIN v.octaves |->
               Single(v.noise, m.class, v.octaves[k].seed, Scaled(p, v.octaves[k].times))],
           v.octaves, v.joined)

\* FillCellularSet's choice of a function, for a type that returns a number.
CellularNumber(p) ==
    LET j == m.cellularJitter
        f == m.cellularDistanceFunction
        i0 == m.cellularDistanceIndex0
        i1 == m.cellularDistanceIndex1
    IN  CASE m.cellularReturnType = "CellValue" -> CellularValueSingle(m.class, m.seed, j, f, p)
          [] m.cellularReturnType = "Distance" -> CellularDistanceSingle(m.class, m.seed, j, f, p)
          [] m.cellularReturnType = "Distance2Cave" ->
                 CellularDistance2CaveSingle(m.class, m.seed, j, f, i0, i1, p)
          [] OTHER -> CellularDistance2Single(m.cellularReturnType, m.class, m.seed, j, f, i0, i1, p)

\* Where the noise of a lookup is that of.
LookupPoint(c) == Scaled(CellPoint(m.seed, c, m.cellularJitter), m.cellularNoiseLookupFrequency)

\* The noise that a lookup returns: that of the nearest cell's point, unwarped,
\* or anything for the types that its switch leaves out.
CellularLookup(p) ==
    IF m.cellularNoiseLookupType \in Plain \cup DOMAIN FractalOf
    THEN <<Unwarped(Noise(m.cellularNoiseLookupType)),
           LookupPoint(NearestCell(m.class, m.seed, m.cellularJitter, m.cellularDistanceFunction, p))>>
    ELSE Undefined

-----------------------------------------------------------------------------
\* A block has rows of cells along z; its cells in the order of a set.
Cells(block) == block[1] * block[2] * block[3]
Coords(i, block) == <<i \div (block[2] * block[3]), (i \div block[3]) % block[2], i % block[3]>>
Index(c, block) == (c[1] * block[2] + c[2]) * block[3] + c[3]

\* Mutant: from the last row of a plane a lane does not go to the next plane.
ResetOnceByRows(c, start, block) ==
    IF c[3] > start[3] + block[3] - 1 THEN <<c[1], c[2] + 1, c[3] - block[3]>> ELSE c

\* One round of AXIS_RESET: past its row's end a lane goes to the next row, and
\* past the last row to the next plane.
ResetOnce(c, start, block) ==
    LET zReset == c[3] > start[3] + block[3] - 1
        y == IF zReset THEN c[2] + 1 ELSE c[2]
        yReset == y > start[2] + block[2] - 1
    IN  <<IF yReset THEN c[1] + 1 ELSE c[1], IF yReset THEN y - block[2] ELSE y,
          IF zReset THEN c[3] - block[3] ELSE c[3]>>

\* As many rounds as rows that a vector may reach into; before the first vector
\* a round less.
AxisReset(c, start, block, rows) ==
    LET round[n \in Nat] == IF n = 0 THEN c ELSE ResetOnce(round[n-1], start, block)
        rest == VectorSize(m.class) - block[3] * rows
    IN  round[IF rest <= 0 THEN 0 ELSE RoundedUp(rest, block[3]) \div block[3]]

\* SET_BUILDER, where rows are not made up of whole vectors: the cells of lane j
\* in the vectors 0, 1, ...; the last vector may go beyond the block.
LaneCells(j, start, block) ==
    LET lane[k \in Nat] ==
            IF k = 0 THEN AxisReset(<<start[1], start[2], start[3] + j>>, start, block, 1)
            ELSE AxisReset([lane[k-1] EXCEPT ![3] = @ + VectorSize(m.class)], start, block, 0)
    IN  lane

\* SET_BUILDER, where they are: vectors along z, row by row.
RowCells(i, start, block) ==
    LET row == i \div block[3]
        vector == (i % block[3]) \div VectorSize(m.class)
    IN  <<start[1] + row \div block[2], start[2] + (row % block[2]),
          start[3] + vector * VectorSize(m.class) + (i % VectorSize(m.class))>>

\* The points whose noise FillNoiseSet stores for a block, by the indices.
Filled(kind, start, block, scale) ==
    LET size == VectorSize(m.class)
        last == IF Cells(block) > size THEN RoundedUp(Cells(block) - size, size) ELSE 0
    IN  IF block[3] % size = 0
        THEN [i \in 0 .. Cells(block) - 1 |-> PointOf(kind, RowCells(i, start, block), scale)]
        ELSE [i \in 0 .. last + size - 1 |->
                 PointOf(kind, LaneCells(i % size, start, block)[i \div size], scale)]

\* The same for the points of a set of vectors, also for those past its end.
VectorsFilled(offset) ==
    LET size == VectorSize(m.class)
    IN  [i \in 0 .. RoundedUp(vectorSet.size, size) - 1 |->
            IF i \notin DOMAIN vectorSet.at \/ vectorSet.at[i] = NoPoint THEN NoPoint
            ELSE Placed([a \in 1 .. 3 |-> Plus(vectorSet.at[i][a], offset[a])], One)]

\* A new set with the noise of these points, or between them, stored in it.
NewSet(cells, noise, stored, asked) ==
    [size |-> AlignedSize(cells), noise |-> noise, asked |-> asked,
     cells |-> [i \in (0 .. AlignedSize(cells) - 1) \cup DOMAIN stored |->
                   IF i \in DOMAIN stored THEN stored[i] ELSE Undefined]]

Fillable == Changes(m) \subseteq FilledChanges /\ Cardinality(Changes(m)) <= 1
Fills(set) ==
    /\ m # NoObject /\ noiseSet = NoSet /\ Fillable
    /\ noiseSet' = set /\ level' = GetSIMDLevel
    /\ UNCHANGED <<m, vectorSet>>

\* Get...Set: an empty set that is filled, here for a client without vectors.
BlockSet(kind, start, block, scale) ==
    NewSet(Cells(block), NoiseOfCells(kind), Filled(kind, start, block, scale),
           [how |-> "block", kind |-> kind, start |-> start, block |-> block, scale |-> scale])
Gets(set) == vectorSet = NoSet /\ Fills(set)
GetSet(kind, start, block, scale) == Gets(BlockSet(kind, start, block, scale))
GetNoiseSet(start, block, scale) == Gets(BlockSet(m.noiseType, start, block, scale))

VectorNoiseSet(kind, offset) ==
    NewSet(vectorSet.size, Noise(kind), VectorsFilled(offset),
           [how |-> "vectors", kind |-> kind, offset |-> offset])

-----------------------------------------------------------------------------
Pow2(n) ==
    LET pow[i \in Nat] == IF i = 0 THEN 1 ELSE 2 * pow[i-1]
    IN  pow[n]

\* The samples of which a block is made up, with those at its far ends.
SamplesOf(block, size) == [a \in 1 .. 3 |-> RoundedUp(block[a], size) \div size + 1]

\* The cells between eight samples, and where their middles are between them.
\* (Lanes past the last of these cells are the first ones again.)
Interpolated(numbers, samples, size, offset, block) ==
    LET base(c) == [a \in 1 .. 3 |-> (c[a] + offset[a]) \div size]
        local(c) == [a \in 1 .. 3 |-> (c[a] + offset[a]) % size]
        between == {i \in 0 .. Cells(block) - 1 :
                       \A a \in 1 .. 3 : base(Coords(i, block))[a] \in 0 .. samples[a] - 2}
        cell(c) ==
            <<[e \in Cube |-> numbers[Index([a \in 1 .. 3 |-> base(c)[a] + e[a]], samples)]],
              [a \in 1 .. 3 |-> Q(2 * local(c)[a] + 1, 2 * size)]>>
    IN  [i \in between |-> cell(Coords(i, block))]

\* FillSampledNoiseSet: every sampleSize-th cell's noise, and between them.
SampledSet(start, block, sampleScale) ==
    IF sampleScale <= 0 THEN BlockSet(m.noiseType, start, block, One)
    ELSE LET size == Pow2(sampleScale)
             offset == [a \in 1 .. 3 |-> (size - (start[a] % size)) % size]
             samples == SamplesOf([a \in 1 .. 3 |-> block[a] + offset[a]], size)
             numbers == Filled(m.noiseType, [a \in 1 .. 3 |-> start[a] \div size], samples, Whole(size))
         IN  NewSet(Cells(block), NoiseOfCells(m.noiseType),
                    Interpolated(numbers, samples, size, offset, block),
                    [how |-> "sampled", start |-> start, block |-> block, sampleSize |-> size])
GetSampledNoiseSet(start, block, sampleScale) == Gets(SampledSet(start, block, sampleScale))

\* The same for a set of vectors, which are half a cell behind.
SampledVectorNoiseSet(offset) ==
    IF vectorSet.sampleScale <= 0 THEN VectorNoiseSet(m.noiseType, offset)
    ELSE LET size == Pow2(vectorSet.sampleScale)
             block == vectorSet.sampleSize
             numbers == VectorsFilled([a \in 1 .. 3 |-> Minus(offset[a], Half)])
         IN  NewSet(Cells(block), Noise(m.noiseType),
                    Interpolated(numbers, SamplesOf(block, size), size, <<0, 0, 0>>, block),
                    [how |-> "sampled vectors", block |-> block, sampleSize |-> size, offset |-> offset])

\* FillNoiseSet and FillSampledNoiseSet with a set of vectors, into a set that
\* is large enough.
FillFromVectors(kind, offset) ==
    vectorSet # NoSet /\ Fills(VectorNoiseSet(kind, offset))
FillSampledFromVectors(offset) ==
    vectorSet # NoSet /\ Fills(SampledVectorNoiseSet(offset))

FreeNoiseSet ==
    /\ noiseSet # NoSet /\ noiseSet' = NoSet /\ level' = GetSIMDLevel
    /\ UNCHANGED <<m, vectorSet>>

\* SetSize and the loops of FillVectorSet: points that are step apart. A refill
\* that does not sample leaves the sample sizes of before, which nothing reads
\* then; here they are -1.
VectorSetOf(block, step, sampleScale, sampleSize) ==
    [size |-> Cells(block), of |-> block, sampleScale |-> sampleScale, sampleSize |-> sampleSize,
     at |-> [i \in 0 .. AlignedSize(Cells(block)) - 1 |->
                IF i < Cells(block) THEN [a \in 1 .. 3 |-> Whole(Coords(i, block)[a] * step)]
                ELSE NoPoint]]

\* The same set may be filled again.
NewVectorSet(set) ==
    /\ noiseSet = NoSet /\ (m # NoObject => Fillable)
    /\ vectorSet' = set /\ level' = GetSIMDLevel
    /\ UNCHANGED <<m, noiseSet>>

FillVectorSet(block) == NewVectorSet(VectorSetOf(block, 1, 0, <<-1, -1, -1>>))
FillSamplingVectorSet(sampleScale, block) ==
    IF sampleScale <= 0 THEN FillVectorSet(block)
    ELSE NewVectorSet(VectorSetOf(SamplesOf(block, Pow2(sampleScale)), Pow2(sampleScale),
                                  sampleScale, block))

FreeVectorSet ==
    /\ vectorSet # NoSet /\ noiseSet = NoSet
    /\ vectorSet' = NoSet /\ level' = GetSIMDLevel
    /\ UNCHANGED <<m, noiseSet>>

Init == m = NoObject /\ level = -1 /\ vectorSet = NoSet /\ noiseSet = NoSet

Next ==
    \/ \E l \in Compiled : SetSIMDLevel(l)
    \/ \E seed \in Seeds : NewFastNoiseSIMD(seed)
    \/ \E name \in DOMAIN Values : SetMember(name)
    \/ \E n \in OctaveCounts : SetFractalOctaves(n) \/ SetPerturbFractalOctaves(n)
    \/ \E g \in Gains : SetFractalGain(g) \/ SetPerturbFractalGain(g)
    \/ \E amp \in Amps : SetPerturbAmp(amp)
    \/ \E i, j \in Indices : SetCellularDistance2Indicies(i, j)
    \/ \E start \in Starts, block \in Blocks, scale \in Scales : GetNoiseSet(start, block, scale)
    \/ \E kind \in OtherKinds, block \in Blocks : GetSet(kind, <<0, 0, 0>>, block, One)
    \/ \E start \in Starts, block \in Blocks, s \in SampleScales : GetSampledNoiseSet(start, block, s)
    \/ \E kind \in OtherKinds, offset \in Offsets : FillFromVectors(kind, offset)
    \/ \E offset \in Offsets : FillSampledFromVectors(offset)
    \/ \E block \in Blocks : FillVectorSet(block)
    \/ \E block \in Blocks, s \in SampleScales : FillSamplingVectorSet(s, block)
    \/ FreeNoiseSet
    \/ FreeVectorSet
-----------------------------------------------------------------------------
\* What is computed from other settings agrees with those of now: the octaves'
\* amplitudes, scaled, add up to one, and no two of the hashes that a number is
\* made of, its warps' and its octaves', have the same seed.
SettingsAgree ==
    m # NoObject =>
        /\ Times(m.fractalBounding, SumQ([k \in DOMAIN Octaves |-> Octaves[k].amp])) = One
        /\ LET amps[i \in Rounds(m.perturbOctaves)] ==
                   IF i = 1 THEN One ELSE Times(amps[i-1], m.perturbGain)
           IN  Times(m.perturbFractalBounding, SumQ(amps)) = One
        /\ 0 <= m.cellularDistanceIndex0 /\ m.cellularDistanceIndex0 <= m.cellularDistanceIndex1
        /\ m.cellularDistanceIndex1 <= IndexMax
        /\ Cardinality({Octaves[k].seed : k \in DOMAIN Octaves} \cup {Warps[k].seed : k \in DOMAIN Warps})
               = Len(Octaves) + Len(Warps)

\* Where a cell of a set is, and whether its number is the noise of that place:
\* in every block, by vectors of any size, and in the sets that are filled from
\* a set of vectors.  Sampled cells are between the eight samples around them,
\* where the start is one of a sample or every second cell is one.
At(i, start, block) == [a \in 1 .. 3 |-> start[a] + Coords(i, block)[a]]
ToPoint(c, offset) == [a \in 1 .. 3 |-> Plus(Whole(c[a]), offset[a])]

SampleAt(size, c, e) == [a \in 1 .. 3 |-> (c[a] \div size) + e[a]]
MiddleOf(size, c) == [a \in 1 .. 3 |-> Q(2 * (c[a] % size) + 1, 2 * size)]

InPlace(cell, i, asked) ==
    CASE asked.how = "block" ->
             cell = PointOf(asked.kind, At(i, asked.start, asked.block), asked.scale)
      [] asked.how = "vectors" ->
             cell = Placed(ToPoint([a \in 1 .. 3 |-> Coords(i, vectorSet.of)[a]
                                                          * Pow2(vectorSet.sampleScale)],
                                   asked.offset), One)
      [] asked.how = "sampled" ->
             (\A a \in 1 .. 3 : asked.start[a] % asked.sampleSize = 0) \/ asked.sampleSize = 2 =>
                 LET size == asked.sampleSize
                     at == At(i, asked.start, asked.block)
                 IN  cell = <<[e \in Cube |-> PointOf(m.noiseType, SampleAt(size, at, e), Whole(size))],
                              MiddleOf(size, at)>>
      [] asked.how = "sampled vectors" ->
             LET size == asked.sampleSize
                 at == Coords(i, asked.block)
                 sample(c) == Placed(ToPoint([a \in 1 .. 3 |-> c[a] * size],
                                             [a \in 1 .. 3 |-> Minus(asked.offset[a], Half)]), One)
             IN  cell = <<[e \in Cube |-> sample(SampleAt(size, at, e))], MiddleOf(size, at)>>

SetsFilled ==
    noiseSet # NoSet =>
        LET asked == noiseSet.asked
            count == IF asked.how = "vectors" THEN vectorSet.size ELSE Cells(asked.block)
        IN  /\ DOMAIN noiseSet.cells = 0 .. noiseSet.size - 1
            /\ \A i \in 0 .. count - 1 : InPlace(noiseSet.cells[i], i, asked)

\* Settings stay while there is a set, so that what follows is looked at before.
Settled == noiseSet = NoSet /\ vectorSet = NoSet

\* A cell's border gives the same number from both sides.
CellsOf(p) ==
    LET low(a) == {n \in (p[a][1] \div p[a][2]) - 1 .. p[a][1] \div p[a][2] : Leq(p[a], Whole(n + 1))}
    IN  low(1) \X low(2) \X low(3)
CellsMeet ==
    m # NoObject /\ Settled /\ m.noiseType \in {"Value", "Perlin", "Cubic"} =>
        \A p \in Points : \A c \in CellsOf(Placed(p, One)) :
            LET q == Placed(p, One)
            IN  /\ m.noiseType = "Value" => ValueSingle(m.class, m.seed, q) = ValueIn(m.seed, c, q)
                /\ m.noiseType = "Perlin" => PerlinSingle(m.class, m.seed, q) = PerlinIn(m.class, m.seed, c, q)
                /\ m.noiseType = "Cubic" => CubicSingle(m.class, m.seed, q) = CubicIn(m.seed, c, q)

\* The octaves' sum, scaled by the bounding, stays within -1 .. 1.
Bounded ==
    m # NoObject /\ Settled /\ m.noiseType \in {"Value", "Cubic", "ValueFractal", "CubicFractal"}
    /\ (m.noiseType \in Plain \/ m.fractalType # "RigidMulti") =>
        \A p \in Points : Leq(AbsQ(Number(Noise(m.noiseType), Placed(p, One))), One)

\* Cellular noise tells of the nearest cells, by the indices; a lookup is made at
\* the point of the nearest cell.
DistancesAt(seed, q) ==
    Distances(q, seed, m.cellularJitter, m.cellularDistanceFunction,
              m.cellularReturnType \notin {"CellValue", "NoiseLookup"}, CellsAround(m.class, q))
Quotient(v, d0, d1) == v = NoNumber \/ (Times(v, d1) = d0 /\ Leq(v, One))
QuotientOf(v, distance) ==
    Quotient(v, KthOf(distance, m.cellularDistanceIndex0), KthOf(distance, m.cellularDistanceIndex1))
TellsOfTwo(v, d0, d1) ==
    CASE m.cellularReturnType = "Distance2" -> v = d1
      [] m.cellularReturnType = "Distance2Add" -> v = Plus(d0, d1)
      [] m.cellularReturnType = "Distance2Sub" -> v = Minus(d1, d0) /\ Leq(Zero, v)
      [] m.cellularReturnType = "Distance2Mul" -> v = Times(d0, d1)
      [] m.cellularReturnType = "Distance2Div" -> Quotient(v, d0, d1)
TellsOfCell(v, lookup, c) ==
    CASE m.cellularReturnType = "CellValue" -> v = ValCoord(m.seed, c)
      [] m.cellularReturnType = "NoiseLookup" -> lookup # Undefined => lookup[2] = LookupPoint(c)
TellsOf(v, lookup, q, cells, distance) ==
    CASE m.cellularReturnType \in {"CellValue", "NoiseLookup"} ->
             \E n \in DOMAIN cells :
                 distance[n] = KthOf(distance, 0) /\ TellsOfCell(v, lookup, cells[n])
      [] m.cellularReturnType = "Distance" -> v = KthOf(distance, 0)
      [] m.cellularReturnType = "Distance2Cave" ->
             \/ QuotientOf(v, distance)
             \/ QuotientOf(v, DistancesAt(m.seed + 1, [a \in 1 .. 3 |-> Plus(q[a], Half)]))
      [] OTHER -> TellsOfTwo(v, KthOf(distance, m.cellularDistanceIndex0),
                             KthOf(distance, m.cellularDistanceIndex1))
NearestCells ==
    m # NoObject /\ Settled /\ m.noiseType = "Cellular" =>
        \A p \in Points : LET q == Placed(p, One)
                          IN  TellsOf(CellularNumber(q), CellularLookup(q), q,
                                      CellsAround(m.class, q), DistancesAt(m.seed, q))

-----------------------------------------------------------------------------
\* The instruction sets differ in how they compute, and agree in what: rounding
\* down, the directions of the hashes, the order of a polynomial's products.
LevelsAgree ==
    /\ \A l \in FN_NO_SIMD_FALLBACK .. FN_AVX512, n \in -9 .. 9, d \in 1 .. 4 :
           FloorOf(l, Q(n, d)) = n \div d
    /\ \A hash \in 0 .. 15, d \in [1 .. 3 -> {Whole(-2), One, Whole(3)}] :
           GradByTable(hash, d) = GradByBits(hash, d)

\* The fastest instruction set that is found is one that the processor has and
\* whose registers the system saves, and no other such is faster.
Needs == << {}, {"SSE2"}, {"SSE2", "SSE41"},
            {"SSE2", "SSE41", "XSAVE", "OSXSAVE", "AVX", "ymm saved", "FMA", "AVX2"},
            {"SSE2", "SSE41", "XSAVE", "OSXSAVE", "AVX", "ymm saved", "FMA", "AVX2", "AVX512", "zmm saved"} >>
FastestFits ==
    \A ids \in {0, 1, 7}, has \in SUBSET Needs[5] :
        LET fits(l) == Needs[l+1] \subseteq has /\ ids >= <<0, 1, 1, 7, 7>>[l+1]
        IN  GetFastestSIMD([ids |-> ids, has |-> has]) = Max({l \in 0 .. 4 : fits(l)})
=============================================================================
