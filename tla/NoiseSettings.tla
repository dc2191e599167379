--------------------------- MODULE NoiseSettings ----------------------------
(***************************************************************************)
(* A FastNoise object (Noise/FastNoise.h, FastNoise.cpp): its settings, the*)
(* permutation tables that SetSeed shuffles, and the one setting that is   *)
(* computed from others, m_fractalBounding.                                *)
(***************************************************************************)
EXTENDS Integers, FiniteSets, NoiseGeometry

CONSTANTS
    N,                  \* 256: the length of a permutation
    Gradients,          \* 12: the number of directions
    Draws,              \* what the generator draws for each of the seeds
    OctaveCounts, Gains, Indices,   \* what clients set
    MaxChanges          \* bound: the settings that differ from the constructor's

\* A draw for place j is of this place or one after it; sums of gains are positive.
Assumption ==
    /\ N \in Nat \ {0} /\ Gradients \in Nat \ {0}
    /\ 1 \in DOMAIN Draws
    /\ \A seed \in DOMAIN Draws : \A j \in 0 .. N-1 : Draws[seed][j] \in j .. N
    /\ OctaveCounts \subseteq Int /\ Indices \subseteq Int
    /\ Gains \subseteq Nat \X (Nat \ {0})

VARIABLES
    m,                  \* the members, without their m_
    perm, perm12

vars == <<m, perm, perm12>>

NoiseTypes == {"Value", "ValueFractal", "Perlin", "PerlinFractal", "Simplex",
               "SimplexFractal", "Cellular", "WhiteNoise", "Cubic", "CubicFractal"}
Fractals == {"ValueFractal", "PerlinFractal", "SimplexFractal", "CubicFractal"}
Interps == {"Linear", "Hermite", "Quintic"}
FractalTypes == {"FBM", "Billow", "RigidMulti"}
DistanceFunctions == {"Euclidean", "Manhattan", "Natural"}
ReturnTypes == {"CellValue", "NoiseLookup", "Distance", "Distance2", "Distance2Add",
                "Distance2Sub", "Distance2Mul", "Distance2Div"}

\* The tables after a shuffle in which the j-th draw is k = draw[j], one of
\* j .. N: N is one place too far, where the second half begins.
Shuffled(old, draw) ==
    LET loop[j \in 0 .. N] ==
            IF j = 0
            THEN [p |-> [i \in 0 .. 2*N-1 |-> IF i < N THEN i ELSE old[i]],
                  p12 |-> [i \in 0 .. 2*N-1 |-> 0]]
            ELSE LET t == loop[j-1]
                     k == draw[j-1]
                     l == t.p[j-1]
                     set == [t.p EXCEPT ![j-1] = t.p[k], ![j-1+N] = t.p[k]]
                     swapped == [set EXCEPT ![k] = l]
                     dir == swapped[j-1] % Gradients
                 IN  [p |-> swapped, p12 |-> [t.p12 EXCEPT ![j-1] = dir, ![j-1+N] = dir]]
    IN  loop[N]

SetSeed(seed) ==
    LET t == Shuffled(perm, Draws[seed])
    IN  perm' = t.p /\ perm12' = t.p12 /\ m' = [m EXCEPT !.seed = seed]

\* Left out of the defaults: 0.01 and 0.45 are One and Half, to keep numbers small.
Defaults == [seed |-> 1, frequency |-> One, interp |-> "Quintic", noiseType |-> "Simplex",
            octaves |-> 3, lacunarity |-> Whole(2), gain |-> Half, fractalType |-> "FBM",
            fractalBounding |-> CalculateFractalBounding(Half, 3),
            cellularDistanceFunction |-> "Euclidean", cellularReturnType |-> "CellValue",
            cellularNoiseLookup |-> FALSE,
            cellularDistanceIndex0 |-> 0, cellularDistanceIndex1 |-> 1,
            cellularJitter |-> Half, gradientPerturbAmp |-> One]

\* The constructor; new tables hold what the memory held before.
Init ==
    /\ m = Defaults
    /\ \E junk \in 0 .. N-1 :
          LET t == Shuffled([i \in 0 .. 2*N-1 |-> junk], Draws[Defaults.seed])
          IN  perm = t.p /\ perm12 = t.p12

Setting(new) == m' = new /\ UNCHANGED <<perm, perm12>>

SetFrequency(f) == Setting([m EXCEPT !.frequency = f])
SetInterp(interp) == Setting([m EXCEPT !.interp = interp])
SetNoiseType(type) == Setting([m EXCEPT !.noiseType = type])
SetFractalLacunarity(lacunarity) == Setting([m EXCEPT !.lacunarity = lacunarity])
SetFractalType(type) == Setting([m EXCEPT !.fractalType = type])
SetCellularDistanceFunction(f) == Setting([m EXCEPT !.cellularDistanceFunction = f])
SetCellularReturnType(type) == Setting([m EXCEPT !.cellularReturnType = type])
SetCellularNoiseLookup(given) == Setting([m EXCEPT !.cellularNoiseLookup = given])

SetFractalOctaves(octaves) ==
    Setting([m EXCEPT !.octaves = octaves,
                      !.fractalBounding = CalculateFractalBounding(m.gain, octaves)])

\* Mutant: the bounding of the gain before is kept.
SetFractalGainOnly(gain) == Setting([m EXCEPT !.gain = gain])
SetFractalGain(gain) ==
    Setting([m EXCEPT !.gain = gain,
                      !.fractalBounding = CalculateFractalBounding(gain, m.octaves)])

\* The lower index comes first, whichever way they are given.
SetCellularDistance2Indices(i, j) ==
    Setting([m EXCEPT !.cellularDistanceIndex0 = Clamped(IF i < j THEN i ELSE j),
                      !.cellularDistanceIndex1 = Clamped(IF i < j THEN j ELSE i)])

SetCellularJitter(jitter) == Setting([m EXCEPT !.cellularJitter = jitter])
SetGradientPerturbAmp(amp) == Setting([m EXCEPT !.gradientPerturbAmp = amp])

Changes(members) ==
    LET default == Defaults IN {k \in DOMAIN members : members[k] # default[k]}

Next ==
    /\ \/ \E seed \in DOMAIN Draws : SetSeed(seed)
       \/ \E f \in {One, Whole(2)} : SetFrequency(f)
       \/ \E interp \in Interps : SetInterp(interp)
       \/ \E type \in NoiseTypes : SetNoiseType(type)
       \/ \E octaves \in OctaveCounts : SetFractalOctaves(octaves)
       \/ \E lacunarity \in {One, Whole(2)} : SetFractalLacunarity(lacunarity)
       \/ \E gain \in Gains : SetFractalGain(gain)
       \/ \E type \in FractalTypes : SetFractalType(type)
       \/ \E f \in DistanceFunctions : SetCellularDistanceFunction(f)
       \/ \E type \in ReturnTypes : SetCellularReturnType(type)
       \/ \E given \in BOOLEAN : SetCellularNoiseLookup(given)
       \/ \E i, j \in Indices : SetCellularDistance2Indices(i, j)
       \/ \E jitter \in {Zero, Half} : SetCellularJitter(jitter)
       \/ \E amp \in {One, Whole(2)} : SetGradientPerturbAmp(amp)
    /\ Cardinality(Changes(m')) <= MaxChanges
=============================================================================
