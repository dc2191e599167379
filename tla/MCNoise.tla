------------------------------- MODULE MCNoise ------------------------------
(***************************************************************************)
(* A small instance of Noise: tables of a few entries, three or four       *)
(* values of each setting, and blocks that end before, with and after a    *)
(* vector of each length.                                                  *)
(***************************************************************************)
EXTENDS Noise, TLC

TWO == <<2, 1>>

\* The length of a permutation, and of the tables it leads to: 4 for 256.
MCN == 4
Tables == 0 .. MCN - 1
MCVAL_LUT == [i \in Tables |-> <<I, J, HALF, J>>[i+1]]
MCGRAD_X == [i \in 0 .. 2 |-> <<I, J, Z>>[i+1]]
MCGRAD_Y == [i \in 0 .. 2 |-> <<I, Z, J>>[i+1]]
MCGRAD_Z == [i \in 0 .. 2 |-> <<Z, I, J>>[i+1]]
MCGRAD_4D == [i \in Tables |-> << <<Z, I, I, I>>, <<I, Z, J, I>>, <<J, I, Z, J>>, <<I, J, J, Z>> >>[i+1]]
MCCELL_2D == [i \in Tables |-> << <<I, Z>>, << <<-3, 5>>, <<4, 5>> >>, <<Z, J>>, <<J, Z>> >>[i+1]]
MCCELL_3D == [i \in Tables |-> << <<I, Z, Z>>, <<Z, I, Z>>, <<Z, J, Z>>, <<Z, Z, J>> >>[i+1]]

MCDraws == [seed \in 1 .. 2 |-> [j \in 0 .. 3 |-> IF seed = 1 THEN <<2, 4, 2, 3>>[j+1]
                                                            ELSE <<4, 1, 3, 3>>[j+1]]]
MCPoints2 == {<<Z, Z>>, << <<-1, 2>>, I>>, <<J, HALF>>, <<HALF, <<-3, 2>> >>}
MCPoints3 == {<<Z, J, HALF>>, << <<-1, 2>>, HALF, I>>}

MCCpu == [ids |-> 7, has |-> {"SSE2", "SSE41", "XSAVE", "OSXSAVE", "AVX", "ymm saved", "FMA", "AVX2"}]
MCValues ==
    "seed" :> {1} @@ "frequency" :> {TWO} @@ "scales" :> {<<I, TWO, HALF>>} @@
    "noiseType" :> {"Value", "Perlin", "WhiteNoise", "Cellular", "Cubic", "CubicFractal"} @@
    "lacunarity" :> {I} @@ "fractalType" :> {"Billow", "RigidMulti"} @@
    "cellularDistanceFunction" :> {"Manhattan", "Natural"} @@
    "cellularReturnType" :> {"CellValue", "NoiseLookup", "Distance2", "Distance2Add", "Distance2Sub",
                             "Distance2Mul", "Distance2Div", "Distance2Cave"} @@
    "cellularNoiseLookupType" :> {"CubicFractal", "WhiteNoise"} @@
    "cellularNoiseLookupFrequency" :> {I} @@ "cellularJitter" :> {Z} @@
    "perturbType" :> {"Gradient", "GradientFractal", "Normalise"} @@
    "perturbFrequency" :> {I} @@ "perturbLacunarity" :> {TWO} @@ "perturbNormaliseLength" :> {I}
MCBlocks == {<<1, 1, 3>>, <<2, 2, 3>>, <<1, 3, 5>>, <<2, 3, 1>>, <<2, 1, 8>>, <<1, 2, 16>>}
MCStarts == {<<0, 0, 0>>, <<-1, 2, -3>>}
MCScales == {I, TWO}
MCSampleScales == 0 .. 2
MCOffsets == {<<Z, Z, Z>>, <<J, HALF, TWO>>}
MCOctaveCounts == 1 .. 3
MCGains == {HALF, I}
MCIndices == {-1, 2, 4}
MCAmps == {TWO}
=============================================================================
