------------------------------- MODULE Noise --------------------------------
(***************************************************************************)
(* One object of a noise library: of FastNoise, or of FastNoiseSIMD with   *)
(* its sets.                                                               *)
(***************************************************************************)
EXTENDS Integers, Sequences

CONSTANTS
    N, Gradients, Draws, Points2, Points3,                      \* FastNoise's
    VAL_LUT, GRAD_X, GRAD_Y, GRAD_Z, GRAD_4D, CELL_2D, CELL_3D,
    FastMaxChanges,
    Compiled, Cpu, Values, Amps, Seeds, Blocks, Starts, Scales, \* FastNoiseSIMD's
    SampleScales, Offsets, OtherKinds, MaxChanges, FilledChanges, Points,
    OctaveCounts, Gains, Indices                                \* of both

VARIABLES
    library,
    m,                          \* the members of the object
    perm, perm12,               \* FastNoise's tables
    level, vectorSet, noiseSet  \* FastNoiseSIMD's
vars == <<library, m, perm, perm12, level, vectorSet, noiseSet>>

Z == <<0, 1>>
I == <<1, 1>>
J == <<-1, 1>>
HALF == <<1, 2>>

Fast == INSTANCE FastNoise WITH MaxChanges <- FastMaxChanges
Simd == INSTANCE FastNoiseSIMD

ASSUME NoiseAssumption ==
    Fast!Assumption /\ Fast!TableAssumption /\ Fast!PointAssumption /\ Simd!Assumption

Init ==
    \/ library = "FastNoise" /\ Fast!Init /\ level = -1 /\ vectorSet = Simd!NoSet /\ noiseSet = Simd!NoSet
    \/ library = "FastNoiseSIMD" /\ Simd!Init /\ perm = <<>> /\ perm12 = <<>>
Next ==
    \/ library = "FastNoise" /\ Fast!Next /\ UNCHANGED <<library, level, vectorSet, noiseSet>>
    \/ library = "FastNoiseSIMD" /\ Simd!Next /\ UNCHANGED <<library, perm, perm12>>
Spec == Init /\ [][Next]_vars

\* The members that are computed from others agree with them, in both libraries,
\* whichever settings are changed and in which order.
SettingsAgree == IF library = "FastNoise" THEN Fast!SettingsAgree ELSE Simd!SettingsAgree

\* Where cells of the lattice meet, noise is the same from all of them, on both
\* sides of zero, by every instruction set.
CellsMeet == IF library = "FastNoise" THEN Fast!CellsMeet ELSE Simd!CellsMeet

\* Fractals of every number of octaves and gain stay within -1 .. 1, and the
\* points that FastNoise warps within the amplitude of where they were.
Bounded == IF library = "FastNoise" THEN Fast!Bounded ELSE Simd!Bounded

\* Noise is made of what is nearest, and of nothing else: simplex noise of the
\* corners of the triangle around a point, so that triangles meet, and cellular
\* noise of the nearest cells' points, by the indices.
NearestPoints ==
    IF library = "FastNoise" THEN Fast!NearestCells /\ Fast!TrianglesMeet ELSE Simd!NearestCells

\* Every cell of a set has the noise of its own place, for blocks whose rows are
\* shorter than a vector, that end within one, or that are sampled.
SetsFilled == library = "FastNoiseSIMD" => Simd!SetsFilled

\* The two libraries, and the instruction sets of one, compute alike: rounding,
\* the polynomials, the order of a simplex's corners with every tie, by branches
\* or a table or masks; and the instruction set that is chosen is the best there
\* is.  None of this changes: it is looked at while none is chosen yet.
TablesAgree ==
    library = "FastNoiseSIMD" /\ level < 0 =>
        /\ Fast!SimplicesInOrder
        /\ \A d \in [1 .. 3 -> {Z, HALF, I}] : Simd!MaskedSteps(d) = Fast!Steps3(d)
        /\ \A t \in {Z, <<1, 4>>, <<1, 3>>, HALF, <<4, 5>>, I} :
               /\ Simd!InterpQuintic(t) = Fast!InterpQuinticFunc(t)
               /\ \A p, q, r, s \in {J, Z, HALF} :
                      Simd!CubicLerp(p, q, r, s, t) = Fast!CubicLerp(p, q, r, s, t)
        /\ Simd!LevelsAgree
        /\ Simd!FastestFits
=============================================================================
