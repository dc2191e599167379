SPECIFICATION Spec
CONSTANTS
    N <- MCN
    Gradients = 3
    Draws <- MCDraws
    Points2 <- MCPoints2
    Points3 <- MCPoints3
    VAL_LUT <- MCVAL_LUT
    GRAD_X <- MCGRAD_X
    GRAD_Y <- MCGRAD_Y
    GRAD_Z <- MCGRAD_Z
    GRAD_4D <- MCGRAD_4D
    CELL_2D <- MCCELL_2D
    CELL_3D <- MCCELL_3D
    FastMaxChanges = 3
    Compiled = {0, 1, 3, 4}
    Cpu <- MCCpu
    Values <- MCValues
    Amps <- MCAmps
    Seeds = {1}
    Blocks <- MCBlocks
    Starts <- MCStarts
    Scales <- MCScales
    SampleScales <- MCSampleScales
    Offsets <- MCOffsets
    OtherKinds = {"WhiteNoise", "CubicFractal"}
    MaxChanges = 2
    FilledChanges = {"scales", "noiseType"}
    Points <- MCPoints3
    OctaveCounts <- MCOctaveCounts
    Gains <- MCGains
    Indices <- MCIndices
INVARIANTS SettingsAgree CellsMeet Bounded NearestPoints SetsFilled TablesAgree
CHECK_DEADLOCK FALSE
