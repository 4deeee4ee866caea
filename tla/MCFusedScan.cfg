SPECIFICATION ExecSpec
CONSTANTS
    Inputs = {a}
    Outputs = {x, y}
    FullIdx = {f, g}
    RowIdx = {p}
    None = None
    MaxOps = 1
    MaxArgs = 1
    MaxStates = 2
    MaxMarkers = 1
    PointwiseSize = 2
    ReductionSize = 3
    Value <- MCValue
    Unit = 0
    Undef <- MCUndef
    Mix <- MCMix
    Add <- MCAdd
    InitialMemory <- MCInitialMemory
SYMMETRY ChildSymmetry
INVARIANT RegionComputesSchedule
