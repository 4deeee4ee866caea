SPECIFICATION ExecSpec
CONSTANTS
    Inputs = {a}
    Outputs = {x, y, z}
    FullIdx = {f}
    RowIdx = {p}
    None = None
    MaxOps = 1
    MaxArgs = 1
    MaxStates = 1
    MaxMarkers = 2
    PointwiseSize = 2
    ReductionSize = 3
    Value <- MCValue
    Unit = 0
    Undef <- MCUndef
    Mix <- MCMix
    Add <- MCAdd
    InitialMemory <- MCInitialMemory
SYMMETRY ChildSymmetry
INVARIANTS
    TypeOK
    ReadsSettled
    PhaseFollowsSchedule
    LoadsDefined
    ForwardingMatchesStores
    DeclaredOnce
    RegionComputesSchedule
