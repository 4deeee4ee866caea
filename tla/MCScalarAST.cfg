SPECIFICATION Spec
CONSTANTS
    GraphInputs = {"a"}
    Buffers <- ThreeBuffers
    MaxReads = 1
    Accumulator <- AccumulatorName
    Mix <- LinearMix
    Initially <- DistinctContents
    Shapes <- SomeShapes
    ReducedShapes <- SomeReducedShapes
    Cells = {0, 1, 2, 3, 4, 5}
    Indices <- SomeIndices
INVARIANTS
    ProgramComputesGraph
    RolesMatchAccesses
