SPECIFICATION Spec
CONSTANTS
    Shapes <- SmallShapes
    Points = 2
    Types <- AllTypes
    Values = {0, 1, 3}
    Batches <- SmallBatches
    Modulus = 4
    BitXor <- MCBitXor
    None = None
INVARIANTS
    AccumulatesDefinition
    EveryPointFromItsOwnValues
