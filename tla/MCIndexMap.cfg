SPECIFICATION Spec
CONSTANTS
    MaxNumel = 12
    ParentRanges <- Parents
    ChildRanges <- Children
    BufferSizes <- Buffers
    Strides = {0, 1, 2, 3, 6}
    Offsets = {0, 1}
INVARIANTS
    EveryPointOnce
    AccessDenotesAddress
