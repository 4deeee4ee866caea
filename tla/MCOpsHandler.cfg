SPECIFICATION Spec
CONSTANTS
    Points = {0, 1, 2}
    BufferType <- MCBufferType
    OtherTypes = {3}
    CastTypes = {1}
    DefaultType = 1
    Sizes = {3}
    Less <- MCLess
    Plus <- MCPlus
    Ids = {1, 2, 3, 4, 5, 6, 7, 8}
    None = None
    Mix <- MCMix
    Numbers = {0, 1, 2, 3, 4}
    Fault = Fault
    MaxOf <- MCMaxOf
    MaxSteps = 5
INVARIANTS
    ValuesKept
    LoadsStayMasked
    TypesKept
    DeclarationsTyped
