SPECIFICATION Spec
CONSTANTS
    Schedulers = {s, t}
    Atoms = {x, z}
    Unsupported = {z}
    MaxPasses = 2
    MaxFaults = 1
    Captures = {c, d}
    Plain = Plain
    None = None
INVARIANTS
    TypeOK
    PatchesNest
    EveryRewriteOnce
    PassStackIsCallStack
SYMMETRY NameSymmetry
PROPERTY Transparent
