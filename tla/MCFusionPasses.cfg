SPECIFICATION FairSpec
CONSTANTS
    Schedulers = {s}
    Atoms = {x, y, z}
    Unsupported = {z}
    MaxPasses = 2
    MaxFaults = 1
    Captures = {c}
    Plain = Plain
    None = None
INVARIANT PassesReplay
PROPERTY WatchingEnds
