SPECIFICATION Spec
CONSTANTS
    Inputs <- MCInputs
    Targets <- MCTargets
    MaxOps = 2
    MaxUses = 3
    MaxOutputs = 2
INVARIANTS
    ReturnsGraphOutputs
    SignaturesNameLoads
    NamesResolve
