SPECIFICATION Spec
CONSTANTS
    Inputs <- MCInputs
    Targets <- MCTargets
    MaxOps = 2
    MaxUses = 3
    MaxOutputs = 2
INVARIANT
    FusedSignaturesNameLoads
