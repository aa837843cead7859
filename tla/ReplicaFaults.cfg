SPECIFICATION Spec
CONSTANTS
    Validators = {"v1", "v2"}
    ConsensusKeys = {"k0", "k1", "k2"}
    ValidatorStates <- TwoSets
    Genesis <- BothOld
    Times = {1}
    Poison = {3}
    SnapshotInterval = 2
    PruneMargin = 0
    TearMarks = {"torn", "stub"}
    MaxHeight = 3
    MaxCrashes = 2
    MaxIoErrors = 1
    MaxRot = 1
    MaxImports = 1
INVARIANT OnTheChain
INVARIANT HaltLeavesNoTrace
CHECK_DEADLOCK FALSE
