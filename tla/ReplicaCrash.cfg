SPECIFICATION FairSpec
CONSTANTS
    Validators = {"v1", "v2"}
    ConsensusKeys = {"k0", "k1", "k2"}
    ValidatorStates <- OneSet
    Genesis <- BothOld
    Times = {1}
    Poison = {}
    SnapshotInterval = 2
    PruneMargin = 0
    TearMarks = {}
    MaxHeight = 6
    MaxCrashes = 2
    MaxIoErrors = 0
    MaxRot = 0
    MaxImports = 0
INVARIANT TypeOK
INVARIANT AckedSurvives
INVARIANT NeverRefused
INVARIANT AdvertisedIsServed
PROPERTY CatchesUp
PROPERTY Durable
CHECK_DEADLOCK FALSE
