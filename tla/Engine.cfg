SPECIFICATION LiveSpec
CONSTANTS
    Nodes = {1, 2}
    Quorum = 1
    Skew = 1
    Drift = 1
    Foreign <- MCForeign
    MaxHeight = 2
    MaxBuilt = 1
    MaxCrashes = 1
INVARIANT EngineTypeOK
INVARIANT HonestIsNeverRefused
INVARIANT HandedBackWouldPass
PROPERTY CatchesUp
CHECK_DEADLOCK FALSE
