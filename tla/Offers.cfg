SPECIFICATION Spec
CONSTANTS
    Nodes = {"n1", "n2"}
    Keys = {1, 2, 3}
    Founders = {1, 2}
    Offers <- MCOffers
    Requests <- MCRequests
    Refusals <- MCRefusals
    MaxEntries = 2
    Share = 1
    MaxInvited = 1
    MaxTombstones = 1
    Ttl = 1
    MaxQueue = 2
    SeenCap = 1
    MaxBatch = 2
    Doors = {"n1"}
    MayRestart = {"n1"}
    MaxTime = 1
    MaxClosed = 3
    MaxBlocks = 2
INVARIANT OverStaysOver
INVARIANT RoomIsKept
CHECK_DEADLOCK FALSE
