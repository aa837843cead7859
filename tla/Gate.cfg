SPECIFICATION Spec
CONSTANTS
    Members <- MCMembers
    Founders <- MCFounders
    GenesisSupply <- MCSupply
    GenesisStakes <- MCStakes
    Envelopes <- MCEnvelopes
    RefusedElsewhere <- MCRefused
    MaySuspend = {2}
    Trade = 2
    Unit = 1
    Allowance = 1
    EstablishedFloor = 2
    Dust = 0
    ReleaseEpochs = 2
    ForfeitEpochs = 2
    Lifetime = 2
    DecayNum = 1
    DecayDen = 2
    MaxAdvance = 2
    MaxEpoch = 3
INVARIANT GateAudit
INVARIANT OnceAndNotLater
INVARIANT SaturationIsEarned
INVARIANT CacheNeverDecides
PROPERTY BondsReturn
PROPERTY RefusalsArePriced
CHECK_DEADLOCK FALSE
