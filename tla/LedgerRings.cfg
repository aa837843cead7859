SPECIFICATION Spec
CONSTANTS
    Members = {0, 1, 2}
    SignerSets = {{0, 1}, {1, 2}, {0, 2}}
    Guardians <- PairGuards
    Threshold = 2
    MaySuspend = {2}
    Dust = 1
    MinMaturity = 1
    MaxHorizon = 1
    InsuredHorizon = 2
    MaxInstallments = 1
    DecayNum = 977
    DecayDen = 1000
    Retention = 1
    MaxRing = 3
    MaxRings = 1
    GenesisSupply <- OneSupply
    GenesisStakes <- OneBacked
    Deals <- RingDeals
    MaxRows = 3
    MaxEpoch = 2
    Panels = {}
    Attested = {}
    Scales = {}
    MaxScales = 0
INVARIANT NothingOverdue
PROPERTY ConsentToLoss
CHECK_DEADLOCK FALSE
VIEW BookView
