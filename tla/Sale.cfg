SPECIFICATION SaleSpec
CONSTANTS
    Members = {0, 1, 2, 3}
    SignerSets = {{2, 3}, {1, 2}}
    Guardians <- NoGuardians
    Threshold = 1
    MaySuspend = {2}
    Dust = 0
    MinMaturity = 1
    MaxHorizon = 2
    InsuredHorizon = 2
    MaxInstallments = 1
    DecayNum = 1
    DecayDen = 2
    Retention = 0
    MaxRing = 2
    MaxRings = 1
    GenesisSupply <- OneSupply
    GenesisStakes <- Backing
    Deals <- Loans
    MaxRows = 3
    MaxEpoch = 0
    Panels = {}
    Attested = {}
    Scales = {}
    MaxScales = 0
    MaxDepth = 20
    NuNum = 1
    NuDen = 1
    Listings <- Breakdowns
    Sales <- Offered
INVARIANT SaleAudit
PROPERTY OthersAreWhole
PROPERTY SaleIsExact
PROPERTY DrainIsCapped
CHECK_DEADLOCK FALSE
CONSTRAINT Explored
VIEW SaleView
