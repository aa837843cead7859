SPECIFICATION Spec
CONSTANTS
    Members = {0, 1, 2, 3, 4}
    SignerSets = {{3, 4}}
    Guardians <- NoGuardians
    Threshold = 1
    MaySuspend = {}
    Dust = 1
    MinMaturity = 1
    MaxHorizon = 2
    InsuredHorizon = 1
    MaxInstallments = 128
    DecayNum = 1
    DecayDen = 2
    Retention = 0
    MaxRing = 3
    MaxRings = 2
    GenesisSupply <- RelaySupply
    GenesisStakes <- RelayStakes
    Deals <- RelayDeals
    MaxRows = 1
    MaxEpoch = 1
    Panels = {}
    Attested = {}
    Scales <- Halved
    MaxScales = 1
INVARIANT AuditedCuts
CHECK_DEADLOCK FALSE
VIEW BookView
