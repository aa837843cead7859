SPECIFICATION Spec
CONSTANTS
    Members = {0, 1, 2, 3}
    SignerSets = {{2,3}, {1,2}}
    Guardians <- NoGuardians
    Threshold = 1
    MaySuspend = {}
    Dust = 1
    MinMaturity = 1
    MaxHorizon = 1
    InsuredHorizon = 1
    MaxInstallments = 128
    DecayNum = 1
    DecayDen = 2
    Retention = 0
    MaxRing = 3
    MaxRings = 2
    GenesisSupply <- TwoSupplies
    GenesisStakes <- TwoBackers
    Deals <- LossDeals
    MaxRows = 2
    MaxEpoch = 2
    Panels <- OneArbiter
    Attested = {4}
    Scales <- Halved
    MaxScales = 1
INVARIANT Audit
INVARIANT CutBound
INVARIANT PanelsAwardOnce
PROPERTY InsuranceKept
PROPERTY HoldsNeverMove
CHECK_DEADLOCK FALSE
VIEW BookView
