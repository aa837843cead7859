SPECIFICATION Spec
CONSTANTS
    Members = {1, 2, 3}
    Backing <- MCBacking
    GenesisSupply <- MCSupply
    GenesisValidators = {1, 3}
    MinValidators = 1
    Agenda <- MCAgenda
    MayLower = {1}
    MayRekey = {2}
    MaxProposals = 3
    ThetaNum = 1
    ThetaDen = 2
    ValidatorThetaNum = 2
    ValidatorThetaDen = 3
    GenesisRate = 1
    RateDen = 4
    GenesisBond = 2
    BondDen = 4
    GenesisBase = 4
    ScaleNum = 1
    ScaleDen = 2
    Cooldown = 1
    ProposalRetention = 0
    Dust = 0
    MaxEpoch = 1
PROPERTY NothingIsBanked
CHECK_DEADLOCK FALSE
