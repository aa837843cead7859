SPECIFICATION Spec
CONSTANTS
    a = a
    b = b
    x = x
    p = p
    y = y
    NoKey = NoKey
    Nobody = Nobody
    Ids = {0, 1, 2}
    Keys = {a, b, x, y, p}
    SignerSets <- OneOrBoth
    Founders = {0, 1}
    FounderKey <- MemberKeys
    FirstValidators = {0}
    FounderVote <- VoteKeys
    MinValidators = 1
    GuardianMin = 1
    VetoFloor = 1
    MaxWindow = 2
    MaxKeys = 1
    RowRetention = 1
    Offers <- TwoLists
    Ballots = {x, b}
    MaxEpoch = 2
INVARIANT TypeOK
INVARIANT OneKeyOneMember
INVARIANT QuorumStands
INVARIANT NobodyNamedIsGone
PROPERTY RotationIsAuthorised
CHECK_DEADLOCK FALSE
