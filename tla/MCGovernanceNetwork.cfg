CONSTANTS
    Voters = {s1, s2}
    Targets = {p1}
    Ids = {i1, i2, i3, i4}
    OnboardIds = {i1, i2}
    NoProposal = NoProposal
    QuorumNum = 66
    QuorumDen = 100
    BootstrapSecs = 0
    U64 = 1024
SPECIFICATION Spec
PROPERTY
    ProposalsReachSupernodes
CHECK_DEADLOCK FALSE
