CONSTANTS
    Voters = {s1, s2, s3}
    Local = s1
    Targets = {p1}
    Ids = {i1, i2}
    NoProposal = NoProposal
    NoCert = NoCert
    QuorumNum = 66
    QuorumDen = 100
    BootstrapSecs = 0
    VoteTimeout = 0
    U64 = 8
    MaxTime = 1
SPECIFICATION Spec
PROPERTY
    BootstrapVoteActivates
