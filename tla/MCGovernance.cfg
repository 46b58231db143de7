CONSTANTS
    Voters = {s1, s2}
    Targets = {p1}
    Ids = {i1}
    NoProposal = NoProposal
    QuorumNum = 66
    QuorumDen = 100
    BootstrapSecs = 1
    U64 = 16
    MaxTime = 2
    NoFile = NoFile
    Torn = Torn
SPECIFICATION Spec
INVARIANTS
    TypeOK
    BootstrapMeansFewSupernodes
    FileBehindEngine
PROPERTIES
    DecisionsAreFinal
    AutoExecutionOnlyInBootstrap
