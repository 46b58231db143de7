SPECIFICATION Spec
CONSTANTS
    local = local
    p1 = p1
    p2 = p2
    n1 = n1
    n2 = n2
    n3 = n3
    Peer <- MCPeer
    Local = local
    Nonce = {n1, n2, n3}
    NoNonce = NoNonce
    NoRole = NoRole
    NoSignature = NoSignature
    Garbled = Garbled
    NoFile = NoFile
    Required = 2
    ReplayWindow = 1
    MaxNoncesPerPeer = 2
    MaxTrackedPeers = 1
    NonceTtl = 2
    MaxCacheSize = 2
    MaxAttempts = 2
    AttemptWindow = 2
    Burst = 1
    RefillRate = 1
    Scenarios <- MCScenarios
    ValidSerials <- MCPeer
    Bundle = {p2}
    PolicyFile <- MCPolicyFile
    Files <- MCFiles
    Relays = {p2}
    MaxTime = 3
INVARIANTS
    PipelineTypeOK
    AcceptedAtMostOnce
    SignedInForce
    GatewayRateBounded
    OnboardRateBounded
    NonceRepeatsNeedPressure
PROPERTIES
    AcceptsOnce
    AuthorityAdvances
CHECK_DEADLOCK FALSE
