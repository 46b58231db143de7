CONSTANTS
    IdleCycles = 1
    SyncBatchLimit = 1
    ZeroizeOnPanic = TRUE
    AutoSleepWhenIdle = TRUE
    ThrottlePeers = 2
    DegradePeers = 2
    NodeRole = "client"
    PeerCounts = {0, 1}
    CmdCapacity = 1
    SyncEvery = 1
    SleepAfter = 1
    MaxSpawned <- MCMaxSpawned
    Events = {"AuthorityViolation", "RoutePressure", "wake_ghost"}
    MaxEvents = 2
SPECIFICATION Spec
INVARIANTS
    GhostTypeOK
    ErasedStaysErased
    HealthMirrorsEngine
PROPERTIES
    ZeroizedIsFinal
    ViolationIsolates
    EngineFollowsPeers
