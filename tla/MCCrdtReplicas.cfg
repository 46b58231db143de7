CONSTANTS
    N = 2
    Peers = {p}
    Assets = {a}
    MaxTime = 2
    MaxUpdates = 5
    MaxSyncs = 2
    MaxRestarts = 1
SPECIFICATION Spec
INVARIANTS
    Convergence
    NewestEntryWins
    RegistersAreWrites
    AssetsAreObservedRemove
    CountsAreComplete
PROPERTIES
    KnowledgeGrows
CHECK_DEADLOCK FALSE
