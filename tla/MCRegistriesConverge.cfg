CONSTANTS
    N = 2
    Peers = {p}
    Assets = {a}
    MaxTime = 2
    MaxUpdates = 4
    MaxSyncs = 2
    MaxRestarts = 1
SPECIFICATION Spec
INVARIANT
    RegistriesConverge
CHECK_DEADLOCK FALSE
