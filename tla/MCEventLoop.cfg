SPECIFICATION Spec
CONSTANTS
    p1 = p1
    p2 = p2
    a1 = a1
    a2 = a2
    local = local
    o1 = o1
    d1 = d1
    d2 = d2
    big = big
    Keep = Keep
    Peer = {p1, p2}
    Addr = {a1, a2, local}
    Public = {a1, a2}
    NoAddr = NoAddr
    Torn = Torn
    Rank <- MCRank
    MaxRecords = 1
    Object = {o1}
    Data = {d1, d2, big}
    TooLarge = {big}
    Pieces <- MCPieces
    MaxPieces = 2
    NoData = NoData
    NoPiece = NoPiece
    NoPeer = NoPeer
    Supernodes = {p2}
    AddrLists <- MCAddrLists
    Capacity = 6
    Tries = 2
    Task = {1, 2}
    Scenarios <- MCScenarios
INVARIANTS
    ConnectionsRecorded
    PendingMatchesCallers
    AddressesKept
    ReadsSeeTheLastPut
PROPERTY CallsReturn
CHECK_DEADLOCK FALSE
