SPECIFICATION FairSpec
CONSTANTS
    a = a
    b = b
    p1 = p1
    p2 = p2
    A = a
    B = b
    Port = {p1, p2}
    Tcid <- TwoTcids
    IdMod = 8
    Frame4 = {}
    High = {p1}
    Registered <- AllPorts
    ChanMax = 3
    MaxOps <- BothSides
    MaxFaults = 1
INVARIANTS
    TypeOK
    PoolMatchesChannels
    WaitingIsWatched
    NoStaleQosEntry
PROPERTIES
    WaitsEnd
CHECK_DEADLOCK FALSE
