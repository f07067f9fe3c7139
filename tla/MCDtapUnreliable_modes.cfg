SPECIFICATION Spec
CONSTANTS
    SeqMax = 7
    ReorderTimeout = 1
    CacheMax = 2
    MaxMsg = 8
    Depth = 3
    MaxDup = 1
    MaxClock = 2
    MaxOpens = 2
INVARIANTS
    TypeOK
    ReportedInOrder
    NothingReadyIsHeld
    AcceptedIsKept
CHECK_DEADLOCK FALSE
