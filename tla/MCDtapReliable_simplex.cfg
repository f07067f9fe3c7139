SPECIFICATION FairSpec
CONSTANTS
    A = a
    B = b
    SeqMax = 7
    WinSize = 3
    MaxTxThreshold = 1
    FrameCnt <- OneSenderFrames
    MaxMsg <- OneSenderMsgs
    NetCap = 2
    SendOutcomes = {TRUE}
    MaxFull = 0
INVARIANTS
    TypeOK
    InOrderDelivery
    UnackedIsWatched
    GapIsWatched
    TxWindowConsistent
    NoMessageDropped
PROPERTIES
    WindowDrains
CHECK_DEADLOCK FALSE
