SPECIFICATION FairSpec
CONSTANTS
    A = a
    B = b
    SeqMax = 5
    WinSize = 2
    MaxTxThreshold = 1
    FrameCnt <- WholeWindowFrames
    MaxMsg <- WholeWindowMsgs
    NetCap = 1
    SendOutcomes = {TRUE}
    MaxFull = 0
PROPERTIES
    WindowDrains
CHECK_DEADLOCK FALSE
