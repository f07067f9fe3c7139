SPECIFICATION Spec
CONSTANTS
    A = a
    B = b
    SeqMax = 7
    WinSize = 2
    MaxTxThreshold = 1
    FrameCnt <- TwoSenderFrames
    MaxMsg <- TwoSenderMsgs
    NetCap = 1
    SendOutcomes = {TRUE, FALSE}
    MaxFull = 1
INVARIANTS
    AckedWasReceived
PROPERTIES
    RefinesFifo
CHECK_DEADLOCK FALSE
