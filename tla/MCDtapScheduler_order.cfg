SPECIFICATION FairSpec
CONSTANTS
    l1 = l1
    l2 = l2
    c1 = c1
    c2 = c2
    c3 = c3
    Lcid <- Links
    Chan <- Channels
    LcidOf <- ChannelLink
    PriorityOf <- ChannelPriority
    FragmentCnts = {3}
    MaxPkt = 2
    ApBufferNums = {2}
    MayFail = FALSE
    MaxDown = 0
    MaxDisconnect = 0
INVARIANTS
    TypeOK
PROPERTIES
    FragmentsContiguous
    UrgentFirst
    WaitingIsSent
CHECK_DEADLOCK FALSE
