SPECIFICATION Spec
CONSTANTS
    l1 = l1
    l2 = l2
    c1 = c1
    c2 = c2
    c3 = c3
    Lcid <- Links
    Chan <- Channels
    LcidOf <- ChannelLink
    PriorityOf <- ChannelPriority
    FragmentCnts = {2}
    MaxPkt = 1
    ApBufferNums = {1, 3}
    MayFail = TRUE
    MaxDown = 1
    MaxDisconnect = 1
INVARIANTS
    CreditsMatchController
    QueueAccounting
PROPERTIES
    NeverOverrun
CHECK_DEADLOCK FALSE
