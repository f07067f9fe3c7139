SPECIFICATION Spec
CONSTANTS
    l1 = l1
    l2 = l2
    l3 = l3
    Links <- ThreeLinks
    MaxQueued = 4
    MaxBuffer = 8
INVARIANTS
    QuotaConserved
    MoreQueuedNotLess
    MatchesLcidQuota
CHECK_DEADLOCK FALSE
