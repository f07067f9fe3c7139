SPECIFICATION FairSpec
CONSTANTS
    Window = 2
    MaxMsg = 6
    MaxTimeouts = 2
    MaxFaults = 1
INVARIANTS
    TypeOK
    NoUseAfterFree
    FreedExactlyOnce
    AnswersAreTrue
PROPERTIES
    BusyEnds
CHECK_DEADLOCK FALSE
