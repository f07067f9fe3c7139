SPECIFICATION Spec
CONSTANTS
    MaxApp = 2
    Addr = {a}
    MaxLink = 1
    MaxReq = 5
    MaxAir = 3
    MaxFault = 1
INVARIANTS
    TypeOK
    AppsMatchLink
    AnswerIsDue
CHECK_DEADLOCK FALSE
