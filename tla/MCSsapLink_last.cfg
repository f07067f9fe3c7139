SPECIFICATION Spec
CONSTANTS
    MaxApp = 2
    Addr = {a}
    MaxLink = 1
    MaxReq = 6
    MaxAir = 2
    MaxFault = 0
INVARIANTS
    LastRequestWins
CHECK_DEADLOCK FALSE
