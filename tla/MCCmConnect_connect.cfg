SPECIFICATION Spec
CONSTANTS
    a = a
    b = b
    Zero = zero
    Addr = {a, b}
    Module = {m1, m2}
    Lcid <- TwoHandles
    Ends <- ActiveIsG
    MaxDev = 2
    BgLists <- OneOrBoth
    MaxReq = 2
    MaxAir = 3
    MaxFault = 1
SYMMETRY ModuleSymmetry
INVARIANTS
    TypeOK
    WaitingIsPursued
    LinksMatchController
    AskIsPending
CHECK_DEADLOCK FALSE
