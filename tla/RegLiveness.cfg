CONSTANTS
    r1 = r1
    r2 = r2
    r3 = r3
    u1 = u1
    u2 = u2
    u3 = u3
    NoUser = NoUser
    Req <- TwoRequests
    User <- TwoUsers
    MaxRows = 2
    Caps <- NoCaps
    InitCap = 1
    Ops <- LockingOps
    Faults = FALSE
VIEW View
SPECIFICATION FairSpec
PROPERTIES EveryRequestEnds
