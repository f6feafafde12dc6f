CONSTANTS
    r1 = r1
    r2 = r2
    r3 = r3
    u1 = u1
    u2 = u2
    u3 = u3
    NoUser = NoUser
    Req <- TwoRequests
    User <- TwoUsers
    MaxRows = 3
    Caps <- TwoCaps
    InitCap = 1
    Ops <- ConcurrentOps
    Faults = TRUE
SPECIFICATION Spec
SYMMETRY Symmetric
VIEW View
INVARIANT IInv
PROPERTIES OversoldOnlyByRace ImplementsLedger
