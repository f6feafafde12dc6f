CONSTANTS
    r1 = r1
    r2 = r2
    r3 = r3
    u1 = u1
    u2 = u2
    u3 = u3
    NoUser = NoUser
    Req <- OneRequest
    User <- ThreeUsers
    MaxRows = 4
    Caps <- AnyCaps
    InitCap = 1
    Ops <- AllOps
    Faults = FALSE
SPECIFICATION Spec
SYMMETRY Symmetric
PROPERTIES SeatsRefilled PromotedInOrder BoardFollowsRequests
