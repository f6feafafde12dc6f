CONSTANTS
    r1 = r1
    r2 = r2
    m1 = m1
    Nobody = Nobody
    Req <- TwoRequests
    HostReq <- TwoRequests
    Member <- OneMember
    MaxSessions = 2
    MaxQuestions = 2
    InitBank = 2
    Limits = {0}
    Positions = {2}
    MaxTime = 0
    Ops <- HostsOps
SPECIFICATION Spec
SYMMETRY Symmetric
INVARIANT IInv
PROPERTY FollowsTransitionsByRaceOnly
