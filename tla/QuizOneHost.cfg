CONSTANTS
    r1 = r1
    r2 = r2
    m1 = m1
    Nobody = Nobody
    Req <- TwoRequests
    HostReq <- OneRequest
    Member <- OneMember
    MaxSessions = 1
    MaxQuestions = 3
    InitBank = 2
    Limits = {0, 1}
    Positions = {}
    MaxTime = 1
    Ops <- KeptOrderOps
SPECIFICATION Spec
INVARIANT AnsweredInAWindow
PROPERTY NeverAskedTwice
