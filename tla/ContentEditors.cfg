CONSTANTS
    r1 = r1
    r2 = r2
    Req <- TwoRequests
    MaxRevs = 3
    MaxEdits = 2
    Ops <- AllOps
    Faults = TRUE
SPECIFICATION Spec
SYMMETRY Symmetric
INVARIANT IInv
PROPERTIES PointersLostByRaceOnly HistoryRewrittenByRaceOnly InlinePublishesOwnWorkAlone
