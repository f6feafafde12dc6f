CONSTANTS
    y1 = y1
    y2 = y2
    r1 = r1
    r2 = r2
    council = council
    club = club
    head = head
    a = a
    b = b
    page = page
    coordinator = coordinator
    NoYear = NoYear
    NoUnit = NoUnit
    Year <- TwoYears
    InitYear = y1
    Source = y1
    Target = y2
    Req <- TwoRequests
    Lineage <- TwoUnits
    Appointment <- Heads
    Singleton <- OnePosition
    Item <- ClubPage
    Home <- PageOfClub
    Grant <- OneGrant
    InitRows <- LastYear
    MaxRuns = 2
    Phases <- WholeCopy
    MaxEdits = 1
SPECIFICATION Spec
SYMMETRY Symmetric
INVARIANTS IInv TargetIsComplete
PROPERTIES NeverWithoutCurrent CurrentLockedByRaceOnly LockUndoneByRaceOnly CompletedNotFailed
