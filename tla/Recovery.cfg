CONSTANTS
    a1 = a1
    a2 = a2
    f1 = f1
    f2 = f2
    b1 = b1
    g1 = g1
    g2 = g2
    g3 = g3
    Admin <- TwoAdmins
    Form <- TwoForms
    Tab <- OneTab
    MaxTickets = 2
    Generated <- ThreeGenerated
    First = First
    Kept = Kept
    Own = Own
    NoPassword = NoPassword
    Nobody = Nobody
    MaxTrouble = 2
SPECIFICATION FairSpec
CHECK_DEADLOCK FALSE
INVARIANT IInv
PROPERTIES ClosedReopenedByRaceOnly OwnChangeOverResetByRaceOnly ForcedMemberGetsOut ForgottenRecovered
