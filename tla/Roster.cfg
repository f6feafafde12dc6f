CONSTANTS
    a = a
    b = b
    c = c
    i1 = i1
    i2 = i2
    i3 = i3
    r1 = r1
    script = script
    NoPerson = NoPerson
    NoAppt = NoAppt
    Req <- TwoRequests
    Script = script
    Appt <- ThreeRows
    Person <- ThreePeople
    NewAs <- JustDrafts
    Patches <- SomePatches
    Slots <- ThreeSlots
    Before <- SomeTables
SPECIFICATION Spec
SYMMETRY Symmetric
INVARIANTS IInv ListIsInForce
PROPERTIES OverLimitByRaceOnly UnitDriftsByRaceOnly
