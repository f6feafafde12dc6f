CONSTANTS
    coordinator = coordinator
    editor = editor
    super = super
    manage = manage
    publish = publish
    c1 = c1
    c2 = c2
    r1 = r1
    r2 = r2
    Role <- ThreeRoles
    Perm <- TwoPerms
    Club <- TwoClubs
    Everywhere = Everywhere
    SystemRole <- Super
    GrantsAll <- Super
    OneClubRole <- Coordinators
    Req <- TwoRequests
    Subject <- AllSubjects
    Edited <- Editor
    Grant <- InUse
    Slot <- SlotsInUse
    Wish <- ThreeWishes
    Question <- TwoQuestions
    Before <- SomeTables
    MaxBusy = 2
SPECIFICATION AccessSpec
SYMMETRY Symmetric
INVARIANTS AccessInv DecisionIsOfItsTime
PROPERTIES OneClubByRaceOnly RoleIsAsAsked
