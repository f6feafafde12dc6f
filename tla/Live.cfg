CONSTANTS
    h1 = h1
    h2 = h2
    v1 = v1
    v2 = v2
    p1 = p1
    p2 = p2
    NoProcess = NoProcess
    Host <- TwoHosts
    Viewer <- TwoViewers
    Process <- TwoProcesses
    Questions = 1
    MaxWrites = 3
    MaxTrouble = 1
    Scenes <- FourScenes
SPECIFICATION FairSpec
INVARIANTS IInv BehindByLossOnly CountOffByLastMessageOnly FinalBoardComplete
PROPERTIES RevealStaysByRaceOnly EveryPageCatchesUp
CHECK_DEADLOCK FALSE
