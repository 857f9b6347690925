SPECIFICATION Spec
CONSTANTS
    Channels = {c1}
    Switched = {c1}
    Programs <- MCAutoPrograms
    FactoryProgram <- MCFactory
    Edits <- MCNoEdits
    MainPositions <- AutoOnly
    MainMoves = TRUE
    LoopTimes = {1, 2}
    TimerInterval = 1
    BootTime = 1
    SetupTime = 0
    Horizon = 8
    MaxResets = 0
    c1 = c1
PROPERTY FullCooldown
