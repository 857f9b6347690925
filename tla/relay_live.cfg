SPECIFICATION FairSpec
CONSTANTS
    Channels = {c1}
    Switched = {c1}
    Programs <- MCCoolPrograms
    FactoryProgram <- MCFactory
    Edits <- MCCoolEdits
    MainPositions <- BothPositions
    MainMoves = TRUE
    LoopTimes = {1, 2}
    TimerInterval = 1
    BootTime = 1
    SetupTime = 0
    Horizon = 6
    MaxResets = 1
    c1 = c1
PROPERTIES EventuallyOn ManualSettles
