SPECIFICATION Spec
CONSTANTS
    Channels = {c1}
    Switched = {c1}
    Programs <- MCPrograms
    FactoryProgram <- MCFactory
    Edits <- MCSameTypeEdits
    MainPositions <- BothPositions
    MainMoves = FALSE
    LoopTimes = {1, 2}
    TimerInterval = 1
    BootTime = 1
    SetupTime = 0
    Horizon = 6
    MaxResets = 1
    c1 = c1
INVARIANTS TypeOK SteadyLedger
PROPERTIES HalfCooldown ManualCooldown
