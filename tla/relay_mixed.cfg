SPECIFICATION Spec
CONSTANTS
    Channels = {c1, c6}
    Switched = {c1}
    Programs <- MCFewPrograms
    FactoryProgram <- MCFactory
    Edits <- MCFewEdits
    MainPositions <- BothPositions
    MainMoves = TRUE
    LoopTimes = {2}
    TimerInterval = 1
    BootTime = 1
    SetupTime = 0
    Horizon = 3
    MaxResets = 1
    c1 = c1
    c6 = c6
INVARIANTS ManualObeysSwitch ManualLedShowsSwitch AutoRemembered
PROPERTIES TimersObeyWindow
