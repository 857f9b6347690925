SPECIFICATION FairSpec
CONSTANTS
    Temps <- MCTemps
    NoNumber = NoNumber
    Settings <- MCSettings
    LoopTimes = {1, 2}
    AirInterval = 1
    Minute = 2
    AlarmWait = 1
    BootTime = 1
    SetupTime = 1
    Horizon = 6
    MaxResets = 1
INVARIANTS TypeOK Responsive QuietLedger
PROPERTIES AlarmRested AlarmsAgain
