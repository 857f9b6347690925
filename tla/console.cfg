SPECIFICATION Spec
CONSTANTS
    Lines <- MCLines
    MaxBytes = 10
    IndexSpan = 16
    SyncIndexes = {0, 3, 13}
    FactorySettings <- MCFactory
    MaxLines = 1
    MaxSyncs = 1
INVARIANTS TypeOK CommandAsTyped LineAsTyped NothingForeign
PROPERTIES ClockObeys
