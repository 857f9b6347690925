CONSTANTS
    Tabs = {tab1, tab2}
    Channels = {0, 3}
    ProgramIds = {0, 1, 12}
    Factory <- MCFactory
    Typed <- MCTyped
    Hours <- MCHours
    FirstHour = 670
    WinterDay = 28
    MaxPosts = 2
    MaxEdits = 1
    MaxCuts = 1
SPECIFICATION Spec
SYMMETRY TabsAlike
INVARIANTS TypeOK SavedStays CooldownKnown
PROPERTIES ResubmitHarmless DateFormSetsTime
