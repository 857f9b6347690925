SPECIFICATION Spec
CONSTANTS
    Sun <- MCSun
    FirstDay = 10957
    LastDay = 47481
    Watched <- MCWatched
    TypedDates <- MCDates
    TypedHours = {0, 12, 23}
    Programs <- MCPrograms
    Minutes <- MCMinutes
    DailyStep = 4
    PerHour = 1
    RebootAfter = 4
    MaxUp = 6
    Rest = 2
INVARIANTS TypeOK CalendarRight SummerTime WindowFollowsSun
PROPERTIES SmoothDays RebootsAtNight OneRebootANight RetypeHarmless
