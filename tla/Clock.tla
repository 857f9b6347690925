--------------------------------- MODULE Clock ---------------------------------
(***************************************************************************)
(* The clock of the controller: the chip that keeps the date while the     *)
(* power is off, the global variable t, which is the wall clock of the last *)
(* time somebody asked, the commands that set date and time, and the       *)
(* restart at midnight, which looks at t and at uptime.                    *)
(*                                                                         *)
(* The unit of time is the hour.  The clock runs in winter time; a pass of *)
(* loop() is main -> timers -> shell -> report -> reboot, and the hour may *)
(* turn between any two of them, at most once in a pass.                   *)
(***************************************************************************)
EXTENDS Calendar

CONSTANTS
    FirstDay, LastDay, \* the days the chip can count, 2000 to 2099
    Watched,           \* the hours in which the controller is watched running
    TypedDates,        \* dates the user sets, [day, month, year]
    TypedHours,        \* hours the user sets
    Programs,          \* SUNRISE programs whose windows are looked at
    Minutes,           \* and the minutes of the day
    DailyStep,         \* what the sun moves in a day, in minutes
    PerHour,           \* passes of check_timers that fit into an hour
    RebootAfter,       \* 10000, the passes before a restart
    MaxUp,             \* MAXUP
    Rest               \* hours for which RebootAfter is enough

(* Days from 1.1.2000 to 31.12.2099; typed dates are of these years, too.   *)
ASSUME DaysAssumption ==
    /\ FirstDay \in Nat /\ LastDay \in Nat /\ Watched \subseteq Nat
    /\ 10957 <= FirstDay /\ FirstDay <= LastDay /\ LastDay <= 47481
(* Where the chip starts again when it has come round.                      *)
ASSUME NewYearAssumption == \E y \in 2000..2099 : FirstDay = MakeTime(1, 1, y)
ASSUME TypedAssumption ==
    /\ TypedHours \subseteq 0..23
    /\ \A date \in TypedDates :
         LET day == MakeTime(date.day, date.month, ShortYear(date.year))
         IN  day \in Nat /\ FirstDay <= day
ASSUME MinutesAssumption == Minutes \subseteq 0..1439
(* In winter time the sun rises after one and sets before eleven, a little  *)
(* earlier or later than on the date before.                                *)
ASSUME SunAssumption ==
    \A m \in 1..12 : \A d \in 1..MonthDays(m, TRUE) :
        /\ Sun[m][d] \in Nat /\ 60 <= Sun[m][d] /\ Sun[m][d] < 1440
        /\ Sun[12 + m][d] \in Nat /\ Sun[12 + m][d] < 1380
Near(a, b) == a - b <= DailyStep /\ b - a <= DailyStep
ASSUME DailyAssumption ==
    /\ DailyStep \in Nat
    /\ \A leap \in BOOLEAN, m \in 1..12 : \A row \in {m, 12 + m} :
         /\ \A d \in 1..MonthDays(m, leap) - 1 : Near(Sun[row][d + 1], Sun[row][d])
         /\ m < 12 => Near(Sun[row + 1][1], Sun[row][MonthDays(m, leap)])
(* What a program adds to the sun in a year does not overflow an int.       *)
ASSUME ProgramAssumption ==
    \A p \in Programs :
        /\ p.type = "SUNRISE"
        /\ p.startdelay \in Nat /\ p.stopdelay \in Nat /\ p.increment \in Nat
        /\ p.sleepday \in 0..31 /\ p.sleepmon \in 0..12
        /\ p.startdelay + p.stopdelay + 365 * p.increment <= 30000
ASSUME PassesAssumption ==
    /\ PerHour \in Nat /\ Rest \in Nat
    /\ RebootAfter \in Nat /\ MaxUp \in Nat
    /\ RebootAfter < MaxUp
ASSUME RestAssumption == \A n \in 0..Rest : 2 + PerHour * n <= RebootAfter

VARIABLES
    pc,       \* where loop() is, "off" without power
    now,      \* the time in hours, in winter time
    t,        \* the global t, in hours
    uptime,   \* uptime
    manual,   \* manual
    passes,   \* effective passes of check_timers in this hour
    turned,   \* has the hour turned in this pass of loop()?
    since     \* history: hours since the last restart at midnight, up to Rest

vars == <<pc, now, t, uptime, manual, passes, turned, since>>

TypeOK ==
    /\ pc \in {"off", "main", "timers", "shell", "report", "reboot"}
    /\ now \in Nat
    /\ t \in Nat
    /\ uptime \in 0..MaxUp
    /\ manual \in BOOLEAN
    /\ passes \in 0..PerHour
    /\ turned \in BOOLEAN
    /\ since \in 0..Rest

Today == now \div 24
IsSummer(hours) == Dst(hours \div 24)

(* gettimeofday                                                             *)
WallClock(hours) == IF IsSummer(hours) THEN hours + 1 ELSE hours
Capped(n, max) == IF n < max THEN n ELSE max

-----------------------------------------------------------------------------
Init ==
    /\ pc = "off"
    /\ now = 24 * FirstDay
    /\ t = 0
    /\ uptime = 0
    /\ manual = FALSE
    /\ passes = 0
    /\ turned = FALSE
    /\ since = Rest

(* The chip counts on its battery; after 2099 it starts again with 2000.    *)
NextDay ==
    /\ pc = "off"
    /\ now' = IF Today = LastDay THEN 24 * FirstDay ELSE 24 * (Today + 1)
    /\ since' = Rest
    /\ UNCHANGED <<pc, t, uptime, manual, passes, turned>>

(* setup(): t is the time of the chip, in automatic mode check_main and     *)
(* setup() call check_timers once each.                                     *)
Setup ==
    /\ pc' = "main"
    /\ t' = IF manual' THEN now' ELSE WallClock(now')
    /\ uptime' = IF manual' THEN 0 ELSE 2
    /\ turned' = FALSE

PowerOn ==
    /\ pc = "off"
    /\ \E h \in 0..23 : now' = now + h /\ now' \in Watched
    /\ manual' \in BOOLEAN
    /\ Setup
    /\ passes' = 0
    /\ UNCHANGED since

(* The power fails for the rest of the day, at least.                       *)
PowerOff ==
    /\ pc # "off" /\ Today < LastDay
    /\ pc' = "off"
    /\ now' = 24 * (Today + 1)
    /\ t' = 0
    /\ uptime' = 0
    /\ passes' = 0
    /\ turned' = FALSE
    /\ since' = Rest
    /\ manual' = FALSE

(* An hour passes, between two passes of loop() or within one. In automatic *)
(* mode some passes of check_timers were effective in it.                   *)
HourTurns ==
    /\ pc # "off" /\ now + 1 \in Watched
    /\ manual \/ passes > 0
    /\ pc = "main" \/ ~turned
    /\ now' = now + 1
    /\ passes' = 0
    /\ turned' = (pc # "main")
    /\ since' = Capped(since + 1, Rest)
    /\ UNCHANGED <<pc, t, uptime, manual>>

(* Fault: uptime is not held at MAXUP.                                      *)
CountedForever ==
    /\ passes < PerHour /\ passes' = passes + 1
    /\ uptime' = uptime + 1
    /\ t' = WallClock(now)

(* Fault: uptime is counted although t is not asked for.                    *)
CountedBlindly ==
    /\ passes < PerHour /\ passes' = passes + 1
    /\ uptime' = Capped(uptime + 1, MaxUp)
    /\ t' = t

(* The effective part of check_timers.                                      *)
Counted ==
    /\ passes < PerHour /\ passes' = passes + 1
    /\ uptime' = Capped(uptime + 1, MaxUp)
    /\ t' = WallClock(now)

(* check_main: when the main switch was moved to automatic, check_timers is *)
(* called at once.                                                          *)
CheckMain ==
    /\ pc = "main"
    /\ pc' = "timers"
    /\ \/ UNCHANGED <<manual, passes, uptime, t>>
       \/ manual' = TRUE /\ UNCHANGED <<passes, uptime, t>>
       \/ manual /\ manual' = FALSE /\ Counted
    /\ UNCHANGED <<now, turned, since>>

(* check_timers, and check_air with it, which asks for the time only when   *)
(* an alarm is configured.                                                  *)
CheckTimers ==
    /\ pc = "timers"
    /\ pc' = "shell"
    /\ \/ ~manual /\ Counted
       \/ UNCHANGED <<passes, uptime, t>>
       \/ t' = WallClock(now) /\ UNCHANGED <<passes, uptime>>
    /\ UNCHANGED <<now, manual, turned, since>>

NoCommand ==
    /\ pc = "shell"
    /\ pc' = "report"
    /\ UNCHANGED <<now, t, uptime, manual, passes, turned, since>>

(* Fault: the time of day is taken from the wall clock.                     *)
SetDateFromWall(date) ==
    /\ pc = "shell"
    /\ pc' = "report"
    /\ now' = 24 * MakeTime(date.day, date.month, ShortYear(date.year))
              + (WallClock(now) % 24)
    /\ t' = now'
    /\ UNCHANGED <<uptime, manual, passes, turned, since>>

(* sh_setdate: the date typed, with the time of the clock.                  *)
SetDate(date) ==
    /\ pc = "shell"
    /\ pc' = "report"
    /\ now' = 24 * MakeTime(date.day, date.month, ShortYear(date.year)) + (now % 24)
    /\ t' = now'
    /\ UNCHANGED <<uptime, manual, passes, turned, since>>

(* sh_settime: the time typed, with the date of the wall clock.             *)
SetTime(h) ==
    /\ pc = "shell"
    /\ pc' = "report"
    /\ now' = 24 * (WallClock(now) \div 24) + h
    /\ t' = now'
    /\ UNCHANGED <<uptime, manual, passes, turned, since>>

(* check_report, when a report is due and the network answers, and the      *)
(* commands of the shell that only display.                                 *)
CheckReport ==
    /\ pc = "report"
    /\ pc' = "reboot"
    /\ t' \in {t, WallClock(now)}
    /\ UNCHANGED <<now, uptime, manual, passes, turned, since>>

(* Fault: the restart looks at the hour only.                               *)
DueAnyUptime == t % 24 = 0

Due == uptime > RebootAfter /\ t % 24 = 0

(* check_reboot, and software_Reset.                                        *)
Reboot ==
    /\ pc = "reboot" /\ Due
    /\ now' = now
    /\ manual' \in BOOLEAN
    /\ Setup
    /\ since' = 0
    /\ UNCHANGED passes

NoReboot ==
    /\ pc = "reboot" /\ ~Due
    /\ pc' = "main"
    /\ turned' = FALSE
    /\ UNCHANGED <<now, t, uptime, manual, passes, since>>

Next ==
    \/ NextDay \/ PowerOn \/ PowerOff \/ HourTurns
    \/ CheckMain \/ CheckTimers
    \/ NoCommand
    \/ \E date \in TypedDates : SetDate(date)
    \/ \E h \in TypedHours : SetTime(h)
    \/ CheckReport \/ Reboot \/ NoReboot

Spec == Init /\ [][Next]_vars

-----------------------------------------------------------------------------
(* Correctness of the conversions, on every day of the chip. They depend on *)
(* the day only, so it is enough to look while the power is off.            *)

(* The calendar is the Gregorian one: the next day has the next date (2000  *)
(* to 2099 has a leap year every four years).                               *)
LastOfMonth(m, y) ==
    IF m \in {4, 6, 9, 11} THEN 30
    ELSE IF m # 2 THEN 31 ELSE IF y \in {4 * k : k \in 500..524} THEN 29 ELSE 28
IsNextDate(new, old) ==
    IF old.day < LastOfMonth(old.month, old.year)
    THEN new.day = old.day + 1 /\ new.month = old.month /\ new.year = old.year
    ELSE /\ new.day = 1
         /\ new.month = (old.month % 12) + 1
         /\ new.year = old.year + IF old.month = 12 THEN 1 ELSE 0

(* Time, chip and sketch agree on that date: breakTime and makeTime are     *)
(* inverse, the chip gives back what it was given, and the sketch's own     *)
(* count of the day of the year is the library's.                           *)
CalendarRight ==
    pc = "off" =>
    LET date == BreakTime(Today)
    IN  /\ Today < LastDay => IsNextDate(BreakTime(Today + 1), date)
        /\ MakeTime(date.day, date.month, date.year) = Today
        /\ FromChip(ToChip(date)) = Today
        /\ DayOfYear(date.day, date.month, date.year)
             = Today - MakeTime(1, 1, date.year) + 1

(* dst is the summer time of the European Union, from the last Sunday of    *)
(* March to that of October, but for the week after a last Sunday that is   *)
(* the 25th (weekday() counts it 1 where dst expects 0).                    *)
LastSunday(m, y) ==
    CHOOSE d \in 25..31 : (MakeTime(d, m, y) + 4) % 7 = 0
LegalSummer(day, y) ==
    MakeTime(LastSunday(3, y), 3, y) <= day /\ day < MakeTime(LastSunday(10, y), 10, y)
SummerTime ==
    pc = "off" =>
    LET date == BreakTime(Today)
    IN  \/ Dst(Today) <=> LegalSummer(Today, date.year)
        \/ date.month \in {3, 10} /\ date.day >= 25 /\ LastSunday(date.month, date.year) = 25

(* Summer time moves the wall clock and the window alike: at any minute of  *)
(* the day operate() says whether the sun, delayed as the program says, is  *)
(* up, on the nights of the change too.                                     *)
SunIsUp(p, minute) ==
    LET date  == BreakTime(Today)
        sleep == SleepMinutes(p, date)
    IN  /\ Sun[date.month][date.day] + p.startdelay + sleep <= minute
        /\ minute <= Sun[12 + date.month][date.day] - p.stopdelay - sleep
WindowFollowsSun ==
    pc = "off" =>
    \A p \in Programs, minute \in Minutes :
        Operate(p, Local(1440 * Today + minute)) <=> SunIsUp(p, minute)

(* From one day to the next the window moves with the sun and by the        *)
(* increment of the winter rest; only the end of the rest, at New Year,     *)
(* moves it at once.                                                        *)
WinterWindow(p, day, side) == Window(p, day)[side] - IF Dst(day) THEN 60 ELSE 0
SmoothDays ==
    [][NextDay /\ BreakTime(Today').month # 1 =>
         \A p \in Programs, side \in {1, 2} :
             WinterWindow(p, Today', side) - WinterWindow(p, Today, side)
               \in -(DailyStep + p.increment)..DailyStep + p.increment]_vars

-----------------------------------------------------------------------------
(* Correctness of the restart and of the commands.                          *)

(* The restart of check_reboot comes at night, whatever t the mode, the     *)
(* network and the user left behind.                                        *)
RebootsAtNight == [][Reboot => WallClock(now) % 24 \in 0..2]_vars

(* And it does not come twice in a night.                                   *)
OneRebootANight == [][Reboot => since = Rest]_vars

(* Who types what the clock shows changes nothing, except in the last hour  *)
(* of a summer day in winter time, when it is moved by a day.               *)
Shows(date) ==
    MakeTime(date.day, date.month, ShortYear(date.year)) = WallClock(now) \div 24
LateInSummer == IsSummer(now) /\ now % 24 = 23
RetypeHarmless ==
    [][/\ SetTime(now % 24) => now' = now + IF LateInSummer THEN 24 ELSE 0
       /\ \A date \in TypedDates :
            SetDate(date) /\ Shows(date)
              => now' = now + IF LateInSummer THEN 24 ELSE 0]_vars
===============================================================================
