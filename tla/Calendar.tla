------------------------------- MODULE Calendar -------------------------------
(***************************************************************************)
(* Dates and operating windows: the conversions of the libraries Time and  *)
(* DS1307RTC, and what the sketch computes from a date: summer time, the   *)
(* day of the year, sunrise and sunset, the winter rest of a program and   *)
(* the answer of operate().                                                *)
(*                                                                         *)
(* A day is the number of days since 1.1.1970, a minute the number of      *)
(* minutes since then, both in winter time, which the clock runs in.       *)
(***************************************************************************)
EXTENDS Integers, FiniteSets

CONSTANTS
    Sun       \* the table of Sunrise.h: rows 1..12 sunrise, 13..24 sunset

Years == 1970..2105

(* Fault: 2000 is no leap year.                                             *)
LeapYearSimple(y) == y % 4 = 0 /\ y % 100 # 0

LeapYear(y) == y % 4 = 0 /\ (y % 100 # 0 \/ y % 400 = 0)

MonthDays(m, leap) ==
    IF m = 2 THEN IF leap THEN 29 ELSE 28
    ELSE IF m \in {4, 6, 9, 11} THEN 30 ELSE 31

(* The days before a year, and before a month of it, as makeTime counts.     *)
YearStart == [y \in Years \union {2106} |->
    365 * (y - 1970) + Cardinality({n \in 1970..y - 1 : LeapYear(n)})]

(* The loop of makeTime over the months.                                    *)
DaysBefore(leap) ==
    LET before[m \in 1..13] == IF m = 1 THEN 0 ELSE before[m - 1] + MonthDays(m - 1, leap)
    IN  before
MonthStart == [leap \in BOOLEAN |-> [m \in 1..13 |-> DaysBefore(leap)[m]]]

(* makeTime, without the time of day: a day past the end of its month runs  *)
(* into the next one.                                                       *)
MakeTime(d, m, y) == YearStart[y] + MonthStart[LeapYear(y)][m] + d - 1

YearsAround(day) == 1970 + day \div 366 .. 1970 + day \div 365

(* breakTime: Sunday is day 1.                                              *)
BreakTime(day) ==
    LET y == CHOOSE n \in YearsAround(day) : YearStart[n] <= day /\ day < YearStart[n + 1]
        rest == day - YearStart[y]
        m == CHOOSE n \in 1..12 : /\ MonthStart[LeapYear(y)][n] <= rest
                                  /\ rest < MonthStart[LeapYear(y)][n + 1]
    IN  [year |-> y, month |-> m, day |-> rest - MonthStart[LeapYear(y)][m] + 1,
         wday |-> ((day + 4) % 7) + 1]

(* setTime(hr, ...) keeps the year in a byte, as years since 1970.          *)
ShortYear(y) == 1970 + ((y - 1970) % 256)

(* The clock chip: binary coded decimals, the year without its century.     *)
Dec2Bcd(n) == (n \div 10) * 16 + (n % 10)
Bcd2Dec(n) == (n \div 16) * 10 + (n % 16)
ToChip(date) == <<Dec2Bcd(date.day), Dec2Bcd(date.month), Dec2Bcd(date.year - 2000)>>
FromChip(regs) ==
    MakeTime(Bcd2Dec(regs[1]), Bcd2Dec(regs[2]), 2000 + Bcd2Dec(regs[3]))

(* Fault: Sunday is counted as 7.                                           *)
DstMonday(day) ==
    LET date == BreakTime(day)
        past == date.day - ((date.wday + 5) % 7) - 1 >= 25
    IN  /\ date.month \in 3..10
        /\ date.month = 3 => past
        /\ date.month = 10 => ~past

(* dst: the hour never counts, because weekday() is never 0.                *)
Dst(day) ==
    LET date == BreakTime(day)
        past == date.day - date.wday >= 25
    IN  /\ date.month \in 3..10
        /\ date.month = 3 => past
        /\ date.month = 10 => ~past

(* isleafyear takes the year in a byte.                                     *)
LeafYear(y) == LeapYear(y % 256)

(* Fault: months of thirty days.                                            *)
DayOfYearRough(d, m, y) == 30 * (m - 1) + d

(* getdayofyear                                                             *)
DayOfYear(d, m, y) == d + MonthStart[LeafYear(y)][m]

-----------------------------------------------------------------------------
(* An int has 16 bits.                                                      *)
Int16(n) == ((n + 32768) % 65536) - 32768

(* Programs: [type, start, stop, startdelay, stopdelay, sleepday, sleepmon, *)
(* increment], times of a STATIC program as minutes of the day.             *)

(* elapsed_sleep_days: minutes added to both delays in the winter rest.     *)
SleepMinutes(p, date) ==
    LET current == DayOfYear(date.day, date.month, date.year)
        begin   == DayOfYear(p.sleepday, p.sleepmon, date.year)
    IN  IF p.sleepday > 0 /\ p.sleepmon > 0 /\ current >= begin
        THEN Int16((current - begin) * p.increment)
        ELSE 0

(* gettimeofday: the wall clock, as minutes.                                *)
Local(minutes) == IF Dst(minutes \div 1440) THEN minutes + 60 ELSE minutes

(* Fault: the table is winter time, and stays so.                           *)
SunAtWinter(row, day) ==
    LET date == BreakTime(day) IN Sun[row + date.month][date.day]

(* getsunrise (row 0) and getsunset (row 12).                               *)
SunAt(row, day) ==
    LET date == BreakTime(day)
    IN  Sun[row + date.month][date.day] + IF Dst(day) THEN 60 ELSE 0

(* The window of a program on the day of t, in minutes of that day.         *)
Window(p, day) ==
    LET sleep == SleepMinutes(p, BreakTime(day))
    IN  IF p.type = "STATIC" THEN <<p.start, p.stop>>
        ELSE <<Int16(SunAt(0, day) + p.startdelay + sleep),
               Int16(SunAt(12, day) - p.stopdelay - sleep)>>

(* operate(channel, t), t from gettimeofday()                               *)
Operate(p, t) ==
    LET window == Window(p, t \div 1440)
    IN  window[1] <= t % 1440 /\ t % 1440 <= window[2]
===============================================================================
