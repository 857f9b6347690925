------------------------------ MODULE ClockProofs ------------------------------
(* What is proved of the clock, for all dates, hours and rates.              *)
EXTENDS Clock, FiniteSetTheorems, WellFoundedInduction, TLAPS

LEMMA WallClockNat ==
    ASSUME NEW h \in Nat
    PROVE  WallClock(h) \in Nat /\ WallClock(h) \in {h, h + 1}
BY DEF WallClock

LEMMA CappedType ==
    ASSUME NEW max \in Nat, NEW n \in Nat
    PROVE  Capped(n, max) \in 0..max /\ Capped(n, max) <= n
BY DEF Capped

LEMMA CountedType ==
    ASSUME TypeOK, Counted
    PROVE  /\ t' = WallClock(now) /\ t' \in Nat
           /\ uptime' \in 0..MaxUp /\ uptime' <= uptime + 1
           /\ passes' = passes + 1 /\ passes' \in 0..PerHour
BY WallClockNat, CappedType, PassesAssumption DEF TypeOK, Counted

LEMMA SetupType ==
    ASSUME now' \in Nat, manual' \in BOOLEAN, Setup
    PROVE  /\ t' \in Nat /\ uptime' \in {0, 2} /\ pc' = "main" /\ turned' = FALSE
BY WallClockNat DEF Setup, WallClock

LEMMA EnoughForTwo == 2 <= RebootAfter /\ {0, 2} \subseteq 0..MaxUp
<1>1. 2 + PerHour * 0 <= RebootAfter
  BY RestAssumption, PassesAssumption
<1>. QED  BY <1>1, PassesAssumption

(* The clock, t and the counter of passes stay in their types: a date typed *)
(* is a time of the clock, and uptime stops at MAXUP.                       *)
THEOREM TypeCorrect == Spec => []TypeOK
<1>1. Init => TypeOK
  <2>. SUFFICES ASSUME Init PROVE TypeOK
    OBVIOUS
  <2>1. /\ now \in Nat /\ t \in Nat /\ passes \in 0..PerHour
        /\ uptime \in 0..MaxUp /\ since \in 0..Rest
    BY DaysAssumption, PassesAssumption DEF Init
  <2>. QED  BY <2>1 DEF Init, TypeOK
<1>2. TypeOK /\ [Next]_vars => TypeOK'
  <2>. SUFFICES ASSUME TypeOK, [Next]_vars PROVE TypeOK'
    OBVIOUS
  <2>. USE DEF TypeOK
  <2>1. CASE NextDay
    <3>1. now' \in Nat
      BY <2>1, DaysAssumption DEF NextDay, Today
    <3>. QED  BY <2>1, <3>1, PassesAssumption DEF NextDay
  <2>2. CASE PowerOn
    <3>1. now' \in Nat /\ manual' \in BOOLEAN /\ Setup
      BY <2>2, DaysAssumption DEF PowerOn
    <3>. QED  BY <2>2, <3>1, SetupType, EnoughForTwo, PassesAssumption DEF PowerOn
  <2>3. CASE PowerOff
    <3>1. now' \in Nat
      BY <2>3 DEF PowerOff, Today
    <3>2. passes' \in 0..PerHour /\ uptime' \in 0..MaxUp /\ since' \in 0..Rest /\ t' \in Nat
      BY <2>3, PassesAssumption DEF PowerOff
    <3>. QED  BY <2>3, <3>1, <3>2 DEF PowerOff
  <2>4. CASE HourTurns
    <3>1. since' \in 0..Rest
      BY <2>4, CappedType, PassesAssumption DEF HourTurns
    <3>. QED  BY <2>4, <3>1, PassesAssumption DEF HourTurns
  <2>5. CASE CheckMain
    <3>1. CASE Counted
      BY <2>5, <3>1, CountedType DEF CheckMain
    <3>2. CASE ~Counted
      BY <2>5, <3>2 DEF CheckMain
    <3>. QED  BY <3>1, <3>2
  <2>6. CASE CheckTimers
    <3>1. CASE Counted
      BY <2>6, <3>1, CountedType DEF CheckTimers
    <3>2. CASE ~Counted
      BY <2>6, <3>2, WallClockNat DEF CheckTimers
    <3>. QED  BY <3>1, <3>2
  <2>7. CASE NoCommand
    BY <2>7 DEF NoCommand
  <2>8. ASSUME NEW date \in TypedDates, SetDate(date) PROVE TypeOK'
    <3>1. now' \in Nat
      BY <2>8, TypedAssumption DEF SetDate
    <3>. QED  BY <2>8, <3>1 DEF SetDate
  <2>9. ASSUME NEW h \in TypedHours, SetTime(h) PROVE TypeOK'
    <3>1. WallClock(now) \div 24 \in Nat
      <4>. DEFINE w == WallClock(now)
      <4>1. w \in Nat
        BY WallClockNat
      <4>. HIDE DEF w
      <4>2. w \div 24 \in Nat
        BY <4>1
      <4>. QED  BY <4>2 DEF w
    <3>2. now' \in Nat
      BY <2>9, <3>1, TypedAssumption DEF SetTime
    <3>. QED  BY <2>9, <3>2 DEF SetTime
  <2>10. CASE CheckReport
    BY <2>10, WallClockNat DEF CheckReport
  <2>11. CASE Reboot
    <3>1. now' \in Nat /\ manual' \in BOOLEAN /\ Setup
      BY <2>11 DEF Reboot
    <3>. QED  BY <2>11, <3>1, SetupType, EnoughForTwo, PassesAssumption DEF Reboot
  <2>12. CASE NoReboot
    BY <2>12 DEF NoReboot
  <2>13. CASE UNCHANGED vars
    BY <2>13 DEF vars
  <2>. QED
    BY <2>1, <2>2, <2>3, <2>4, <2>5, <2>6, <2>7, <2>8, <2>9, <2>10, <2>11, <2>12,
       <2>13 DEF Next
<1>. QED  BY <1>1, <1>2, PTL DEF Spec

-----------------------------------------------------------------------------
(* At the end of a pass in which a restart may be due, t was read in this   *)
(* pass, and the hour turned at most once since.                            *)
Midnight == uptime > RebootAfter /\ t % 24 = 0
ReadInThisPass ==
    /\ pc \in {"timers", "shell", "report", "reboot"} /\ Midnight
         => t \in {now, WallClock(now)} \/ (turned /\ t = now - 1)
    /\ pc \in {"off", "main"} => ~Midnight

LEMMA NotAfterSetup ==
    ASSUME Setup, now' \in Nat, manual' \in BOOLEAN
    PROVE  ReadInThisPass'
BY SetupType, EnoughForTwo, PassesAssumption DEF ReadInThisPass, Midnight

LEMMA ReadInThisPassKept ==
    ASSUME TypeOK, ReadInThisPass, [Next]_vars
    PROVE  ReadInThisPass'
<1>. USE DEF TypeOK
<1>1. CASE NextDay
  BY <1>1 DEF NextDay, ReadInThisPass, Midnight
<1>2. CASE PowerOn
  <2>1. now' \in Nat /\ manual' \in BOOLEAN /\ Setup
    BY <1>2, DaysAssumption DEF PowerOn
  <2>. QED  BY <2>1, NotAfterSetup
<1>3. CASE PowerOff
  BY <1>3, PassesAssumption DEF PowerOff, ReadInThisPass, Midnight
<1>4. CASE HourTurns
  <2>1. CASE pc = "main"
    BY <1>4, <2>1 DEF HourTurns, ReadInThisPass, Midnight
  <2>2. CASE pc # "main"
    <3>1. /\ pc' = pc /\ pc \in {"timers", "shell", "report", "reboot"}
          /\ now' = now + 1 /\ ~turned /\ turned' /\ UNCHANGED <<t, uptime>>
      BY <1>4, <2>2 DEF HourTurns
    <3>2. Midnight' <=> Midnight
      BY <3>1 DEF Midnight
    <3>3. Midnight => t \in {now, now + 1}
      BY <3>1, WallClockNat DEF ReadInThisPass
    <3>4. Midnight => t \in {now' - 1, now'}
      BY <3>1, <3>3
    <3>. QED  BY <3>1, <3>2, <3>4 DEF ReadInThisPass
  <2>. QED  BY <2>1, <2>2
<1>5. CASE CheckMain
  <2>1. CASE Counted
    <3>1. pc' = "timers" /\ now' = now /\ t' = WallClock(now)
      BY <1>5, <2>1, CountedType DEF CheckMain
    <3>2. t' = WallClock(now)'
      BY <3>1 DEF WallClock, IsSummer
    <3>. QED  BY <3>1, <3>2 DEF ReadInThisPass
  <2>2. CASE ~Counted
    BY <1>5, <2>2 DEF CheckMain, ReadInThisPass, Midnight
  <2>. QED  BY <2>1, <2>2
<1>6. CASE CheckTimers
  <2>0. pc = "timers" /\ pc' = "shell" /\ now' = now /\ turned' = turned
    BY <1>6 DEF CheckTimers
  <2>1. CASE t' = WallClock(now)
    <3>1. t' = WallClock(now)'
      BY <2>0, <2>1 DEF WallClock, IsSummer
    <3>. QED  BY <2>0, <3>1 DEF ReadInThisPass
  <2>2. CASE t' # WallClock(now)
    <3>1. UNCHANGED <<uptime, t, now>>
      BY <1>6, <2>2 DEF CheckTimers, Counted
    <3>2. WallClock(now)' = WallClock(now)
      BY <3>1 DEF WallClock, IsSummer
    <3>. QED  BY <2>0, <3>1, <3>2 DEF ReadInThisPass, Midnight
  <2>. QED  BY <2>1, <2>2
<1>7. CASE NoCommand
  <2>1. WallClock(now)' = WallClock(now)
    BY <1>7 DEF NoCommand, WallClock, IsSummer
  <2>. QED  BY <1>7, <2>1 DEF NoCommand, ReadInThisPass, Midnight
<1>8. ASSUME NEW date \in TypedDates, SetDate(date) PROVE ReadInThisPass'
  BY <1>8 DEF SetDate, ReadInThisPass
<1>9. ASSUME NEW h \in TypedHours, SetTime(h) PROVE ReadInThisPass'
  BY <1>9 DEF SetTime, ReadInThisPass
<1>10. CASE CheckReport
  <2>1. WallClock(now)' = WallClock(now)
    BY <1>10 DEF CheckReport, WallClock, IsSummer
  <2>. QED  BY <1>10, <2>1 DEF CheckReport, ReadInThisPass, Midnight
<1>11. CASE Reboot
  <2>1. now' \in Nat /\ manual' \in BOOLEAN /\ Setup
    BY <1>11 DEF Reboot
  <2>. QED  BY <2>1, NotAfterSetup
<1>12. CASE NoReboot
  BY <1>12 DEF NoReboot, Due, ReadInThisPass, Midnight
<1>13. CASE UNCHANGED vars
  <2>1. WallClock(now)' = WallClock(now)
    BY <1>13 DEF vars, WallClock, IsSummer
  <2>. QED  BY <1>13, <2>1 DEF vars, ReadInThisPass, Midnight
<1>. QED
  BY <1>1, <1>2, <1>3, <1>4, <1>5, <1>6, <1>7, <1>8, <1>9, <1>10, <1>11, <1>12,
     <1>13 DEF Next

(* The restart comes between midnight and three: t is midnight and was read *)
(* in the pass of the restart, in whatever mode and by whomever.            *)
THEOREM RebootsAtNightCorrect == Spec => RebootsAtNight
<1>1. Init => ReadInThisPass
  BY PassesAssumption DEF Init, ReadInThisPass, Midnight
<1>2. TypeOK /\ ReadInThisPass /\ [Next]_vars => ReadInThisPass'
  BY ReadInThisPassKept
<1>3. TypeOK /\ ReadInThisPass /\ [Next]_vars
        => [Reboot => WallClock(now) % 24 \in 0..2]_vars
  <2>. SUFFICES ASSUME TypeOK, ReadInThisPass, Reboot
                PROVE  WallClock(now) % 24 \in 0..2
    OBVIOUS
  <2>1. t % 24 = 0 /\ t \in Nat /\ now \in Nat
    BY DEF Reboot, Due, TypeOK
  <2>2. t \in {now, WallClock(now)} \/ t = now - 1
    BY DEF Reboot, Due, ReadInThisPass, Midnight
  <2>3. WallClock(now) \in {t, t + 1, t + 2}
    BY <2>1, <2>2, WallClockNat
  <2>. QED  BY <2>1, <2>3
<1>. QED  BY <1>1, <1>2, <1>3, TypeCorrect, PTL DEF Spec, RebootsAtNight

-----------------------------------------------------------------------------
(* After a restart, uptime is no more than the passes there was time for.   *)
Budget(hours, more) == 2 + PerHour * hours + more
Counting == since < Rest => uptime <= Budget(since, passes)

LEMMA BudgetGrows ==
    ASSUME NEW n \in Nat, NEW k \in 0..PerHour
    PROVE  /\ Budget(n, k) \in Int
           /\ Budget(n, k) <= Budget(n + 1, 0)
           /\ Budget(n, k + 1) = Budget(n, k) + 1
           /\ 2 <= Budget(n, k)
<1>. DEFINE P == PerHour * n
<1>1. P \in Nat
  BY PassesAssumption
<1>2. PerHour * (n + 1) = P + PerHour
  BY PassesAssumption
<1>3. PerHour \in Nat
  BY PassesAssumption
<1>4. /\ Budget(n, k) = 2 + P + k /\ Budget(n, k + 1) = 2 + P + (k + 1)
      /\ Budget(n + 1, 0) = 2 + (P + PerHour) + 0
  BY <1>2 DEF Budget
<1>. HIDE DEF P
<1>. QED  BY <1>1, <1>3, <1>4

LEMMA BudgetEnough ==
    ASSUME NEW n \in Nat, n < Rest, NEW k \in 0..PerHour
    PROVE  Budget(n, k) <= RebootAfter
<1>1. Budget(n, k) <= Budget(n + 1, 0) /\ Budget(n, k) \in Int
  BY BudgetGrows
<1>2. n + 1 \in 0..Rest
  BY PassesAssumption
<1>3. Budget(n + 1, 0) = 2 + PerHour * (n + 1) /\ Budget(n + 1, 0) \in Int
  BY PassesAssumption DEF Budget
<1>4. 2 + PerHour * (n + 1) <= RebootAfter
  BY <1>2, RestAssumption
<1>. QED  BY <1>1, <1>3, <1>4, PassesAssumption

LEMMA CountingKept ==
    ASSUME TypeOK, Counting, [Next]_vars
    PROVE  Counting'
<1>. USE DEF TypeOK
<1>0. \A n \in Nat, k \in 0..PerHour : 2 <= Budget(n, k) /\ Budget(n, k) \in Int
  BY BudgetGrows
<1>1. ASSUME Setup, now' \in Nat, manual' \in BOOLEAN, since' \in Nat,
             passes' \in 0..PerHour
      PROVE  Counting'
  BY <1>0, <1>1, SetupType DEF Counting, Budget
<1>2. ASSUME Counted, UNCHANGED since PROVE Counting'
  <2>1. uptime' \in Nat /\ uptime' <= uptime + 1 /\ passes' = passes + 1
    BY <1>2, CountedType
  <2>2. Budget(since, passes + 1) = Budget(since, passes) + 1
    BY BudgetGrows
  <2>3. Budget(since, passes) \in Int
    BY <1>0
  <2>4. Budget(since, passes)' = Budget(since, passes) + 1
    BY <1>2, <2>1, <2>2 DEF Budget
  <2>. QED  BY <1>2, <2>1, <2>3, <2>4 DEF Counting
<1>3. ASSUME UNCHANGED <<uptime, passes, since>> PROVE Counting'
  BY <1>3 DEF Counting, Budget
<1>4. CASE NextDay
  BY <1>4, PassesAssumption DEF NextDay, Counting
<1>5. CASE PowerOn
  <2>1. now' \in Nat /\ manual' \in BOOLEAN /\ Setup
    BY <1>5, DaysAssumption DEF PowerOn
  <2>. QED  BY <1>1, <1>5, <2>1, PassesAssumption DEF PowerOn
<1>6. CASE PowerOff
  BY <1>6, PassesAssumption DEF PowerOff, Counting
<1>7. CASE HourTurns
  <2>1. CASE since + 1 < Rest
    <3>1. since' = since + 1 /\ passes' = 0 /\ uptime' = uptime
      BY <1>7, <2>1 DEF HourTurns, Capped
    <3>2. /\ Budget(since, passes) <= Budget(since + 1, 0)
          /\ Budget(since, passes) \in Int
      BY BudgetGrows
    <3>3. Budget(since + 1, 0) \in Int
      BY <1>0, PassesAssumption
    <3>4. Budget(since, passes)' = Budget(since + 1, 0)
      BY <3>1 DEF Budget
    <3>. QED  BY <2>1, <3>1, <3>2, <3>3, <3>4, PassesAssumption DEF Counting
  <2>2. CASE ~(since + 1 < Rest)
    BY <1>7, <2>2, PassesAssumption DEF HourTurns, Capped, Counting
  <2>. QED  BY <2>1, <2>2
<1>8. CASE CheckMain
  BY <1>2, <1>3, <1>8 DEF CheckMain
<1>9. CASE CheckTimers
  BY <1>2, <1>3, <1>9 DEF CheckTimers
<1>10. CASE NoCommand
  BY <1>3, <1>10 DEF NoCommand
<1>11. ASSUME NEW date \in TypedDates, SetDate(date) PROVE Counting'
  BY <1>3, <1>11 DEF SetDate
<1>12. ASSUME NEW h \in TypedHours, SetTime(h) PROVE Counting'
  BY <1>3, <1>12 DEF SetTime
<1>13. CASE CheckReport
  BY <1>3, <1>13 DEF CheckReport
<1>14. CASE Reboot
  BY <1>1, <1>14 DEF Reboot
<1>15. CASE NoReboot
  BY <1>3, <1>15 DEF NoReboot
<1>16. CASE UNCHANGED vars
  BY <1>3, <1>16 DEF vars
<1>. QED
  BY <1>4, <1>5, <1>6, <1>7, <1>8, <1>9, <1>10, <1>11, <1>12, <1>13, <1>14, <1>15,
     <1>16 DEF Next

(* No two restarts in the same night: until the rest is over, uptime has    *)
(* not counted enough passes for another one.                               *)
THEOREM OneRebootANightCorrect == Spec => OneRebootANight
<1>1. Init => Counting
  BY PassesAssumption DEF Init, Counting
<1>2. TypeOK /\ Counting /\ [Next]_vars => Counting'
  BY CountingKept
<1>3. TypeOK /\ Counting /\ [Next]_vars => [Reboot => since = Rest]_vars
  <2>. SUFFICES ASSUME TypeOK, Counting, Reboot, since # Rest PROVE FALSE
    OBVIOUS
  <2>1. since \in Nat /\ since < Rest /\ passes \in 0..PerHour /\ uptime \in Nat
    BY PassesAssumption DEF TypeOK
  <2>2. Budget(since, passes) <= RebootAfter /\ Budget(since, passes) \in Int
    BY <2>1, BudgetEnough, BudgetGrows
  <2>3. uptime <= Budget(since, passes)
    BY <2>1 DEF Counting
  <2>4. uptime > RebootAfter
    BY DEF Reboot, Due
  <2>. QED  BY <2>1, <2>2, <2>3, <2>4, PassesAssumption
<1>. QED  BY <1>1, <1>2, <1>3, TypeCorrect, PTL DEF Spec, OneRebootANight

-----------------------------------------------------------------------------
LEMMA SameDay ==
    ASSUME NEW h \in Nat
    PROVE  24 * (WallClock(h) \div 24) + (h % 24)
             = h + IF IsSummer(h) /\ h % 24 = 23 THEN 24 ELSE 0
<1>1. 24 * (h \div 24) + (h % 24) = h
  OBVIOUS
<1>2. CASE ~IsSummer(h)
  BY <1>1, <1>2 DEF WallClock
<1>3. CASE IsSummer(h) /\ h % 24 # 23
  <2>1. (h + 1) \div 24 = h \div 24
    BY <1>3
  <2>. QED  BY <1>1, <1>3, <2>1 DEF WallClock
<1>4. CASE IsSummer(h) /\ h % 24 = 23
  <2>1. (h + 1) \div 24 = (h \div 24) + 1
    BY <1>4
  <2>. QED  BY <1>1, <1>4, <2>1 DEF WallClock
<1>. QED  BY <1>2, <1>3, <1>4

(* Typing the time or the date the clock shows keeps it, except in the last *)
(* hour of a summer day.                                                    *)
THEOREM RetypeHarmlessCorrect == Spec => RetypeHarmless
<1>. DEFINE Kept == now' = now + IF LateInSummer THEN 24 ELSE 0
<1>1. ASSUME TypeOK, SetTime(now % 24) PROVE Kept
  BY <1>1, SameDay DEF SetTime, LateInSummer, TypeOK
<1>2. ASSUME TypeOK, NEW date \in TypedDates, SetDate(date), Shows(date) PROVE Kept
  BY <1>2, SameDay DEF SetDate, Shows, LateInSummer, TypeOK
<1>3. TypeOK /\ [Next]_vars
        => [/\ SetTime(now % 24) => Kept
            /\ \A date \in TypedDates : SetDate(date) /\ Shows(date) => Kept]_vars
  BY <1>1, <1>2
<1>. QED  BY <1>3, TypeCorrect, PTL DEF Spec, RetypeHarmless

-----------------------------------------------------------------------------
(* The conversions of the calendar, on every day of the chip.               *)

(* What makeTime counts: the days before a month in a year whose February   *)
(* has f days, and the days before a year.                                  *)
Feb(y) == IF LeapYear(y) THEN 29 ELSE 28
ByteFeb(y) == Feb(y % 256) \* as isleafyear counts
Table(f, m) ==
    CASE m = 1 -> 0 [] m = 2 -> 31 [] m = 3 -> 31 + f [] m = 4 -> 62 + f [] m = 5 -> 92 + f
      [] m = 6 -> 123 + f [] m = 7 -> 153 + f [] m = 8 -> 184 + f [] m = 9 -> 215 + f
      [] m = 10 -> 245 + f [] m = 11 -> 276 + f [] m = 12 -> 306 + f [] m = 13 -> 337 + f
Length(f, m) == IF m = 2 THEN f ELSE IF m \in {4, 6, 9, 11} THEN 30 ELSE 31
DaysUntil(y) == 365 * (y - 1970) + ((y - 1969) \div 4) - (IF y > 2100 THEN 1 ELSE 0)

LEMMA TableSums ==
    ASSUME NEW f \in 28..29, NEW m \in 1..12
    PROVE  Table(f, 1) = 0 /\ Table(f, m + 1) = Table(f, m) + Length(f, m)
           /\ Table(f, m) \in Nat
BY DEF Table, Length

LEMMA DaysBeforeUnfolds ==
    ASSUME NEW leap \in BOOLEAN, NEW f \in 28..29, f = IF leap THEN 29 ELSE 28
    PROVE  \A m \in 1..13 : DaysBefore(leap)[m] = Table(f, m)
<1>. DEFINE w == [m \in 1..13 |-> Table(f, m)]
            before == DaysBefore(leap)
<1>1. \A m \in 2..13 : Table(f, m) = Table(f, m - 1) + MonthDays(m - 1, leap)
  BY DEF Table, MonthDays
<1>2. w = [m \in 1..13 |-> IF m = 1 THEN 0 ELSE w[m - 1] + MonthDays(m - 1, leap)]
  <2>1. \A m \in 2..13 : w[m - 1] = Table(f, m - 1)
    OBVIOUS
  <2>2. Table(f, 1) = 0
    BY DEF Table
  <2>. QED
    BY <1>1, <2>1, <2>2
<1>. HIDE DEF w
<1>3. before = [m \in 1..13 |-> IF m = 1 THEN 0 ELSE before[m - 1] + MonthDays(m - 1, leap)]
  BY <1>2 DEF DaysBefore
<1>. HIDE DEF before
<1>4. \A m \in 1..13 :
        before[m] = IF m = 1 THEN 0 ELSE before[m - 1] + MonthDays(m - 1, leap)
  BY <1>3
<1>. DEFINE Right(m) == before[m] = Table(f, m)
<1>5. Right(1)
  BY <1>4 DEF Table
<1>6. ASSUME NEW m \in 2..13, Right(m - 1) PROVE Right(m)
  BY <1>1, <1>4, <1>6
<1>. HIDE DEF Right
<1>7. Right(2) BY <1>5, <1>6
<1>8. Right(3) BY <1>7, <1>6
<1>9. Right(4) BY <1>8, <1>6
<1>10. Right(5) BY <1>9, <1>6
<1>11. Right(6) BY <1>10, <1>6
<1>12. Right(7) BY <1>11, <1>6
<1>13. Right(8) BY <1>12, <1>6
<1>14. Right(9) BY <1>13, <1>6
<1>15. Right(10) BY <1>14, <1>6
<1>16. Right(11) BY <1>15, <1>6
<1>17. Right(12) BY <1>16, <1>6
<1>18. Right(13) BY <1>17, <1>6
<1>19. \A m \in 1..13 : Right(m)
  BY <1>5, <1>7, <1>8, <1>9, <1>10, <1>11, <1>12, <1>13, <1>14, <1>15, <1>16, <1>17,
     <1>18
<1>. QED
  BY <1>19 DEF Right, before

LEMMA LeapOrNot == \A y : LeapYear(y) \in BOOLEAN
BY DEF LeapYear

LEMMA MonthStarts ==
    ASSUME NEW y
    PROVE  Feb(y) \in 28..29 /\ \A m \in 1..13 : MonthStart[LeapYear(y)][m] = Table(Feb(y), m)
<1>1. PICK leap \in BOOLEAN : leap = LeapYear(y)
  BY LeapOrNot
<1>2. Feb(y) = (IF leap THEN 29 ELSE 28) /\ Feb(y) \in 28..29
  BY <1>1 DEF Feb
<1>3. \A m \in 1..13 : DaysBefore(leap)[m] = Table(Feb(y), m)
  BY <1>2, DaysBeforeUnfolds
<1>4. MonthStart[leap] = [m \in 1..13 |-> DaysBefore(leap)[m]]
  BY DEF MonthStart
<1>. QED
  BY <1>1, <1>2, <1>3, <1>4

LEMMA LeapYears ==
    ASSUME NEW y \in Years
    PROVE  LeapYear(y) <=> y % 4 = 0 /\ y # 2100
<1>1. y \in 1970..2105
  BY DEF Years
<1>2. y % 100 = 0 <=> y \in {2000, 2100}
  BY <1>1
<1>. QED
  BY <1>1, <1>2 DEF LeapYear

LEMMA NextYear ==
    ASSUME NEW y \in Years
    PROVE  /\ YearStart[y] \in Int
           /\ YearStart[y + 1] = YearStart[y] + 337 + Feb(y)
<1>. DEFINE Leaps(n) == {k \in 1970..n - 1 : LeapYear(k)}
<1>0. y \in 1970..2105 /\ y + 1 \in Years \union {2106} /\ y \in Years \union {2106}
  BY DEF Years
<1>1. /\ YearStart[y] = 365 * (y - 1970) + Cardinality(Leaps(y))
      /\ YearStart[y + 1] = 365 * ((y + 1) - 1970) + Cardinality(Leaps(y + 1))
  BY <1>0 DEF YearStart
<1>2. IsFiniteSet(Leaps(y)) /\ Cardinality(Leaps(y)) \in Nat
  <2>1. IsFiniteSet(1970..y - 1)
    BY <1>0, FS_Interval
  <2>2. Leaps(y) \in SUBSET (1970..y - 1)
    OBVIOUS
  <2>. HIDE DEF Leaps
  <2>3. PICK S : S = 1970..y - 1
    OBVIOUS
  <2>4. IsFiniteSet(S) /\ Leaps(y) \in SUBSET S
    BY <2>1, <2>2, <2>3
  <2>5. IsFiniteSet(Leaps(y))
    BY <2>4, FS_Subset
  <2>. QED
    BY <2>5, FS_CardinalityType
<1>3. CASE LeapYear(y)
  <2>1. Leaps(y + 1) = Leaps(y) \union {y} /\ y \notin Leaps(y)
    BY <1>0, <1>3
  <2>2. Cardinality(Leaps(y + 1)) = Cardinality(Leaps(y)) + 1
    <3>. HIDE DEF Leaps
    <3>. QED BY <1>2, <2>1, FS_AddElement
  <2>3. Feb(y) = 29
    BY <1>3 DEF Feb
  <2>. HIDE DEF Leaps
  <2>. QED
    BY <1>0, <1>1, <1>2, <2>2, <2>3
<1>4. CASE ~LeapYear(y)
  <2>1. Leaps(y + 1) = Leaps(y)
    BY <1>0, <1>4
  <2>2. Feb(y) = 28
    BY <1>4 DEF Feb
  <2>. HIDE DEF Leaps
  <2>. QED
    BY <1>0, <1>1, <1>2, <2>1, <2>2
<1>. QED
  BY <1>3, <1>4

(* The days before a year, in closed form: no year is the first to differ.  *)
LEMMA YearStarts ==
    \A y \in 1970..2106 : YearStart[y] = DaysUntil(y)
<1>. DEFINE Wrong == {y \in Nat : y \in 1970..2106 /\ YearStart[y] # DaysUntil(y)}
<1>. SUFFICES ASSUME Wrong # {} PROVE FALSE
  OBVIOUS
<1>1. PICK y \in Wrong : \A x \in Wrong : ~(<<x, y>> \in OpToRel(<, Nat))
  <2>1. Wrong \subseteq Nat
    OBVIOUS
  <2>. HIDE DEF Wrong
  <2>. QED BY <2>1, NatLessThanWellFounded, WFMin
<1>2. \A x \in Wrong : ~(x < y)
  <2>1. y \in Nat /\ Wrong \subseteq Nat
    OBVIOUS
  <2>. HIDE DEF Wrong
  <2>2. \A x \in Nat : x < y => <<x, y>> \in OpToRel(<, Nat)
    BY <2>1 DEF OpToRel
  <2>. QED
    BY <1>1, <2>1, <2>2
<1>3. y # 1970
  <2>. DEFINE Leaps(n) == Cardinality({k \in 1970..n - 1 : LeapYear(k)})
  <2>0. 1970 \in Years \union {2106}
    BY DEF Years
  <2>. HIDE DEF Leaps
  <2>a. YearStart = [n \in Years \union {2106} |-> 365 * (n - 1970) + Leaps(n)]
    BY DEF YearStart, Leaps
  <2>b. YearStart[1970] = 365 * (1970 - 1970) + Leaps(1970)
    BY <2>0, <2>a
  <2>1. YearStart[1970] = 365 * (1970 - 1970) + Cardinality({n \in 1970..1970 - 1 : LeapYear(n)})
    BY <2>b DEF Leaps
  <2>2. {n \in 1970..1970 - 1 : LeapYear(n)} = {}
    OBVIOUS
  <2>3. YearStart[1970] = 0
    BY <2>1, <2>2, FS_EmptySet
  <2>. QED
    BY <2>3 DEF DaysUntil
<1>. DEFINE x == y - 1
<1>4. x \in Years /\ x \in 1970..2105 /\ y = x + 1
  BY <1>3 DEF Years
<1>5. YearStart[x] = DaysUntil(x)
  BY <1>2, <1>4
<1>6. YearStart[y] = DaysUntil(x) + 337 + Feb(x)
  BY <1>4, <1>5, NextYear
<1>. HIDE DEF x
<1>7. DaysUntil(x + 1) = DaysUntil(x) + 337 + Feb(x)
  <2>1. Feb(x) = IF x % 4 = 0 /\ x # 2100 THEN 29 ELSE 28
    BY <1>4, LeapYears DEF Feb
  <2>2. ((x + 1) - 1969) \div 4 = ((x - 1969) \div 4) + (IF x % 4 = 0 THEN 1 ELSE 0)
    BY <1>4
  <2>. QED
    BY <1>4, <2>1, <2>2 DEF DaysUntil
<1>. QED
  BY <1>4, <1>6, <1>7

(* A date of the calendar, and the day it falls on.                         *)
IsDate(y, m, d) == y \in 1970..2100 /\ m \in 1..12 /\ d \in 1..Length(Feb(y), m)
DayOf(y, m, d) == DaysUntil(y) + Table(Feb(y), m) + d - 1

LEMMA MakeTimeCounts ==
    ASSUME NEW y \in Int, 1970 <= y, y <= 2106, NEW m \in 1..13, NEW d \in Int
    PROVE  MakeTime(d, m, y) = DayOf(y, m, d)
BY YearStarts, MonthStarts DEF MakeTime, DayOf

LEMMA YearBounds ==
    ASSUME NEW y \in Int, 1970 <= y, y <= 2101
    PROVE  /\ DaysUntil(y) \in Nat
           /\ 365 * (y - 1970) <= DaysUntil(y) /\ DaysUntil(y) <= 366 * (y - 1970)
BY DEF DaysUntil

LEMMA YearLength ==
    ASSUME NEW y \in Int, 1970 <= y, y <= 2100
    PROVE  DaysUntil(y + 1) = DaysUntil(y) + 337 + Feb(y)
<1>1. Feb(y) = IF y % 4 = 0 /\ y # 2100 THEN 29 ELSE 28
  BY LeapYears DEF Feb, Years
<1>2. ((y + 1) - 1969) \div 4 = ((y - 1969) \div 4) + (IF y % 4 = 0 THEN 1 ELSE 0)
  OBVIOUS
<1>. QED
  BY <1>1, <1>2 DEF DaysUntil

LEMMA YearsInOrder ==
    ASSUME NEW y \in Int, NEW x \in Int, 1970 <= y, y < x, x <= 2101
    PROVE  DaysUntil(y + 1) <= DaysUntil(x)
BY DEF DaysUntil

LEMMA OrderOfMonths ==
    ASSUME NEW f \in 28..29, NEW m \in 1..12, NEW n \in 1..12
    PROVE  /\ m < n => Table(f, m + 1) <= Table(f, n)
           /\ Table(f, m + 1) <= 337 + f
           /\ Table(f, n) \in Nat /\ Table(f, m + 1) \in Nat
BY DEF Table

(* breakTime finds the date that falls on a day.                            *)
LEMMA DateFound ==
    ASSUME NEW y, NEW m, NEW d, IsDate(y, m, d), NEW day, day = DayOf(y, m, d)
    PROVE  BreakTime(day)
             = [year |-> y, month |-> m, day |-> d, wday |-> ((day + 4) % 7) + 1]
<1>. DEFINE InYear(n)  == YearStart[n] <= day /\ day < YearStart[n + 1]
            yy         == CHOOSE n \in YearsAround(day) : InYear(n)
            rest       == day - YearStart[yy]
            InMonth(n) == /\ MonthStart[LeapYear(yy)][n] <= rest
                          /\ rest < MonthStart[LeapYear(yy)][n + 1]
            mm         == CHOOSE n \in 1..12 : InMonth(n)
<1>0. /\ y \in 1970..2100 /\ m \in 1..12 /\ d \in Int /\ 1 <= d /\ d <= Length(Feb(y), m)
      /\ Feb(y) \in 28..29 /\ Length(Feb(y), m) \in Int
  BY MonthStarts DEF IsDate, Length
<1>1. /\ Table(Feb(y), m) \in Nat /\ Table(Feb(y), m + 1) = Table(Feb(y), m) + Length(Feb(y), m)
      /\ Table(Feb(y), m + 1) <= 337 + Feb(y)
  BY <1>0, TableSums, OrderOfMonths
<1>2. /\ DaysUntil(y) \in Nat /\ DaysUntil(y + 1) = DaysUntil(y) + 337 + Feb(y)
      /\ 365 * (y - 1970) <= DaysUntil(y) /\ DaysUntil(y + 1) <= 366 * (y + 1 - 1970)
  BY <1>0, YearBounds, YearLength
<1>3. /\ day \in Int /\ DaysUntil(y) <= day /\ day < DaysUntil(y + 1)
      /\ day = DaysUntil(y) + Table(Feb(y), m) + d - 1
  BY <1>0, <1>1, <1>2 DEF DayOf
<1>4. y \in YearsAround(day) /\ YearsAround(day) \subseteq 1970..2101
  <2>1. day \div 365 >= y - 1970 /\ day \div 366 <= y - 1970 /\ day \div 366 >= 0
    BY <1>0, <1>2, <1>3
  <2>2. day \div 365 <= 131 /\ day \div 365 \in Int /\ day \div 366 \in Int
    BY <1>0, <1>2, <1>3
  <2>. QED
    BY <1>0, <2>1, <2>2 DEF YearsAround
<1>5. \A n \in 1970..2101 : InYear(n) <=> n = y
  <2>1. ASSUME NEW n \in 1970..2101 PROVE InYear(n) <=> DaysUntil(n) <= day /\ day < DaysUntil(n + 1)
    BY YearStarts
  <2>2. ASSUME NEW n \in 1970..2101, n < y PROVE ~(day < DaysUntil(n + 1))
    <3>1. DaysUntil(n + 1) <= DaysUntil(y) /\ n + 1 \in 1970..2101
      BY <1>0, <2>2, YearsInOrder
    <3>2. DaysUntil(n + 1) \in Nat
      BY <3>1, YearBounds
    <3>. QED
      BY <1>2, <1>3, <3>1, <3>2
  <2>3. ASSUME NEW n \in 1970..2101, y < n PROVE ~(DaysUntil(n) <= day)
    <3>0. y \in 1970..2101 /\ n \in 1970..2101
      BY <1>0
    <3>1. DaysUntil(y + 1) <= DaysUntil(n) /\ DaysUntil(n) \in Nat
      BY <2>3, <3>0, YearsInOrder, YearBounds
    <3>. QED
      BY <1>0, <1>2, <1>3, <3>1, MonthStarts
  <2>. HIDE DEF InYear
  <2>. QED
    BY <1>0, <1>3, <2>1, <2>2, <2>3
<1>6. yy = y
  <2>. HIDE DEF InYear
  <2>. QED
    BY <1>0, <1>4, <1>5
<1>. HIDE DEF yy
<1>7. rest \in Int /\ rest = Table(Feb(y), m) + d - 1
  BY <1>0, <1>1, <1>2, <1>3, <1>6, YearStarts
<1>. HIDE DEF rest
<1>8. \A n \in 1..12 : InMonth(n) <=> n = m
  <2>1. ASSUME NEW n \in 1..12
        PROVE  InMonth(n) <=> Table(Feb(y), n) <= rest /\ rest < Table(Feb(y), n + 1)
    BY <1>6, MonthStarts
  <2>. HIDE DEF InMonth
  <2>2. \A n \in 1..12 :
          /\ n < m => Table(Feb(y), n + 1) <= Table(Feb(y), m)
          /\ m < n => Table(Feb(y), m + 1) <= Table(Feb(y), n)
          /\ Table(Feb(y), n) \in Nat /\ Table(Feb(y), n + 1) \in Nat
    BY <1>0, OrderOfMonths
  <2>. QED
    BY <1>0, <1>1, <1>7, <2>1, <2>2
<1>9. mm = m
  <2>. HIDE DEF InMonth
  <2>. QED
    BY <1>0, <1>8
<1>. HIDE DEF mm
<1>10. MonthStart[LeapYear(yy)][mm] = Table(Feb(y), m)
  BY <1>0, <1>6, <1>9, MonthStarts
<1>11. BreakTime(day)
         = [year |-> yy, month |-> mm, day |-> rest - MonthStart[LeapYear(yy)][mm] + 1,
            wday |-> ((day + 4) % 7) + 1]
  BY DEF BreakTime, yy, mm, rest
<1>12. rest - Table(Feb(y), m) + 1 = d
  BY <1>0, <1>1, <1>7
<1>. QED
  BY <1>6, <1>9, <1>10, <1>11, <1>12

(* Every day up to the end of 2099, and the next, has a date.               *)
LEMMA YearOfDay ==
    ASSUME NEW day \in Nat, day <= 47482
    PROVE  \E y \in Int : y \in 1970..2100 /\ DaysUntil(y) <= day /\ day < DaysUntil(y + 1)
<1>. DEFINE k == (4 * day + 2) \div 1461
<1>1. \A n \in Nat : n \div 1461 \in Nat /\ 1461 * (n \div 1461) <= n
                     /\ n < 1461 * (n \div 1461) + 1461
  OBVIOUS
<1>2. 4 * day + 2 \in Nat
  OBVIOUS
<1>3. k \in Nat /\ 1461 * k <= 4 * day + 2 /\ 4 * day + 2 < 1461 * k + 1461
  BY <1>1, <1>2
<1>. HIDE DEF k
<1>4. k <= 130 /\ 1970 + k \in 1970..2100
  BY <1>3
<1>5. DaysUntil(1970 + k) = 365 * k + ((k + 1) \div 4)
  BY <1>3, <1>4 DEF DaysUntil
<1>6. DaysUntil(1970 + k + 1) = 365 * k + 365 + ((k + 2) \div 4) - (IF k = 130 THEN 1 ELSE 0)
  BY <1>3, <1>4 DEF DaysUntil
<1>7. /\ 4 * ((k + 1) \div 4) <= k + 1 /\ (k + 1) \div 4 \in Nat
      /\ k + 2 <= 4 * ((k + 2) \div 4) + 3 /\ (k + 2) \div 4 \in Nat
  BY <1>3
<1>8. 365 * k + ((k + 1) \div 4) <= day
  BY <1>3, <1>7
<1>9. day < 365 * k + 365 + ((k + 2) \div 4) - (IF k = 130 THEN 1 ELSE 0)
  BY <1>3, <1>4, <1>7
<1>. QED
  BY <1>4, <1>5, <1>6, <1>8, <1>9

LEMMA MonthOfDay ==
    ASSUME NEW f \in 28..29, NEW rest \in Nat, rest < 337 + f
    PROVE  \E m \in 1..12 : Table(f, m) <= rest /\ rest < Table(f, m + 1)
BY DEF Table

LEMMA EveryDay ==
    ASSUME NEW day \in Nat, day <= 47482
    PROVE  \E y, m, d : IsDate(y, m, d) /\ day = DayOf(y, m, d)
<1>1. PICK y \in Int : y \in 1970..2100 /\ DaysUntil(y) <= day /\ day < DaysUntil(y + 1)
  BY YearOfDay
<1>2. PICK f \in 28..29 : f = Feb(y)
  BY MonthStarts
<1>3. PICK rest \in Nat : rest = day - DaysUntil(y) /\ rest < 337 + f
  BY <1>1, <1>2, YearBounds, YearLength
<1>4. PICK m \in 1..12 : Table(f, m) <= rest /\ rest < Table(f, m + 1)
  BY <1>3, MonthOfDay
<1>5. /\ Table(f, m) \in Nat /\ Table(f, m + 1) = Table(f, m) + Length(f, m)
      /\ Length(f, m) \in 28..31
  BY TableSums DEF Length
<1>6. PICK d \in Int : d = rest - Table(f, m) + 1
  BY <1>5
<1>7. d \in 1..Length(f, m)
  BY <1>4, <1>5, <1>6
<1>8. IsDate(y, m, d)
  BY <1>1, <1>2, <1>7 DEF IsDate
<1>9. day = DayOf(y, m, d)
  BY <1>1, <1>2, <1>3, <1>5, <1>6, YearBounds, YearLength DEF DayOf
<1>. QED
  BY <1>8, <1>9

-----------------------------------------------------------------------------
LEMMA InItsYear ==
    ASSUME NEW y, NEW m, NEW d, IsDate(y, m, d)
    PROVE  /\ y \in 1970..2100 /\ m \in 1..12 /\ d \in Int /\ 1 <= d /\ d <= Length(Feb(y), m)
           /\ Feb(y) \in 28..29 /\ Length(Feb(y), m) \in 28..31
           /\ DaysUntil(y) \in Nat /\ Table(Feb(y), m) \in Nat
           /\ DayOf(y, m, d) \in Int
           /\ DaysUntil(y) <= DayOf(y, m, d) /\ DayOf(y, m, d) < DaysUntil(y + 1)
<1>1. /\ y \in 1970..2100 /\ m \in 1..12 /\ d \in Int /\ 1 <= d /\ d <= Length(Feb(y), m)
      /\ Feb(y) \in 28..29 /\ Length(Feb(y), m) \in 28..31
  BY MonthStarts DEF IsDate, Length
<1>2. /\ Table(Feb(y), m) \in Nat /\ Table(Feb(y), m + 1) = Table(Feb(y), m) + Length(Feb(y), m)
      /\ Table(Feb(y), m + 1) <= 337 + Feb(y)
  BY <1>1, TableSums, OrderOfMonths
<1>3. DaysUntil(y) \in Nat /\ DaysUntil(y + 1) = DaysUntil(y) + 337 + Feb(y)
  BY <1>1, YearBounds, YearLength
<1>. QED
  BY <1>1, <1>2, <1>3 DEF DayOf

(* The date of a day of the chip.                                           *)
LEMMA DateOfDay ==
    ASSUME NEW day \in Nat, 10957 <= day, day <= 47481
    PROVE  \E y, m, d : /\ IsDate(y, m, d) /\ day = DayOf(y, m, d) /\ y \in 2000..2099
                       /\ BreakTime(day)
                            = [year |-> y, month |-> m, day |-> d, wday |-> ((day + 4) % 7) + 1]
<1>1. PICK y, m, d : IsDate(y, m, d) /\ day = DayOf(y, m, d)
  BY EveryDay
<1>2. /\ y \in 1970..2100 /\ DaysUntil(y) \in Nat
      /\ DaysUntil(y) <= day /\ day < DaysUntil(y + 1)
  BY <1>1, InItsYear
<1>3. y # 2100
  BY <1>2 DEF DaysUntil
<1>4. ~(y < 2000)
  BY <1>2 DEF DaysUntil
<1>5. y \in 2000..2099
  BY <1>2, <1>3, <1>4
<1>. QED
  BY <1>1, <1>5, DateFound

(* No day has two dates.                                                    *)
LEMMA OneDate ==
    ASSUME NEW y, NEW m, NEW d, IsDate(y, m, d),
           NEW yy, NEW mm, NEW dd, IsDate(yy, mm, dd), DayOf(y, m, d) = DayOf(yy, mm, dd)
    PROVE  y = yy /\ m = mm /\ d = dd
<1>1. PICK day : day = DayOf(y, m, d) /\ day = DayOf(yy, mm, dd)
  OBVIOUS
<1>2. BreakTime(day) = [year |-> y, month |-> m, day |-> d, wday |-> ((day + 4) % 7) + 1]
  BY <1>1, DateFound
<1>3. BreakTime(day) = [year |-> yy, month |-> mm, day |-> dd, wday |-> ((day + 4) % 7) + 1]
  BY <1>1, DateFound
<1>. QED
  BY <1>2, <1>3

(* The date after a date.                                                   *)
LEMMA DayAfter ==
    ASSUME NEW y, NEW m, NEW d, IsDate(y, m, d), y <= 2099
    PROVE  /\ d < Length(Feb(y), m)
                => IsDate(y, m, d + 1) /\ DayOf(y, m, d + 1) = DayOf(y, m, d) + 1
           /\ d = Length(Feb(y), m) /\ m < 12
                => IsDate(y, m + 1, 1) /\ DayOf(y, m + 1, 1) = DayOf(y, m, d) + 1
           /\ d = Length(Feb(y), m) /\ m = 12
                => IsDate(y + 1, 1, 1) /\ DayOf(y + 1, 1, 1) = DayOf(y, m, d) + 1
<1>1. /\ y \in 1970..2100 /\ m \in 1..12 /\ d \in Int /\ 1 <= d /\ d <= Length(Feb(y), m)
      /\ Feb(y) \in 28..29 /\ Length(Feb(y), m) \in 28..31
      /\ DaysUntil(y) \in Nat /\ Table(Feb(y), m) \in Nat
  BY InItsYear
<1>2. CASE d < Length(Feb(y), m)
  BY <1>1, <1>2 DEF IsDate, DayOf
<1>3. CASE d = Length(Feb(y), m) /\ m < 12
  <2>1. Table(Feb(y), m + 1) = Table(Feb(y), m) + Length(Feb(y), m)
    BY <1>1, TableSums
  <2>2. Length(Feb(y), m + 1) \in 28..31
    BY <1>1 DEF Length
  <2>. QED
    BY <1>1, <1>3, <2>1, <2>2 DEF IsDate, DayOf
<1>4. CASE d = Length(Feb(y), m) /\ m = 12
  <2>1. DaysUntil(y + 1) = DaysUntil(y) + 337 + Feb(y)
    BY <1>1, YearBounds, YearLength
  <2>2. Table(Feb(y), 12) = 306 + Feb(y) /\ Length(Feb(y), 12) = 31
        /\ Table(Feb(y + 1), 1) = 0 /\ Length(Feb(y + 1), 1) = 31
    BY DEF Table, Length
  <2>3. DayOf(y + 1, 1, 1) = DaysUntil(y + 1)
    BY <1>1, <2>1, <2>2 DEF DayOf
  <2>4. DayOf(y, m, d) = DaysUntil(y) + 306 + Feb(y) + 31 - 1
    BY <1>1, <1>4, <2>2 DEF DayOf
  <2>. QED
    BY <1>1, <1>4, <2>1, <2>2, <2>3, <2>4, y + 1 \in 1970..2100 DEF IsDate
<1>. QED
  BY <1>1, <1>2, <1>3, <1>4

(* Whatever dates are typed and however long the power is off, the chip     *)
(* counts a day of its century.                                             *)
OnChip == 24 * FirstDay <= now /\ (pc = "off" => Today <= LastDay)

LEMMA OnChipFacts ==
    ASSUME TypeOK, OnChip, pc = "off"
    PROVE  Today \in Nat /\ 10957 <= Today /\ Today <= LastDay /\ LastDay <= 47481
BY DaysAssumption DEF TypeOK, OnChip, Today

LEMMA OnChipInit == Init => OnChip
<1>. SUFFICES ASSUME Init PROVE OnChip
  OBVIOUS
<1>1. now = 24 * FirstDay /\ Today = FirstDay
  BY DaysAssumption DEF Init, Today
<1>. QED  BY <1>1, DaysAssumption DEF OnChip

LEMMA OnChipKept ==
    ASSUME TypeOK, OnChip, [Next]_vars
    PROVE  OnChip'
<1>1. CASE NextDay
  <2>1. Today \in Nat /\ Today <= LastDay /\ FirstDay <= Today
    BY <1>1, DaysAssumption DEF NextDay, TypeOK, OnChip, Today
  <2>2. now' = 24 * (IF Today = LastDay THEN FirstDay ELSE Today + 1)
    BY <1>1 DEF NextDay
  <2>3. Today' = IF Today = LastDay THEN FirstDay ELSE Today + 1
    BY <2>1, <2>2, DaysAssumption DEF Today
  <2>. QED  BY <2>1, <2>2, <2>3, DaysAssumption DEF OnChip
<1>2. CASE PowerOff
  <2>1. Today \in Nat /\ Today < LastDay /\ now <= 24 * (Today + 1) /\ pc' = "off"
        /\ now' = 24 * (Today + 1) /\ now \in Nat
    BY <1>2 DEF PowerOff, TypeOK, Today
  <2>2. Today' = Today + 1
    BY <2>1 DEF Today
  <2>. QED  BY <2>1, <2>2, DaysAssumption DEF OnChip
<1>3. ASSUME NEW date \in TypedDates, SetDate(date) PROVE OnChip'
  <2>. DEFINE day == MakeTime(date.day, date.month, ShortYear(date.year))
  <2>1. day \in Nat /\ FirstDay <= day /\ now' = 24 * day + (now % 24) /\ pc' = "report"
    BY <1>3, TypedAssumption DEF SetDate
  <2>2. (now % 24) \in Nat
    BY DEF TypeOK
  <2>. HIDE DEF day
  <2>. QED  BY <2>1, <2>2, DaysAssumption DEF OnChip
<1>4. ASSUME NEW h \in TypedHours, SetTime(h) PROVE OnChip'
  <2>1. WallClock(now) \in Nat /\ now <= WallClock(now)
    BY WallClockNat DEF TypeOK
  <2>2. WallClock(now) \div 24 \in Nat /\ FirstDay <= WallClock(now) \div 24
    <3>. DEFINE w == WallClock(now)
    <3>1. w \in Nat /\ 24 * FirstDay <= w
      BY <2>1, DaysAssumption DEF OnChip, TypeOK
    <3>. HIDE DEF w
    <3>2. w \div 24 \in Nat /\ FirstDay <= w \div 24
      BY <3>1, DaysAssumption
    <3>. QED  BY <3>2 DEF w
  <2>3. now' = 24 * (WallClock(now) \div 24) + h /\ h \in Nat /\ pc' = "report"
    BY <1>4, TypedAssumption DEF SetTime
  <2>. QED  BY <2>2, <2>3, DaysAssumption DEF OnChip
<1>5. CASE PowerOn \/ Reboot
  <2>1. pc' = "main" /\ now' \in Nat /\ now <= now'
    BY <1>5 DEF PowerOn, Reboot, Setup, TypeOK
  <2>. QED  BY <2>1, DaysAssumption DEF OnChip, TypeOK
<1>6. CASE HourTurns
  <2>1. pc' # "off" /\ now' = now + 1
    BY <1>6 DEF HourTurns
  <2>. QED  BY <2>1, DaysAssumption DEF OnChip, TypeOK
<1>7. CASE CheckMain \/ CheckTimers \/ NoCommand \/ CheckReport \/ NoReboot
  <2>1. pc' # "off" /\ now' = now
    BY <1>7 DEF CheckMain, CheckTimers, NoCommand, CheckReport, NoReboot
  <2>. QED  BY <2>1 DEF OnChip
<1>8. CASE UNCHANGED vars
  BY <1>8 DEF vars, OnChip, Today
<1>. QED
  BY <1>1, <1>2, <1>3, <1>4, <1>5, <1>6, <1>7, <1>8 DEF Next

THEOREM OnChipCorrect == Spec => []OnChip
BY OnChipInit, OnChipKept, TypeCorrect, PTL DEF Spec

(* The chip gives back what it was given.                                   *)
LEMMA ChipKeeps == \A n \in 0..99 : Bcd2Dec(Dec2Bcd(n)) = n
BY DEF Bcd2Dec, Dec2Bcd

(* The year in a byte is a leap year when the year is one.                  *)
LEMMA YearInAByte == \A y \in 2000..2099 : ByteFeb(y) = Feb(y)
<1>. SUFFICES ASSUME NEW y \in 2000..2099 PROVE ByteFeb(y) = Feb(y)
  OBVIOUS
<1>1. CASE y <= 2047
  <2>1. y % 256 = y - 1792
    BY <1>1
  <2>2. PICK b \in 208..255 : b = y - 1792
    BY <1>1
  <2>. QED  BY <1>1, <2>1, <2>2 DEF Feb, ByteFeb, LeapYear
<1>2. CASE y >= 2048
  <2>1. y % 256 = y - 2048
    BY <1>2
  <2>2. PICK b \in 0..51 : b = y - 2048
    BY <1>2
  <2>. QED  BY <1>2, <2>1, <2>2 DEF Feb, ByteFeb, LeapYear
<1>. QED  BY <1>1, <1>2

(* On every day of the chip the next day has the next date, and Time, the   *)
(* chip and the sketch agree on it.                                         *)
THEOREM CalendarCorrect == Spec => []CalendarRight
<1>1. TypeOK /\ OnChip => CalendarRight
  <2>. SUFFICES ASSUME TypeOK, OnChip, pc = "off"
                PROVE  LET date == BreakTime(Today)
                       IN  /\ Today < LastDay => IsNextDate(BreakTime(Today + 1), date)
                           /\ MakeTime(date.day, date.month, date.year) = Today
                           /\ FromChip(ToChip(date)) = Today
                           /\ DayOfYear(date.day, date.month, date.year)
                                = Today - MakeTime(1, 1, date.year) + 1
    BY DEF CalendarRight
  <2>1. Today \in Nat /\ 10957 <= Today /\ Today <= LastDay /\ LastDay <= 47481
    BY OnChipFacts
  <2>2. PICK y, m, d :
          /\ IsDate(y, m, d) /\ Today = DayOf(y, m, d) /\ y \in 2000..2099
          /\ BreakTime(Today)
               = [year |-> y, month |-> m, day |-> d, wday |-> ((Today + 4) % 7) + 1]
    BY <2>1, DateOfDay, DaysAssumption
  <2>. DEFINE date == BreakTime(Today)
  <2>3. date.year = y /\ date.month = m /\ date.day = d
    BY <2>2
  <2>. HIDE DEF date
  <2>4. /\ m \in 1..12 /\ d \in Int /\ 1 <= d /\ d <= Length(Feb(y), m)
        /\ Feb(y) \in 28..29 /\ Length(Feb(y), m) \in 28..31
        /\ DaysUntil(y) \in Nat /\ Table(Feb(y), m) \in Nat
    BY <2>2, InItsYear
  <2>5. MakeTime(d, m, y) = Today
    <3>1. y \in 1970..2106 /\ m \in 1..13 /\ d \in Int
      BY <2>2, <2>4
    <3>2. MakeTime(d, m, y) = DayOf(y, m, d)
      BY <3>1, MakeTimeCounts
    <3>. QED
      BY <2>2, <3>2
  <2>6. Today < LastDay => IsNextDate(BreakTime(Today + 1), date)
    <3>. SUFFICES ASSUME Today < LastDay PROVE IsNextDate(BreakTime(Today + 1), date)
      OBVIOUS
    <3>1. LastOfMonth(m, y) = Length(Feb(y), m)
      <4>1. y \in {4 * k : k \in 500..524} <=> y % 4 = 0
        BY <2>2
      <4>2. Feb(y) = IF y % 4 = 0 THEN 29 ELSE 28
        BY <2>2, LeapYears DEF Feb, Years
      <4>. QED
        BY <2>4, <4>1, <4>2 DEF LastOfMonth, Length
    <3>2. ASSUME NEW yy, NEW mm, NEW dd, IsDate(yy, mm, dd), DayOf(yy, mm, dd) = Today + 1
          PROVE  /\ BreakTime(Today + 1).year = yy /\ BreakTime(Today + 1).month = mm
                 /\ BreakTime(Today + 1).day = dd
      BY <3>2, DateFound
    <3>3. CASE d < Length(Feb(y), m)
      <4>1. IsDate(y, m, d + 1) /\ DayOf(y, m, d + 1) = Today + 1
        BY <2>2, <3>3, DayAfter
      <4>. QED
        BY <2>3, <3>1, <3>2, <3>3, <4>1 DEF IsNextDate
    <3>4. CASE d = Length(Feb(y), m) /\ m < 12
      <4>1. IsDate(y, m + 1, 1) /\ DayOf(y, m + 1, 1) = Today + 1
        BY <2>2, <3>4, DayAfter
      <4>2. (m % 12) + 1 = m + 1 /\ y + 0 = y
        BY <2>2, <2>4, <3>4
      <4>. QED
        BY <2>3, <2>4, <3>1, <3>2, <3>4, <4>1, <4>2 DEF IsNextDate
    <3>5. CASE d = Length(Feb(y), m) /\ m = 12
      <4>1. IsDate(y + 1, 1, 1) /\ DayOf(y + 1, 1, 1) = Today + 1
        BY <2>2, <3>5, DayAfter
      <4>. QED
        BY <2>3, <2>4, <3>1, <3>2, <3>5, <4>1 DEF IsNextDate
    <3>. QED
      BY <2>4, <3>3, <3>4, <3>5
  <2>7. FromChip(ToChip(date)) = Today
    <3>1. /\ Bcd2Dec(Dec2Bcd(d)) = d /\ Bcd2Dec(Dec2Bcd(m)) = m
          /\ 2000 + Bcd2Dec(Dec2Bcd(y - 2000)) = y
      BY <2>2, <2>4, ChipKeeps
    <3>. QED
      BY <2>3, <2>5, <3>1 DEF FromChip, ToChip
  <2>8. DayOfYear(d, m, y) = Today - MakeTime(1, 1, y) + 1
    <3>1. DayOfYear(d, m, y) = d + Table(Feb(y), m)
      <4>1. MonthStart[LeapYear(y % 256)][m] = Table(ByteFeb(y), m)
        BY <2>4, MonthStarts DEF ByteFeb
      <4>2. ByteFeb(y) = Feb(y)
        BY <2>2, YearInAByte
      <4>. QED
        BY <4>1, <4>2 DEF DayOfYear, LeafYear
    <3>2. MakeTime(1, 1, y) = DaysUntil(y)
      <4>1. MakeTime(1, 1, y) = DaysUntil(y) + Table(Feb(y), 1) + 1 - 1
        BY <2>2, MakeTimeCounts DEF DayOf
      <4>2. Table(Feb(y), 1) = 0
        BY DEF Table
      <4>. QED
        BY <2>4, <4>1, <4>2
    <3>. QED
      BY <2>2, <2>4, <3>1, <3>2 DEF DayOf
  <2>. QED
    BY <2>3, <2>5, <2>6, <2>7, <2>8 DEF date
<1>. QED
  BY <1>1, OnChipCorrect, TypeCorrect, PTL

-----------------------------------------------------------------------------
LEMMA OneOfSeven ==
    ASSUME NEW n \in Int
    PROVE  \E k \in 0..6 : (n + k) % 7 = 0
<1>1. PICK r \in 0..6 : r = n % 7
  OBVIOUS
<1>2. CASE r = 0
  <2>1. (n + 0) % 7 = 0
    BY <1>1, <1>2
  <2>. QED  BY <2>1
<1>3. CASE r # 0
  <2>1. (n + (7 - r)) % 7 = 0 /\ 7 - r \in 0..6
    BY <1>1, <1>3
  <2>. QED  BY <2>1
<1>. QED  BY <1>2, <1>3

LEMMA LastSundayFound ==
    ASSUME NEW y \in 2000..2099, NEW m \in {3, 10}
    PROVE  /\ LastSunday(m, y) \in 25..31
           /\ MakeTime(LastSunday(m, y), m, y) = DayOf(y, m, LastSunday(m, y))
           /\ (DayOf(y, m, LastSunday(m, y)) + 4) % 7 = 0
<1>1. \A d \in 25..31 : MakeTime(d, m, y) = DayOf(y, m, d)
  BY MakeTimeCounts
<1>2. PICK n \in Int : n = DaysUntil(y) + Table(Feb(y), m) + 28
  <2>0. m \in 1..12 /\ y \in 1970..2101
    OBVIOUS
  <2>1. DaysUntil(y) \in Nat /\ Feb(y) \in 28..29
    <3>1. DaysUntil(y) \in Nat
      BY <2>0, YearBounds, YearLength
    <3>2. Feb(y) \in 28..29
      BY MonthStarts
    <3>. QED  BY <3>1, <3>2
  <2>2. Table(Feb(y), m) \in Nat
    BY <2>0, <2>1, TableSums
  <2>. QED  BY <2>1, <2>2
<1>3. \A k \in 0..6 : DayOf(y, m, 25 + k) + 4 = n + k
  <2>0. m \in 1..12 /\ y \in 1970..2101
    OBVIOUS
  <2>1. DaysUntil(y) \in Nat /\ Feb(y) \in 28..29
    <3>1. DaysUntil(y) \in Nat
      BY <2>0, YearBounds, YearLength
    <3>2. Feb(y) \in 28..29
      BY MonthStarts
    <3>. QED  BY <3>1, <3>2
  <2>2. Table(Feb(y), m) \in Nat
    BY <2>0, <2>1, TableSums
  <2>. QED  BY <1>2, <2>1, <2>2 DEF DayOf
<1>4. PICK k \in 0..6 : (n + k) % 7 = 0
  BY OneOfSeven
<1>5. \E d \in 25..31 : (MakeTime(d, m, y) + 4) % 7 = 0
  <2>1. 25 + k \in 25..31
    OBVIOUS
  <2>. QED  BY <1>1, <1>3, <1>4, <2>1
<1>6. LastSunday(m, y) \in 25..31 /\ (MakeTime(LastSunday(m, y), m, y) + 4) % 7 = 0
  BY <1>5 DEF LastSunday
<1>. QED
  BY <1>1, <1>6

(* The formula of dst finds a last Sunday s, unless it is the 25th.         *)
LEMMA PastLastSunday ==
    ASSUME NEW b \in Int, NEW s \in 25..31, (b + s + 4) % 7 = 0, NEW d \in 1..31,
           d < 25 \/ s # 25
    PROVE  d - (((b + d + 4) % 7) + 1) >= 25 <=> d >= s
<1>1. PICK q \in Int : b + s + 4 = 7 * q
  OBVIOUS
<1>2. \A r \in 0..6 : (7 * q + r) % 7 = r
  OBVIOUS
<1>3. (b + d + 4) % 7 \in 0..6
  OBVIOUS
<1>4. CASE d >= s
  <2>1. d - s \in 0..6 /\ b + d + 4 = 7 * q + (d - s)
    BY <1>1, <1>4
  <2>2. (b + d + 4) % 7 = d - s
    BY <1>2, <2>1
  <2>. QED  BY <1>4, <2>2
<1>5. CASE d < s /\ d >= 25
  <2>1. d - s + 6 \in 0..6 /\ d - s + 6 < 6 /\ b + d + 4 = 7 * (q - 1) + (d - s + 7)
    BY <1>1, <1>5
  <2>2. (b + d + 4) % 7 = d - s + 7
    BY <2>1
  <2>. QED  BY <1>5, <2>2
<1>6. CASE d < s /\ d < 25
  BY <1>3, <1>6
<1>. QED
  BY <1>4, <1>5, <1>6

(* dst is the summer time of the European Union on every day of the chip,   *)
(* but for the week after a last Sunday that is the 25th.                   *)
THEOREM SummerTimeCorrect == Spec => []SummerTime
<1>1. TypeOK /\ OnChip => SummerTime
  <2>. SUFFICES ASSUME TypeOK, OnChip, pc = "off"
                PROVE  LET date == BreakTime(Today)
                       IN  \/ Dst(Today) <=> LegalSummer(Today, date.year)
                           \/ /\ date.month \in {3, 10} /\ date.day >= 25
                              /\ LastSunday(date.month, date.year) = 25
    BY DEF SummerTime
  <2>1. Today \in Nat /\ 10957 <= Today /\ Today <= 47481
    BY OnChipFacts, DaysAssumption
  <2>2. PICK y, m, d :
          /\ IsDate(y, m, d) /\ Today = DayOf(y, m, d) /\ y \in 2000..2099
          /\ BreakTime(Today)
               = [year |-> y, month |-> m, day |-> d, wday |-> ((Today + 4) % 7) + 1]
    BY <2>1, DateOfDay
  <2>3. /\ m \in 1..12 /\ d \in Int /\ 1 <= d /\ d <= Length(Feb(y), m)
        /\ Feb(y) \in 28..29 /\ Length(Feb(y), m) \in 28..31
        /\ DaysUntil(y) \in Nat /\ Table(Feb(y), m) \in Nat
    BY <2>2, InItsYear
  <2>. DEFINE past == d - (((Today + 4) % 7) + 1) >= 25
              march == LastSunday(3, y)
              october == LastSunday(10, y)
              f == Feb(y)
  <2>4. Dst(Today) <=> m \in 3..10 /\ (m = 3 => past) /\ (m = 10 => ~past)
    BY <2>2 DEF Dst
  <2>5. LegalSummer(Today, y) <=> DayOf(y, 3, march) <= Today /\ Today < DayOf(y, 10, october)
    BY <2>2, LastSundayFound DEF LegalSummer
  <2>6. /\ march \in 25..31 /\ (DayOf(y, 3, march) + 4) % 7 = 0
        /\ october \in 25..31 /\ (DayOf(y, 10, october) + 4) % 7 = 0
    BY <2>2, LastSundayFound
  <2>. HIDE DEF march, october, past
  <2>7. /\ DayOf(y, 3, march) = DaysUntil(y) + 31 + f + march - 1
        /\ DayOf(y, 10, october) = DaysUntil(y) + 245 + f + october - 1
        /\ Today = DaysUntil(y) + Table(f, m) + d - 1
    BY <2>2, <2>3 DEF DayOf, Table
  <2>. HIDE DEF f
  <2>8. CASE m < 3 \/ m > 10
    <3>1. m < 3 => Table(f, m) + d <= 31 + f
      BY <2>3 DEF Table, Length, f
    <3>2. m > 10 => Table(f, m) >= 276 + f
      BY <2>3, <2>8 DEF Table, f
    <3>. QED
      BY <2>2, <2>3, <2>4, <2>5, <2>6, <2>7, <2>8, <3>1, <3>2 DEF f
  <2>9. CASE 3 < m /\ m < 10
    <3>1. 62 + f <= Table(f, m) /\ Table(f, m) + d <= 245 + f
      BY <2>3, <2>9 DEF Table, Length, f
    <3>. QED
      BY <2>2, <2>3, <2>4, <2>5, <2>6, <2>7, <2>9, <3>1 DEF f
  <2>10. CASE m = 3
    <3>1. Table(f, 3) = 31 + f /\ f \in Int /\ d \in 1..31
      BY <2>3, <2>10 DEF Table, f
    <3>2. CASE d >= 25 /\ march = 25
      BY <2>2, <2>10, <3>2 DEF march
    <3>3. CASE d < 25 \/ march # 25
      <4>1. PICK b \in Int : b = DaysUntil(y) + 31 + f - 1
        BY <2>3, <3>1
      <4>2. DayOf(y, 3, march) = b + march /\ Today = b + d /\ march \in Int
        <5>1. /\ DaysUntil(y) \in Int /\ march \in Int
              /\ DayOf(y, 3, march) = DaysUntil(y) + 31 + f + march - 1
          BY <2>3, <2>6, <2>7
        <5>2. Today = DaysUntil(y) + (31 + f) + d - 1
          BY <2>7, <2>10, <3>1
        <5>. QED
          BY <3>1, <4>1, <5>1, <5>2
      <4>3. past <=> d >= march
        <5>1. (b + march + 4) % 7 = 0
          BY <2>6, <4>2
        <5>. QED
          BY <2>6, <3>1, <3>3, <4>2, <5>1, PastLastSunday DEF past
      <4>4. LegalSummer(Today, y) <=> d >= march
        BY <2>3, <2>5, <2>6, <2>7, <3>1, <4>1, <4>2
      <4>. QED
        BY <2>2, <2>4, <2>10, <4>3, <4>4
    <3>. QED
      BY <3>2, <3>3, <2>3, <2>6
  <2>11. CASE m = 10
    <3>1. Table(f, 10) = 245 + f /\ f \in Int /\ d \in 1..31
      BY <2>3, <2>11 DEF Table, f
    <3>2. CASE d >= 25 /\ october = 25
      BY <2>2, <2>11, <3>2 DEF october
    <3>3. CASE d < 25 \/ october # 25
      <4>1. PICK b \in Int : b = DaysUntil(y) + 245 + f - 1
        BY <2>3, <3>1
      <4>2. DayOf(y, 10, october) = b + october /\ Today = b + d /\ october \in Int
        <5>1. /\ DaysUntil(y) \in Int /\ october \in Int
              /\ DayOf(y, 10, october) = DaysUntil(y) + 245 + f + october - 1
          BY <2>3, <2>6, <2>7
        <5>2. Today = DaysUntil(y) + (245 + f) + d - 1
          BY <2>7, <2>11, <3>1
        <5>. QED
          BY <3>1, <4>1, <5>1, <5>2
      <4>3. past <=> d >= october
        <5>1. (b + october + 4) % 7 = 0
          BY <2>6, <4>2
        <5>. QED
          BY <2>6, <3>1, <3>3, <4>2, <5>1, PastLastSunday DEF past
      <4>4. LegalSummer(Today, y) <=> ~(d >= october)
        BY <2>3, <2>5, <2>6, <2>7, <3>1, <4>1, <4>2
      <4>. QED
        BY <2>2, <2>4, <2>11, <4>3, <4>4
    <3>. QED
      BY <3>2, <3>3, <2>3, <2>6
  <2>. QED
    BY <2>3, <2>8, <2>9, <2>10, <2>11
<1>. QED
  BY <1>1, OnChipCorrect, TypeCorrect, PTL

-----------------------------------------------------------------------------
(* The window of a program, in winter time.                                 *)
Rise(p, day) ==
    LET date == BreakTime(day)
    IN  Sun[date.month][date.day] + p.startdelay + SleepMinutes(p, date)
Fall(p, day) ==
    LET date == BreakTime(day)
    IN  Sun[12 + date.month][date.day] - p.stopdelay - SleepMinutes(p, date)
Moved(day) == IF Dst(day) THEN 60 ELSE 0

LEMMA FitsAnInt == \A n \in Int : -32768 <= n /\ n <= 32767 => Int16(n) = n
BY DEF Int16

LEMMA Multiples ==
    ASSUME NEW n \in Nat, n <= 365, NEW k \in Nat
    PROVE  n * k \in Nat /\ n * k <= 365 * k
<1>1. PICK j \in Nat : j = 365 - n
  OBVIOUS
<1>2. j * k \in Nat /\ n * k \in Nat
  OBVIOUS
<1>3. 365 * k = n * k + j * k
  BY <1>1
<1>. QED  BY <1>2, <1>3

LEMMA DayOfYearTable ==
    ASSUME NEW y \in Int, NEW m \in 1..12, NEW d \in Int
    PROVE  DayOfYear(d, m, y) = d + Table(ByteFeb(y), m)
<1>1. MonthStart[LeapYear(y % 256)][m] = Table(ByteFeb(y), m)
  BY MonthStarts DEF ByteFeb
<1>. QED  BY <1>1 DEF DayOfYear, LeafYear

LEMMA ByteFebRange ==
    ASSUME NEW y, NEW m \in 1..12
    PROVE  ByteFeb(y) \in 28..29 /\ Table(ByteFeb(y), m) \in Nat
<1>1. ByteFeb(y) \in 28..29
  BY MonthStarts DEF ByteFeb
<1>. QED  BY <1>1, TableSums

LEMMA CurrentRange ==
    ASSUME NEW y, NEW m, NEW d, IsDate(y, m, d)
    PROVE  DayOfYear(d, m, y) \in 1..366
<1>1. /\ y \in Int /\ m \in 1..12 /\ d \in Int /\ 1 <= d /\ d <= Length(Feb(y), m)
      /\ Feb(y) \in 28..29
  BY InItsYear
<1>2. PICK f \in 28..29 : f = ByteFeb(y)
  BY <1>1, DayOfYearTable, ByteFebRange
<1>3. PICK g \in 28..29 : g = Feb(y)
  BY <1>1
<1>4. DayOfYear(d, m, y) = d + Table(f, m) /\ d <= Length(g, m)
  BY <1>1, <1>2, <1>3, DayOfYearTable, ByteFebRange
<1>5. PICK before \in Nat, length \in Nat :
        before = Table(f, m) /\ length = Length(g, m) /\ before + length <= 366
  BY <1>1 DEF Table, Length
<1>6. DayOfYear(d, m, y) = d + before /\ d <= length
  BY <1>4, <1>5
<1>7. DayOfYear(d, m, y) \in Int /\ 1 <= DayOfYear(d, m, y) /\ DayOfYear(d, m, y) <= 366
  BY <1>1, <1>5, <1>6
<1>. QED  BY <1>7

(* The rest of a program adds at most its increment for every day before    *)
(* this one in the year.                                                    *)
LEMMA SleepRange ==
    ASSUME NEW p \in Programs, NEW date, NEW y, NEW m, NEW d, IsDate(y, m, d),
           date.year = y, date.month = m, date.day = d
    PROVE  LET current == DayOfYear(d, m, y)
               begin   == DayOfYear(p.sleepday, p.sleepmon, y)
               rests   == p.sleepday > 0 /\ p.sleepmon > 0 /\ current >= begin
           IN  /\ current \in 1..366
               /\ p.sleepmon > 0 => begin \in Nat
               /\ rests => SleepMinutes(p, date) = (current - begin) * p.increment
               /\ ~rests => SleepMinutes(p, date) = 0
               /\ SleepMinutes(p, date) \in Nat
               /\ SleepMinutes(p, date) <= 365 * p.increment
<1>. DEFINE current == DayOfYear(d, m, y)
            begin   == DayOfYear(p.sleepday, p.sleepmon, y)
            rests   == p.sleepday > 0 /\ p.sleepmon > 0 /\ current >= begin
<1>1. /\ y \in 1970..2100 /\ m \in 1..12 /\ d \in Int /\ 1 <= d /\ d <= Length(Feb(y), m)
      /\ Feb(y) \in 28..29
  BY InItsYear
<1>2. /\ p.increment \in Nat /\ p.sleepday \in 0..31 /\ p.sleepmon \in 0..12
      /\ p.startdelay \in Nat /\ p.stopdelay \in Nat
      /\ p.startdelay + p.stopdelay + 365 * p.increment <= 30000
  BY ProgramAssumption
<1>3. current \in 1..366
  BY CurrentRange
<1>0. p.sleepmon > 0 =>
        /\ begin = p.sleepday + Table(ByteFeb(y), p.sleepmon)
        /\ Table(ByteFeb(y), p.sleepmon) \in Nat
  <2>1. y \in Int /\ p.sleepday \in Int
    BY <1>1, <1>2
  <2>2. p.sleepmon > 0 => p.sleepmon \in 1..12
    BY <1>2
  <2>. QED  BY <2>1, <2>2, DayOfYearTable, ByteFebRange
<1>4. p.sleepmon > 0 => begin \in Nat
  BY <1>0, <1>2
<1>5. SleepMinutes(p, date)
        = IF rests THEN Int16((current - begin) * p.increment) ELSE 0
  BY DEF SleepMinutes
<1>. HIDE DEF current, begin
<1>6. CASE rests
  <2>0. begin \in Nat /\ begin >= 1
    BY <1>0, <1>2, <1>6
  <2>1. PICK n \in Nat : n = current - begin /\ n <= 365
    BY <1>3, <1>6, <2>0
  <2>2. n * p.increment \in Nat /\ n * p.increment <= 365 * p.increment
    BY <1>2, <2>1, Multiples
  <2>3. 365 * p.increment \in Nat /\ 365 * p.increment <= 30000
    BY <1>2
  <2>4. Int16(n * p.increment) = n * p.increment
    BY <2>2, <2>3, FitsAnInt
  <2>5. SleepMinutes(p, date) = n * p.increment
    BY <1>5, <1>6, <2>1, <2>4
  <2>. QED
    BY <1>3, <1>4, <1>6, <2>1, <2>2, <2>5 DEF current, begin
<1>7. CASE ~rests
  <2>1. SleepMinutes(p, date) = 0 /\ 365 * p.increment \in Nat
    BY <1>2, <1>5, <1>7
  <2>. QED
    BY <1>3, <1>4, <1>7, <2>1 DEF current, begin
<1>. QED
  BY <1>6, <1>7

LEMMA SunOfDate ==
    ASSUME NEW y, NEW m, NEW d, IsDate(y, m, d)
    PROVE  /\ Sun[m][d] \in Nat /\ 60 <= Sun[m][d] /\ Sun[m][d] < 1440
           /\ Sun[12 + m][d] \in Nat /\ Sun[12 + m][d] < 1380
<1>1. m \in 1..12 /\ d \in Int /\ 1 <= d /\ d <= Length(Feb(y), m) /\ Feb(y) \in 28..29
  BY InItsYear
<1>2. m \in 1..12 /\ d \in 1..MonthDays(m, TRUE)
  BY <1>1 DEF Length, MonthDays
<1>. QED
  BY <1>2, SunAssumption DEF MonthDays

(* The window moves with the wall clock, and nothing of it overflows.       *)
LEMMA WindowOnDay ==
    ASSUME NEW p \in Programs, NEW day \in Nat, day <= 47482
    PROVE  /\ Rise(p, day) \in Int /\ Fall(p, day) \in Int
           /\ 60 <= Rise(p, day) /\ Fall(p, day) < 1380
           /\ Window(p, day)[1] = Rise(p, day) + Moved(day)
           /\ Window(p, day)[2] = Fall(p, day) + Moved(day)
<1>1. PICK y, m, d : IsDate(y, m, d) /\ day = DayOf(y, m, d)
  BY EveryDay
<1>. DEFINE date == BreakTime(day)
<1>2. date.year = y /\ date.month = m /\ date.day = d /\ m \in 1..12
  BY <1>1, DateFound, InItsYear
<1>. DEFINE sleep == SleepMinutes(p, date)
            sunrise == Sun[m][d]
            sunset == Sun[12 + m][d]
<1>3. sleep \in Nat /\ sleep <= 365 * p.increment
  <2>. HIDE DEF date
  <2>. QED  BY <1>1, <1>2, SleepRange
<1>4. /\ sunrise \in Nat /\ 60 <= sunrise /\ sunrise < 1440
      /\ sunset \in Nat /\ sunset < 1380
  BY <1>1, SunOfDate
<1>5. /\ p.increment \in Nat /\ p.startdelay \in Nat /\ p.stopdelay \in Nat
      /\ p.startdelay + p.stopdelay + 365 * p.increment <= 30000 /\ p.type # "STATIC"
  BY ProgramAssumption
<1>6. /\ Rise(p, day) = sunrise + p.startdelay + sleep
      /\ Fall(p, day) = sunset - p.stopdelay - sleep
  <2>1. /\ Rise(p, day) = Sun[date.month][date.day] + p.startdelay + sleep
        /\ Fall(p, day) = Sun[12 + date.month][date.day] - p.stopdelay - sleep
    BY DEF Rise, Fall
  <2>. HIDE DEF date, sleep
  <2>. QED  BY <1>2, <2>1
<1>7. SunAt(0, day) = sunrise + Moved(day) /\ SunAt(12, day) = sunset + Moved(day)
  <2>1. /\ SunAt(0, day) = Sun[0 + date.month][date.day] + Moved(day)
        /\ SunAt(12, day) = Sun[12 + date.month][date.day] + Moved(day)
    BY DEF SunAt, Moved
  <2>. HIDE DEF date
  <2>2. 0 + date.month = m
    BY <1>2
  <2>. QED  BY <1>2, <2>1, <2>2
<1>8. Window(p, day) = <<Int16(SunAt(0, day) + p.startdelay + sleep),
                         Int16(SunAt(12, day) - p.stopdelay - sleep)>>
  BY <1>5 DEF Window
<1>9. Moved(day) \in 0..60
  BY DEF Moved
<1>. HIDE DEF date, sleep, sunrise, sunset
<1>10. Int16(SunAt(0, day) + p.startdelay + sleep) = Rise(p, day) + Moved(day)
  <2>1. SunAt(0, day) + p.startdelay + sleep = Rise(p, day) + Moved(day)
    BY <1>3, <1>4, <1>5, <1>6, <1>7, <1>9
  <2>2. /\ Rise(p, day) + Moved(day) \in Int /\ 0 <= Rise(p, day) + Moved(day)
        /\ Rise(p, day) + Moved(day) <= 32767
    BY <1>3, <1>4, <1>5, <1>6, <1>9
  <2>. QED  BY <2>1, <2>2, FitsAnInt
<1>11. Int16(SunAt(12, day) - p.stopdelay - sleep) = Fall(p, day) + Moved(day)
  <2>1. SunAt(12, day) - p.stopdelay - sleep = Fall(p, day) + Moved(day)
    BY <1>3, <1>4, <1>5, <1>6, <1>7, <1>9
  <2>2. /\ Fall(p, day) + Moved(day) \in Int /\ -32768 <= Fall(p, day) + Moved(day)
        /\ Fall(p, day) + Moved(day) <= 32767
    BY <1>3, <1>4, <1>5, <1>6, <1>9
  <2>. QED  BY <2>1, <2>2, FitsAnInt
<1>. QED
  BY <1>3, <1>4, <1>5, <1>6, <1>8, <1>10, <1>11

(* A minute of a day, as minutes since 1970.                                *)
LEMMA MinuteOfDay ==
    ASSUME NEW day \in Nat, NEW k \in Nat, k <= 1439
    PROVE  /\ 1440 * day + k \in Nat
           /\ (1440 * day + k) \div 1440 = day
           /\ (1440 * day + k) % 1440 = k
OBVIOUS

LEMMA OperateOnDay ==
    ASSUME NEW p \in Programs, NEW day \in Nat, day <= 47482, NEW k \in Nat, k <= 1439
    PROVE  Operate(p, 1440 * day + k)
             <=> Rise(p, day) + Moved(day) <= k /\ k <= Fall(p, day) + Moved(day)
<1>. DEFINE minutes == 1440 * day + k
<1>1. minutes \div 1440 = day /\ minutes % 1440 = k
  BY MinuteOfDay
<1>2. Operate(p, minutes) <=> /\ Window(p, minutes \div 1440)[1] <= minutes % 1440
                              /\ minutes % 1440 <= Window(p, minutes \div 1440)[2]
  BY DEF Operate
<1>. HIDE DEF minutes
<1>3. Operate(p, minutes) <=> Window(p, day)[1] <= k /\ k <= Window(p, day)[2]
  BY <1>1, <1>2
<1>. QED
  BY <1>3, WindowOnDay DEF minutes

(* At any minute operate() says whether the sun is up. In the last hour of  *)
(* a summer day the wall clock shows the day after: there both are false,   *)
(* because the sun rises after one and sets before eleven.                  *)
THEOREM WindowCorrect == Spec => []WindowFollowsSun
<1>1. TypeOK /\ OnChip => WindowFollowsSun
  <2>. SUFFICES ASSUME TypeOK, OnChip, pc = "off", NEW p \in Programs, NEW minute \in Minutes
                PROVE  Operate(p, Local(1440 * Today + minute)) <=> SunIsUp(p, minute)
    BY DEF WindowFollowsSun
  <2>1. PICK day \in Nat : day = Today /\ day <= 47481
    BY OnChipFacts, DaysAssumption
  <2>2. minute \in Nat /\ minute <= 1439
    BY MinutesAssumption
  <2>3. SunIsUp(p, minute) <=> Rise(p, day) <= minute /\ minute <= Fall(p, day)
    BY <2>1 DEF SunIsUp, Rise, Fall
  <2>4. /\ Rise(p, day) \in Int /\ 60 <= Rise(p, day)
        /\ Fall(p, day) \in Int /\ Fall(p, day) < 1380
    BY <2>1, WindowOnDay
  <2>. DEFINE minutes == 1440 * day + minute
  <2>5. minutes \in Nat /\ Local(minutes) = minutes + Moved(day)
    <3>1. minutes \in Nat /\ minutes \div 1440 = day
      BY <2>2, MinuteOfDay
    <3>2. Local(minutes) = IF Dst(minutes \div 1440) THEN minutes + 60 ELSE minutes
      BY DEF Local
    <3>. HIDE DEF minutes
    <3>3. CASE Dst(day)
      BY <3>1, <3>2, <3>3 DEF Moved
    <3>4. CASE ~Dst(day)
      BY <3>1, <3>2, <3>4 DEF Moved
    <3>. QED
      BY <3>3, <3>4
  <2>6. Moved(day) \in {0, 60}
    BY DEF Moved
  <2>7. CASE minute + Moved(day) <= 1439
    <3>1. PICK k \in Nat : k = minute + Moved(day) /\ k <= 1439
      BY <2>2, <2>6, <2>7
    <3>2. Local(minutes) = 1440 * day + k
      BY <2>2, <2>5, <2>6, <3>1
    <3>3. Operate(p, 1440 * day + k)
            <=> Rise(p, day) + Moved(day) <= k /\ k <= Fall(p, day) + Moved(day)
      BY <2>1, <3>1, OperateOnDay
    <3>4. Rise(p, day) + Moved(day) <= k /\ k <= Fall(p, day) + Moved(day)
            <=> Rise(p, day) <= minute /\ minute <= Fall(p, day)
      BY <2>2, <2>4, <2>6, <3>1
    <3>. QED
      BY <2>1, <2>3, <3>2, <3>3, <3>4
  <2>8. CASE minute + Moved(day) > 1439
    <3>1. PICK next \in Nat : next = day + 1 /\ next <= 47482
      BY <2>1
    <3>2. PICK k \in Nat : k = minute - 1380 /\ k < 60
      BY <2>2, <2>6, <2>8
    <3>3. Local(minutes) = 1440 * next + k
      BY <2>2, <2>5, <2>6, <2>8, <3>1, <3>2
    <3>4. Operate(p, 1440 * next + k)
            => Rise(p, next) + Moved(next) <= k /\ Moved(next) \in {0, 60}
      BY <3>1, <3>2, OperateOnDay DEF Moved
    <3>5. Rise(p, next) \in Int /\ 60 <= Rise(p, next)
      BY <3>1, WindowOnDay
    <3>6. ~Operate(p, 1440 * next + k)
      BY <3>2, <3>4, <3>5
    <3>7. ~(minute <= Fall(p, day))
      BY <2>2, <2>4, <3>2
    <3>. QED
      BY <2>1, <2>3, <3>3, <3>6, <3>7
  <2>. QED
    BY <2>2, <2>6, <2>7, <2>8
<1>. QED
  BY <1>1, OnChipCorrect, TypeCorrect, PTL

-----------------------------------------------------------------------------
(* From one date to the next one of the same year.                          *)
LEMMA DayOfYearAgrees ==
    ASSUME NEW y \in 2000..2099, NEW m \in 1..12, NEW d \in Int
    PROVE  DayOfYear(d, m, y) = d + Table(Feb(y), m)
<1>1. DayOfYear(d, m, y) = d + Table(ByteFeb(y), m)
  BY DayOfYearTable
<1>. QED  BY <1>1, YearInAByte

LEMMA DayOfYearCounts ==
    ASSUME NEW y \in 2000..2099, NEW m, NEW d, IsDate(y, m, d),
           NEW mm, NEW dd, IsDate(y, mm, dd), DayOf(y, mm, dd) = DayOf(y, m, d) + 1
    PROVE  DayOfYear(dd, mm, y) = DayOfYear(d, m, y) + 1
<1>1. /\ m \in 1..12 /\ d \in Int /\ DaysUntil(y) \in Nat /\ Table(Feb(y), m) \in Nat
      /\ mm \in 1..12 /\ dd \in Int /\ Table(Feb(y), mm) \in Nat
  BY InItsYear
<1>2. ASSUME NEW a \in 1..12, NEW b \in Int PROVE DayOfYear(b, a, y) = b + Table(Feb(y), a)
  BY DayOfYearAgrees
<1>3. DayOfYear(d, m, y) = d + Table(Feb(y), m)
  BY <1>1, <1>2
<1>4. DayOfYear(dd, mm, y) = dd + Table(Feb(y), mm)
  BY <1>1, <1>2
<1>. QED
  BY <1>1, <1>3, <1>4 DEF DayOf

LEMMA SleepMoves ==
    ASSUME NEW p \in Programs, NEW y \in 2000..2099, NEW m, NEW d,
           IsDate(y, m, d),
           NEW mm, NEW dd, IsDate(y, mm, dd), DayOf(y, mm, dd) = DayOf(y, m, d) + 1,
           NEW date, date.year = y, date.month = m, date.day = d,
           NEW next, next.year = y, next.month = mm, next.day = dd
    PROVE  /\ SleepMinutes(p, date) \in Nat /\ SleepMinutes(p, next) \in Nat
           /\ SleepMinutes(p, date) <= SleepMinutes(p, next)
           /\ SleepMinutes(p, next) <= SleepMinutes(p, date) + p.increment
<1>. DEFINE current == DayOfYear(d, m, y)
            later   == DayOfYear(dd, mm, y)
            begin   == DayOfYear(p.sleepday, p.sleepmon, y)
            may     == p.sleepday > 0 /\ p.sleepmon > 0
<1>1. PICK k \in Nat : k = p.increment
  BY ProgramAssumption
<1>2. /\ current \in 1..366
      /\ p.sleepmon > 0 => begin \in Nat
      /\ may /\ current >= begin => SleepMinutes(p, date) = (current - begin) * p.increment
      /\ ~(may /\ current >= begin) => SleepMinutes(p, date) = 0
      /\ SleepMinutes(p, date) \in Nat
  BY SleepRange
<1>3. /\ may /\ later >= begin => SleepMinutes(p, next) = (later - begin) * p.increment
      /\ ~(may /\ later >= begin) => SleepMinutes(p, next) = 0
      /\ SleepMinutes(p, next) \in Nat
  BY SleepRange
<1>4. later = current + 1
  BY DayOfYearCounts
<1>. HIDE DEF current, later, begin
<1>5. CASE may /\ current >= begin
  <2>1. PICK n \in Nat : n = current - begin /\ later - begin = n + 1
    BY <1>2, <1>4, <1>5
  <2>2. (n + 1) * k = n * k + k /\ n * k \in Nat
    OBVIOUS
  <2>3. later >= begin
    BY <1>2, <1>4, <1>5
  <2>4. SleepMinutes(p, date) = n * k /\ SleepMinutes(p, next) = (n + 1) * k
    BY <1>1, <1>2, <1>3, <1>5, <2>1, <2>3
  <2>. QED
    BY <1>1, <2>2, <2>4
<1>6. CASE may /\ ~(current >= begin)
  <2>1. later >= begin => later - begin = 0
    BY <1>2, <1>4, <1>6
  <2>2. SleepMinutes(p, next) = 0 /\ SleepMinutes(p, date) = 0
    BY <1>1, <1>2, <1>3, <1>6, <2>1
  <2>. QED
    BY <1>1, <2>2
<1>7. CASE ~may
  BY <1>1, <1>2, <1>3, <1>7
<1>. QED
  BY <1>5, <1>6, <1>7

LEMMA SunMoves ==
    ASSUME NEW y \in 2000..2099, NEW m, NEW d, IsDate(y, m, d),
           NEW mm, NEW dd, IsDate(y, mm, dd), DayOf(y, mm, dd) = DayOf(y, m, d) + 1
    PROVE  Near(Sun[mm][dd], Sun[m][d]) /\ Near(Sun[12 + mm][dd], Sun[12 + m][d])
<1>1. /\ m \in 1..12 /\ d \in Int /\ 1 <= d /\ d <= Length(Feb(y), m)
      /\ Length(Feb(y), m) \in 28..31
  BY InItsYear
<1>2. PICK leap \in BOOLEAN : leap = LeapYear(y)
  BY LeapOrNot
<1>3. Length(Feb(y), m) = MonthDays(m, leap)
  BY <1>2 DEF Length, MonthDays, Feb
<1>4. /\ \A n \in 1..MonthDays(m, leap) - 1 :
           Near(Sun[m][n + 1], Sun[m][n]) /\ Near(Sun[12 + m][n + 1], Sun[12 + m][n])
      /\ m < 12 => /\ Near(Sun[m + 1][1], Sun[m][MonthDays(m, leap)])
                   /\ Near(Sun[12 + m + 1][1], Sun[12 + m][MonthDays(m, leap)])
  <2>1. m \in {m, 12 + m} /\ 12 + m \in {m, 12 + m}
    OBVIOUS
  <2>. QED  BY <1>1, <2>1, DailyAssumption
<1>5. CASE d < Length(Feb(y), m)
  <2>1. mm = m /\ dd = d + 1
    BY <1>5, DayAfter, OneDate
  <2>2. d \in 1..MonthDays(m, leap) - 1
    BY <1>1, <1>3, <1>5
  <2>. QED
    BY <1>4, <2>1, <2>2
<1>6. CASE d = Length(Feb(y), m) /\ m < 12
  <2>1. mm = m + 1 /\ dd = 1
    BY <1>6, DayAfter, OneDate
  <2>2. 12 + m + 1 = 12 + mm
    BY <1>1, <2>1
  <2>. QED
    BY <1>3, <1>4, <1>6, <2>1, <2>2
<1>7. CASE d = Length(Feb(y), m) /\ m = 12
  <2>1. y + 1 = y
    BY <1>7, DayAfter, OneDate
  <2>. QED
    BY <2>1
<1>. QED
  BY <1>1, <1>5, <1>6, <1>7

LEMMA WinterWindowIs ==
    ASSUME NEW p \in Programs, NEW day \in Nat, day <= 47482
    PROVE  WinterWindow(p, day, 1) = Rise(p, day) /\ WinterWindow(p, day, 2) = Fall(p, day)
<1>1. /\ Rise(p, day) \in Int /\ Fall(p, day) \in Int /\ Moved(day) \in 0..60
      /\ Window(p, day)[1] = Rise(p, day) + Moved(day)
      /\ Window(p, day)[2] = Fall(p, day) + Moved(day)
  BY WindowOnDay DEF Moved
<1>2. /\ WinterWindow(p, day, 1) = Window(p, day)[1] - Moved(day)
      /\ WinterWindow(p, day, 2) = Window(p, day)[2] - Moved(day)
  BY DEF WinterWindow, Moved
<1>. QED  BY <1>1, <1>2

LEMMA FirstOfJanuary == BreakTime(FirstDay).month = 1
<1>1. PICK y \in 2000..2099 : FirstDay = MakeTime(1, 1, y)
  BY NewYearAssumption
<1>2. FirstDay = DayOf(y, 1, 1)
  BY <1>1, MakeTimeCounts
<1>3. Length(Feb(y), 1) = 31
  BY DEF Length
<1>4. IsDate(y, 1, 1)
  BY <1>3 DEF IsDate
<1>. QED
  BY <1>2, <1>4, DateFound

LEMMA WindowMoves ==
    ASSUME NEW p \in Programs, NEW day \in Nat, 10957 <= day, day < 47481,
           BreakTime(day + 1).month # 1
    PROVE  \A side \in {1, 2} :
             WinterWindow(p, day + 1, side) - WinterWindow(p, day, side)
               \in -(DailyStep + p.increment)..DailyStep + p.increment
<1>1. PICK y, m, d : /\ IsDate(y, m, d) /\ day = DayOf(y, m, d) /\ y \in 2000..2099
                     /\ BreakTime(day)
                          = [year |-> y, month |-> m, day |-> d, wday |-> ((day + 4) % 7) + 1]
  BY DateOfDay
<1>2. PICK mm, dd : IsDate(y, mm, dd) /\ DayOf(y, mm, dd) = day + 1
  <2>1. d <= Length(Feb(y), m) /\ m \in 1..12 /\ d \in Int /\ Length(Feb(y), m) \in Int
    BY <1>1, InItsYear
  <2>2. CASE d < Length(Feb(y), m)
    BY <1>1, <2>2, DayAfter
  <2>3. CASE d = Length(Feb(y), m) /\ m < 12
    BY <1>1, <2>3, DayAfter
  <2>4. CASE d = Length(Feb(y), m) /\ m = 12
    <3>1. IsDate(y + 1, 1, 1) /\ DayOf(y + 1, 1, 1) = day + 1
      BY <1>1, <2>4, DayAfter
    <3>2. BreakTime(day + 1).month = 1
      BY <3>1, DateFound
    <3>. QED  BY <3>2
  <2>. QED  BY <2>1, <2>2, <2>3, <2>4
<1>. DEFINE date == BreakTime(day)
            next == BreakTime(day + 1)
<1>3. date.year = y /\ date.month = m /\ date.day = d
  BY <1>1
<1>4. next.year = y /\ next.month = mm /\ next.day = dd
  BY <1>2, DateFound
<1>5. Near(Sun[mm][dd], Sun[m][d]) /\ Near(Sun[12 + mm][dd], Sun[12 + m][d])
  BY <1>1, <1>2, SunMoves
<1>6. /\ Sun[m][d] \in Nat /\ Sun[12 + m][d] \in Nat
      /\ Sun[mm][dd] \in Nat /\ Sun[12 + mm][dd] \in Nat
  BY <1>1, <1>2, SunOfDate
<1>. DEFINE sleep == SleepMinutes(p, date)
            later == SleepMinutes(p, next)
<1>7. sleep \in Nat /\ later \in Nat /\ sleep <= later /\ later <= sleep + p.increment
  <2>1. /\ y \in 2000..2099 /\ IsDate(y, m, d) /\ IsDate(y, mm, dd)
        /\ DayOf(y, mm, dd) = DayOf(y, m, d) + 1
    BY <1>1, <1>2
  <2>. HIDE DEF date, next
  <2>. QED  BY <2>1, <1>3, <1>4, SleepMoves
<1>8. p.increment \in Nat /\ p.startdelay \in Nat /\ p.stopdelay \in Nat /\ DailyStep \in Nat
  BY ProgramAssumption, DailyAssumption
<1>9. /\ Rise(p, day) = Sun[date.month][date.day] + p.startdelay + sleep
      /\ Fall(p, day) = Sun[12 + date.month][date.day] - p.stopdelay - sleep
      /\ Rise(p, day + 1) = Sun[next.month][next.day] + p.startdelay + later
      /\ Fall(p, day + 1) = Sun[12 + next.month][next.day] - p.stopdelay - later
  BY DEF Rise, Fall
<1>. HIDE DEF date, next, sleep, later
<1>10. /\ Rise(p, day) = Sun[m][d] + p.startdelay + sleep
       /\ Fall(p, day) = Sun[12 + m][d] - p.stopdelay - sleep
       /\ Rise(p, day + 1) = Sun[mm][dd] + p.startdelay + later
       /\ Fall(p, day + 1) = Sun[12 + mm][dd] - p.stopdelay - later
  BY <1>3, <1>4, <1>9
<1>11. /\ Rise(p, day + 1) - Rise(p, day)
            \in -(DailyStep + p.increment)..DailyStep + p.increment
       /\ Fall(p, day + 1) - Fall(p, day)
            \in -(DailyStep + p.increment)..DailyStep + p.increment
  BY <1>5, <1>6, <1>7, <1>8, <1>10 DEF Near
<1>12. /\ WinterWindow(p, day, 1) = Rise(p, day)
       /\ WinterWindow(p, day, 2) = Fall(p, day)
  BY WinterWindowIs
<1>13. /\ WinterWindow(p, day + 1, 1) = Rise(p, day + 1)
       /\ WinterWindow(p, day + 1, 2) = Fall(p, day + 1)
  BY WinterWindowIs
<1>. QED
  BY <1>11, <1>12, <1>13

(* From day to day the window moves with the sun and the winter rest only:  *)
(* the length of the rest counts the days of the year without a gap, over   *)
(* the ends of the months and through leap years.                           *)
THEOREM SmoothCorrect == Spec => SmoothDays
<1>1. ASSUME TypeOK, OnChip, NextDay, BreakTime(Today').month # 1, NEW p \in Programs,
             NEW side \in {1, 2}
      PROVE  WinterWindow(p, Today', side) - WinterWindow(p, Today, side)
               \in -(DailyStep + p.increment)..DailyStep + p.increment
  <2>1. PICK day \in Nat : day = Today /\ 10957 <= day /\ day <= LastDay /\ day <= 47481
    BY <1>1, OnChipFacts, DaysAssumption DEF NextDay
  <2>2. now' = 24 * (IF day = LastDay THEN FirstDay ELSE day + 1)
    BY <1>1, <2>1 DEF NextDay
  <2>3. Today' = IF day = LastDay THEN FirstDay ELSE day + 1
    BY <2>1, <2>2, DaysAssumption DEF Today
  <2>4. BreakTime(FirstDay).month = 1
    BY FirstOfJanuary
  <2>5. Today' = day + 1 /\ day < 47481
    BY <1>1, <2>1, <2>3, <2>4, DaysAssumption
  <2>6. BreakTime(day + 1).month # 1
    BY <1>1, <2>5
  <2>. QED
    BY <2>1, <2>5, <2>6, WindowMoves
<1>2. TypeOK /\ OnChip /\ [Next]_vars
        => [NextDay /\ BreakTime(Today').month # 1 =>
              \A p \in Programs, side \in {1, 2} :
                WinterWindow(p, Today', side) - WinterWindow(p, Today, side)
                  \in -(DailyStep + p.increment)..DailyStep + p.increment]_vars
  BY <1>1
<1>. QED
  BY <1>2, OnChipCorrect, TypeCorrect, PTL DEF Spec, SmoothDays
================================================================================
