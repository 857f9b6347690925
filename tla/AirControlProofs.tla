--------------------------- MODULE AirControlProofs ---------------------------
(***************************************************************************)
(* Theorems about AirControl, for any temperatures, settings and times.    *)
(***************************************************************************)
EXTENDS AirControl, TLAPS

(* check_air never lets an interval go by: outside it, no more time than    *)
(* one interval has passed since the last pass.                             *)
OnTime == pc \in {"rest", "reset"} => sinceAir <= AirInterval

(* The fan has followed what did not change since the last pass.            *)
Followed == steady > sinceAir => FanRight

Inv == TypeOK /\ OnTime /\ Followed
-----------------------------------------------------------------------------
LEMMA LaterFacts ==
    ASSUME NEW time \in 0 .. Horizon, NEW d \in Nat
    PROVE  /\ Later(time, d) \in 0 .. Horizon
           /\ Later(time, d) <= time + d
           /\ Later(time, d) = Horizon \/ Later(time, d) = time + d
  BY AirTimeAssumption DEF Later

LEMMA SettingsFields ==
    ASSUME NEW s \in Settings
    PROVE  /\ s.aircondition \in BOOLEAN
           /\ s.tmin \in Int /\ s.tmax \in Int /\ s.alarm \in Int
  BY ReadingAssumption DEF SettingsShape

LEMMA EnoughNat == Enough \in Nat /\ Enough <= Horizon /\ Enough > 0
  <1>1. Minute \in Nat /\ Minute > 0 /\ AlarmWait + 1 \in Nat /\ AlarmWait + 1 > 0
    BY AlarmAssumption
  <1>2. \A m, w \in Nat : m > 0 /\ w > 0 => m * w \in Nat /\ m * w > 0
    OBVIOUS
  <1> QED BY <1>1, <1>2, AlarmAssumption DEF Enough

(* A good reading puts the fan right.                                       *)
LEMMA GoodReading ==
    ASSUME settings \in Settings, temp \in Temps, NEW f \in BOOLEAN
    PROVE  settings.aircondition =>
             /\ temp > settings.tmax => FanAfter(temp, f)
             /\ temp < settings.tmin /\ temp <= settings.tmax => ~FanAfter(temp, f)
  <1>1. temp \in Int /\ temp # NoNumber
    BY ReadingAssumption
  <1>2. settings.tmin \in Int /\ settings.tmax \in Int
    BY SettingsFields
  <1> QED BY <1>1, <1>2 DEF FanAfter, Above, Below

(* The types of what a pass and setup() yield.                              *)
LEMMA PassTypes ==
    ASSUME settings \in Settings, NEW t, NEW f \in BOOLEAN, NEW paused \in Nat, NEW dt \in Nat,
           NEW time \in 0 .. Horizon
    PROVE  /\ FanAfter(t, f) \in BOOLEAN
           /\ PausedAfter(t, paused, dt) \in Nat
           /\ QuietAfter(t, paused, time) \in 0 .. Horizon
           /\ Rings(t, paused) \in BOOLEAN
  <1>1. settings.aircondition \in BOOLEAN /\ settings.alarm \in Int
    BY SettingsFields
  <1>2. FanAfter(t, f) \in BOOLEAN
    BY <1>1 DEF FanAfter
  <1>3. PausedAfter(t, paused, dt) \in Nat
    BY <1>1 DEF PausedAfter
  <1>4. QuietAfter(t, paused, time) \in 0 .. Horizon
    BY AirTimeAssumption DEF QuietAfter
  <1>5. Rings(t, paused) \in BOOLEAN
    BY DEF Rings
  <1> QED BY <1>2, <1>3, <1>4, <1>5

LEMMA BootTypes ==
    ASSUME settings \in Settings, NEW t
    PROVE  /\ Booted(t).fan \in BOOLEAN
           /\ Booted(t).alarmpaused \in Nat
           /\ Booted(t).quiet \in 0 .. Horizon
  <1> DEFINE q == QuietAfter(t, 0, BootTime)
  <1>1. 0 \in Nat /\ BootTime \in Nat /\ SetupTime \in Nat /\ Horizon \in Nat
    BY AirTimeAssumption
  <1>2. FanAfter(t, FALSE) \in BOOLEAN
    BY SettingsFields DEF FanAfter
  <1>3. PausedAfter(t, 0, BootTime) \in Nat
    BY <1>1 DEF PausedAfter
  <1>4. q \in Nat
    BY <1>1 DEF QuietAfter
  <1>5. Later(q, SetupTime) \in 0 .. Horizon
    BY <1>1, <1>4 DEF Later
  <1> QED BY <1>2, <1>3, <1>5 DEF Booted

(* A restart starts the ledger again.                                       *)
LEMMA BootLedger ==
    ASSUME settings \in Settings, NEW t
    PROVE  LET b == Booted(t)
           IN  b.quiet = Horizon \/ b.alarmpaused + SetupTime <= b.quiet
  <1> DEFINE q == QuietAfter(t, 0, BootTime)
             p == PausedAfter(t, 0, BootTime)
  <1>1. BootTime \in Nat /\ SetupTime \in Nat /\ Horizon \in Nat
    BY AirTimeAssumption
  <1>2. settings.alarm \in Int
    BY SettingsFields
  <1>3. ~Waited(0) /\ ~Rings(t, 0)
    BY EnoughNat DEF Waited, Rings
  <1>4. q \in Nat /\ p \in Nat /\ p <= q
    BY <1>1, <1>2, <1>3 DEF QuietAfter, PausedAfter
  <1>5. Later(q, SetupTime) = Horizon \/ p + SetupTime <= Later(q, SetupTime)
    BY <1>1, <1>4 DEF Later
  <1> QED BY <1>5 DEF Booted
-----------------------------------------------------------------------------
LEMMA InitInv == Init => Inv /\ QuietLedger
  <1> SUFFICES ASSUME Init PROVE Inv /\ QuietLedger
    OBVIOUS
  <1>1. settings \in Settings /\ temp \in Temps
    BY DEF Init
  <1>2. PICK t \in Temps \cup {NoNumber} :
          fan = Booted(t).fan /\ alarmpaused = Booted(t).alarmpaused /\ quiet = Booted(t).quiet
    BY DEF Init
  <1>3. TypeOK
    <2>1. fan \in BOOLEAN /\ alarmpaused \in Nat /\ quiet \in 0 .. Horizon
      BY <1>1, <1>2, BootTypes
    <2>2. steady \in 0 .. Horizon /\ sinceAir \in Nat /\ resets \in 0 .. MaxResets
      BY AirTimeAssumption DEF Init
    <2> QED BY <1>1, <2>1, <2>2 DEF Init, TypeOK
  <1>4. OnTime /\ Followed
    BY AirTimeAssumption DEF Init, OnTime, Followed
  <1>5. QuietLedger
    BY <1>1, <1>2, BootLedger DEF Init, QuietLedger
  <1> QED BY <1>3, <1>4, <1>5 DEF Inv

(* The type invariant is inductive.                                         *)
LEMMA TypeStep == TypeOK /\ [Next]_vars => TypeOK'
  <1> SUFFICES ASSUME TypeOK, [Next]_vars PROVE TypeOK'
    OBVIOUS
  <1> USE DEF TypeOK
  <1>1. CASE SomePass
    <2>1. PICK t \in Temps \cup {NoNumber}, bad \in BOOLEAN : Pass(t, bad)
      BY <1>1 DEF SomePass
    <2>2. fan' \in BOOLEAN /\ alarmpaused' \in Nat /\ quiet' \in 0 .. Horizon /\ ringing' \in BOOLEAN
      BY <2>1, PassTypes DEF Pass
    <2> QED BY <2>1, <2>2, AirTimeAssumption DEF Pass, weather
  <1>2. CASE TooEarly
    BY <1>2 DEF TooEarly, air, weather
  <1>3. ASSUME NEW d \in LoopTimes, Rest(d) PROVE TypeOK'
    <2>1. d \in Nat
      BY AirTimeAssumption
    <2>2. sinceAir' \in Nat /\ steady' \in 0 .. Horizon /\ quiet' \in 0 .. Horizon
      BY <1>3, <2>1, LaterFacts DEF Rest
    <2> QED BY <1>3, <2>2 DEF Rest, weather
  <1>4. CASE OtherReading
    BY <1>4 DEF OtherReading, air, weather
  <1>5. CASE TurnOff
    BY <1>5, AirTimeAssumption DEF TurnOff, air, weather
  <1>6. CASE FactoryReset
    BY <1>6, AirTimeAssumption DEF FactoryReset, Factory, air, weather
  <1>7. CASE SomeRestart
    <2>1. PICK t \in Temps \cup {NoNumber}, bad \in BOOLEAN : Restart(t, bad)
      BY <1>7 DEF SomeRestart
    <2>2. fan' \in BOOLEAN /\ alarmpaused' \in Nat /\ quiet' \in 0 .. Horizon
      BY <2>1, BootTypes DEF Restart
    <2>3. /\ steady' \in 0 .. Horizon /\ sinceAir' \in Nat /\ resets' \in 0 .. MaxResets
          /\ pc' = "air"
      BY <2>1, AirTimeAssumption DEF Restart
    <2>4. outdated' \in BOOLEAN /\ ringing' \in BOOLEAN
      BY <2>1 DEF Restart
    <2> QED BY <2>1, <2>2, <2>3, <2>4 DEF Restart, weather
  <1>8. CASE ChangeWeather
    <2>1. temp' \in Temps /\ steady' \in 0 .. Horizon
      BY <1>8, AirTimeAssumption DEF ChangeWeather, Weather
    <2>2. sensor' \in BOOLEAN /\ open' \in BOOLEAN /\ outdated' \in BOOLEAN
      BY <1>8 DEF ChangeWeather, Weather
    <2> QED BY <1>8, <2>1, <2>2 DEF ChangeWeather, air
  <1>9. CASE UNCHANGED vars
    BY <1>9 DEF vars
  <1> QED BY <1>1, <1>2, <1>3, <1>4, <1>5, <1>6, <1>7, <1>8, <1>9 DEF Next

(* Every step keeps the fan right for what it has seen.                     *)
LEMMA FollowedStep == Inv /\ [Next]_vars => OnTime' /\ Followed'
  <1> SUFFICES ASSUME Inv, [Next]_vars PROVE OnTime' /\ Followed'
    OBVIOUS
  <1> USE AirTimeAssumption DEF Inv, TypeOK
  <1>1. CASE SomePass
    <2>1. PICK t \in Temps \cup {NoNumber}, bad \in BOOLEAN : Pass(t, bad)
      BY <1>1 DEF SomePass
    <2>2. OnTime'
      BY <2>1 DEF Pass, OnTime
    <2>3. CASE bad
      BY <2>1, <2>2, <2>3 DEF Pass, Followed
    <2>4. CASE ~bad
      <3>1. t = temp /\ temp' = temp /\ settings' = settings /\ fan' = FanAfter(temp, fan)
        BY <2>1, <2>4 DEF Pass, IsReading, weather
      <3>2. FanRight'
        BY <3>1, GoodReading DEF FanRight
      <3> QED BY <3>2, <2>2 DEF Followed
    <2> QED BY <2>2, <2>3, <2>4, <2>2
  <1>2. CASE TooEarly
    BY <1>2 DEF TooEarly, air, weather, OnTime, Followed, FanRight
  <1>3. ASSUME NEW d \in LoopTimes, Rest(d) PROVE OnTime' /\ Followed'
    <2>1. d \in Nat /\ steady' = Later(steady, d) /\ sinceAir' = sinceAir + d
      BY <1>3 DEF Rest
    <2>2. FanRight' <=> FanRight
      BY <1>3 DEF Rest, FanRight, weather
    <2>3. steady' > sinceAir' => steady > sinceAir
      BY <2>1, LaterFacts
    <2>4. OnTime'
      BY <1>3 DEF Rest, OnTime
    <2> QED BY <2>2, <2>3, <2>4 DEF Followed
  <1>4. CASE OtherReading
    BY <1>4 DEF OtherReading, air, weather, OnTime, Followed, FanRight
  <1>5. CASE TurnOff
    BY <1>5 DEF TurnOff, air, OnTime, Followed
  <1>6. CASE FactoryReset
    BY <1>6 DEF FactoryReset, air, OnTime, Followed
  <1>7. CASE SomeRestart
    BY <1>7 DEF SomeRestart, Restart, OnTime, Followed
  <1>8. CASE ChangeWeather
    BY <1>8 DEF ChangeWeather, Weather, air, OnTime, Followed, FanRight
  <1>9. CASE UNCHANGED vars
    BY <1>9 DEF vars, OnTime, Followed, FanRight
  <1> QED BY <1>1, <1>2, <1>3, <1>4, <1>5, <1>6, <1>7, <1>8, <1>9 DEF Next

(* A step that sounds the alarm is a pass that has waited enough.           *)
LEMMA LedgerStep ==
    TypeOK /\ QuietLedger /\ [Next]_vars =>
        QuietLedger' /\ (ringing' /\ ~ringing => quiet >= Enough)
  <1> DEFINE Rested == ringing' /\ ~ringing => quiet >= Enough
  <1> SUFFICES ASSUME TypeOK, QuietLedger, [Next]_vars PROVE QuietLedger' /\ Rested
    OBVIOUS
  <1> USE AirTimeAssumption DEF TypeOK
  <1>1. CASE SomePass
    <2>1. PICK t \in Temps \cup {NoNumber}, bad \in BOOLEAN : Pass(t, bad)
      BY <1>1 DEF SomePass
    <2>2. settings.alarm \in Int
      BY SettingsFields
    <2>3. QuietLedger'
      BY <2>1, <2>2 DEF Pass, QuietLedger, PausedAfter, QuietAfter
    <2>4. ringing' => alarmpaused >= Enough
      BY <2>1 DEF Pass, Rings, Waited
    <2>5. Rested
      BY <2>4, EnoughNat DEF QuietLedger
    <2> QED BY <2>3, <2>5
  <1>2. CASE TooEarly
    BY <1>2 DEF TooEarly, air, QuietLedger
  <1>3. ASSUME NEW d \in LoopTimes, Rest(d) PROVE QuietLedger' /\ Rested
    <2>1. d \in Nat /\ quiet' = Later(quiet, d) /\ sinceAir' = sinceAir + d
      BY <1>3 DEF Rest
    <2>2. alarmpaused' = alarmpaused /\ ringing' = FALSE
      BY <1>3 DEF Rest
    <2>3. QuietLedger'
      BY <2>1, <2>2 DEF QuietLedger, Later
    <2> QED BY <2>2, <2>3
  <1>4. CASE OtherReading
    BY <1>4 DEF OtherReading, air, QuietLedger
  <1>5. CASE TurnOff
    BY <1>5 DEF TurnOff, air, QuietLedger
  <1>6. CASE FactoryReset
    BY <1>6 DEF FactoryReset, air, QuietLedger
  <1>7. CASE SomeRestart
    <2>1. PICK t \in Temps \cup {NoNumber}, bad \in BOOLEAN : Restart(t, bad)
      BY <1>7 DEF SomeRestart
    <2> QED BY <2>1, BootLedger DEF Restart, QuietLedger
  <1>8. CASE ChangeWeather
    BY <1>8 DEF ChangeWeather, air, QuietLedger
  <1>9. CASE UNCHANGED vars
    BY <1>9 DEF vars, QuietLedger
  <1> QED BY <1>1, <1>2, <1>3, <1>4, <1>5, <1>6, <1>7, <1>8, <1>9 DEF Next
-----------------------------------------------------------------------------
(* The type invariant.                                                      *)
THEOREM TypeCorrect == Spec => []TypeOK
  <1>1. Init => TypeOK
    BY InitInv DEF Inv
  <1> QED BY <1>1, TypeStep, PTL DEF Spec

(* With the air condition on, the fan has followed the temperature after    *)
(* one interval, whatever failed, restarted or rang before.                 *)
THEOREM ResponsiveCorrect == Spec => []Responsive
  <1>1. Inv /\ [Next]_vars => Inv'
    BY TypeStep, FollowedStep DEF Inv
  <1>2. Inv => Responsive
    BY AirTimeAssumption DEF Inv, TypeOK, OnTime, Followed, Responsive
  <1> QED BY InitInv, <1>1, <1>2, PTL DEF Spec

(* The counter of the alarm never runs ahead of the time it stands for.     *)
THEOREM LedgerCorrect == Spec => []QuietLedger
  <1>1. Init => QuietLedger
    BY InitInv
  <1> QED BY <1>1, TypeCorrect, LedgerStep, PTL DEF Spec

(* The alarm does not ring twice within AlarmWait minutes of operation.     *)
THEOREM AlarmRestedCorrect == Spec => AlarmRested
  <1>1. TypeOK /\ QuietLedger /\ [Next]_vars => [ringing' /\ ~ringing => quiet >= Enough]_vars
    BY LedgerStep
  <1> QED BY <1>1, TypeCorrect, LedgerCorrect, PTL DEF Spec, AlarmRested
=============================================================================
