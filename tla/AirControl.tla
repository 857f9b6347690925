------------------------------ MODULE AirControl ------------------------------
(***************************************************************************)
(* The air condition: every 12 minutes check_air reads the thermometer,    *)
(* switches the fan by two thresholds and, while the big lamps are in      *)
(* their operating time, sounds an alarm if it is too cold.                *)
(*                                                                         *)
(* One loop() is the cycle air -> rest.  The temperature, the sensor and   *)
(* the operating time of the lamps change between any two steps.  A read   *)
(* that fails yields whatever is in the registers; for two seconds after a *)
(* read the library hands out its data again, broken ones as a measurement.*)
(***************************************************************************)
EXTENDS Integers

CONSTANTS
    Temps,         \* temperatures
    NoNumber,      \* a reading that is not a number: every comparison fails
    Settings,      \* contents of the settings, as far as the air is concerned
    LoopTimes,     \* how long the rest of one loop() can take
    AirInterval,   \* airtimerinterval
    Minute,        \* 60000
    AlarmWait,     \* alarmwait, in minutes
    BootTime,      \* millis() when setup() reaches check_air
    SetupTime,     \* from there to the first loop()
    Horizon,       \* elapsed times of the history are counted up to here
    MaxResets      \* how many resets a behaviour has

SettingsShape == [aircondition: BOOLEAN, tmin: Int, tmax: Int, alarm: Int]

(* ee_init: off, Tmin set twice and Tmax not at all, no alarm.              *)
Factory == {s \in Settings : ~s.aircondition /\ s.tmin = 0 /\ s.alarm = 0}

ASSUME ReadingAssumption ==
    /\ Temps \subseteq Int /\ Temps # {}
    /\ NoNumber \notin Int
    /\ Settings \subseteq SettingsShape
    /\ Factory # {}
ASSUME AirTimeAssumption ==
    /\ LoopTimes \subseteq Nat \ {0}
    /\ AirInterval \in Nat
    /\ BootTime \in Nat
    /\ SetupTime \in Nat
    /\ Horizon \in Nat
    /\ AirInterval < Horizon
    /\ MaxResets \in Nat
ASSUME AlarmAssumption ==
    /\ Minute \in Nat \ {0}
    /\ AlarmWait \in Nat
    /\ Minute * (AlarmWait + 1) <= Horizon

VARIABLES
    pc,          \* "air", "rest", or "reset" after the r command
    settings,    \* db.settings
    fan,         \* the pin of the air condition (TRUE: LOW, it runs)
    alarmpaused, \* alarmpaused
    sinceAir,    \* millis() - airtimer
    temp,        \* the temperature
    sensor,      \* does a reading succeed?
    outdated,    \* what a reading moments ago left is not the temperature
    open,        \* operate(0) || operate(1)
    ringing,     \* history: has check_air just sounded the alarm?
    steady,      \* history: how long nothing has changed and readings were right
    quiet,       \* history: time since boot, alarm or a pass outside the window
    resets

vars == <<pc, settings, fan, alarmpaused, sinceAir, temp, sensor, outdated, open,
          ringing, steady, quiet, resets>>

air     == <<fan, alarmpaused, sinceAir, ringing, quiet>>
weather == <<temp, sensor, open>>

TypeOK ==
    /\ pc \in {"air", "rest", "reset"}
    /\ settings \in Settings
    /\ fan \in BOOLEAN
    /\ alarmpaused \in Nat
    /\ sinceAir \in Nat
    /\ temp \in Temps
    /\ sensor \in BOOLEAN
    /\ outdated \in BOOLEAN
    /\ open \in BOOLEAN
    /\ ringing \in BOOLEAN
    /\ steady \in 0 .. Horizon
    /\ quiet \in 0 .. Horizon
    /\ resets \in 0 .. MaxResets

Later(time, d) == IF time + d < Horizon THEN time + d ELSE Horizon
-----------------------------------------------------------------------------
(* What temperature() may return, and whether that reading is bad. The      *)
(* library may hand out the data of the last one again, which are broken or *)
(* those of another temperature (old).                                      *)
IsReading(t, bad, old) ==
    \/ ~bad /\ sensor /\ t = temp
    \/ bad /\ (~sensor \/ old) /\ t \in Temps \cup {NoNumber}

Above(t, limit) == t # NoNumber /\ t > limit
Below(t, limit) == t # NoNumber /\ t < limit

(* Fault: the fan is not stopped again.                                     *)
FanStays(t, f) == f \/ (settings.aircondition /\ Above(t, settings.tmax))

(* The fan runs above Tmax, stands below Tmin, else goes on as it was. Hot  *)
(* is tested first.                                                         *)
FanAfter(t, f) ==
    \/ settings.aircondition /\ Above(t, settings.tmax)
    \/ f /\ ~(settings.aircondition /\ Below(t, settings.tmin))

(* alarmpaused / 60000 > alarmwait, in integers                             *)
Enough == Minute * (AlarmWait + 1)
Waited(paused) == paused >= Enough

Rings(t, paused) ==
    settings.alarm > 0 /\ open /\ Waited(paused) /\ Below(t, settings.alarm)

(* Fault: the counter goes on outside the operating time.                   *)
PausedThroughout(t, paused, dt) ==
    IF settings.alarm <= 0 \/ (Waited(paused) /\ ~Rings(t, paused)) THEN paused
    ELSE IF Rings(t, paused) THEN 0
    ELSE paused + dt

(* Fault: each pass starts the count again.                                 *)
PausedAnew(t, paused, dt) == IF settings.alarm <= 0 THEN paused ELSE dt
(* Fault: airtimer and airmoment swapped in the subtraction.                *)
PausedSwapped(t, paused, dt) ==
    IF settings.alarm <= 0 THEN paused
    ELSE IF ~open \/ Rings(t, paused) THEN 0
    ELSE IF Waited(paused) THEN paused
    ELSE paused - dt

(* The operating time without an alarm, counted until it is enough.         *)
PausedAfter(t, paused, dt) ==
    IF settings.alarm <= 0 THEN paused
    ELSE IF ~open \/ Rings(t, paused) THEN 0
    ELSE IF Waited(paused) THEN paused
    ELSE paused + dt

(* What the history shows of a pass.                                        *)
QuietAfter(t, paused, time) ==
    IF settings.alarm > 0 /\ (~open \/ Rings(t, paused)) THEN 0 ELSE time

(* setup() switches the fan off and passes once, with airtimer still 0.     *)
Booted(t) ==
    [fan         |-> FanAfter(t, FALSE),
     alarmpaused |-> PausedAfter(t, 0, BootTime),
     quiet       |-> Later(QuietAfter(t, 0, BootTime), SetupTime)]

Init ==
    /\ temp \in Temps
    /\ sensor \in BOOLEAN
    /\ open \in BOOLEAN
    /\ settings \in Settings
    /\ outdated \in BOOLEAN
    /\ \E t \in Temps \cup {NoNumber} :
         /\ IsReading(t, outdated, FALSE)
         /\ fan = Booted(t).fan
         /\ alarmpaused = Booted(t).alarmpaused
         /\ quiet = Booted(t).quiet
    /\ ringing = FALSE
    /\ pc = "air"
    /\ sinceAir = SetupTime
    /\ steady = 0
    /\ resets = 0
-----------------------------------------------------------------------------
(* check_air(RUN) once the interval is over: the thermometer, the fan, the  *)
(* alarm, and a new interval.                                               *)
Pass(t, bad) ==
    /\ pc = "air" /\ sinceAir > AirInterval
    /\ pc' = "rest"
    /\ IsReading(t, bad, outdated)
    /\ outdated' = ~sensor
    /\ fan' = FanAfter(t, fan)
    /\ alarmpaused' = PausedAfter(t, alarmpaused, sinceAir)
    /\ ringing' = Rings(t, alarmpaused)
    /\ sinceAir' = 0
    /\ steady' = IF bad THEN 0 ELSE steady
    /\ quiet' = QuietAfter(t, alarmpaused, quiet)
    /\ UNCHANGED <<settings, weather, resets>>

(* check_air(RUN) before that.                                              *)
TooEarly ==
    /\ pc = "air" /\ sinceAir <= AirInterval
    /\ pc' = "rest"
    /\ UNCHANGED <<settings, air, weather, outdated, steady, resets>>

(* The other parts of loop(): time passes.                                  *)
Rest(d) ==
    /\ pc = "rest"
    /\ pc' = "air"
    /\ sinceAir' = sinceAir + d
    /\ steady' = Later(steady, d)
    /\ quiet' = Later(quiet, d)
    /\ ringing' = FALSE
    /\ UNCHANGED <<settings, fan, alarmpaused, weather, outdated, resets>>

(* check_report and the s command read the thermometer, too, unless they    *)
(* get the data of the last reading.                                        *)
OtherReading ==
    /\ pc = "rest"
    /\ outdated' \in {~sensor, outdated}
    /\ UNCHANGED <<pc, settings, air, weather, steady, resets>>

(* The a command without temperatures: the setting, and nothing else. With  *)
(* temperatures the command is always refused.                              *)
TurnOff ==
    /\ pc = "rest"
    /\ [settings EXCEPT !.aircondition = FALSE] \in Settings
    /\ settings' = [settings EXCEPT !.aircondition = FALSE]
    /\ steady' = 0
    /\ UNCHANGED <<pc, air, weather, outdated, resets>>

(* A restart, whatever its reason. The fan stands still until the pass of   *)
(* setup() has read the thermometer.                                        *)
Restart(t, bad) ==
    /\ resets < MaxResets
    /\ resets' = resets + 1
    /\ pc' = "air"
    /\ IsReading(t, bad, FALSE)
    /\ outdated' = ~sensor
    /\ fan' = Booted(t).fan
    /\ alarmpaused' = Booted(t).alarmpaused
    /\ ringing' = FALSE
    /\ sinceAir' = SetupTime
    /\ steady' = 0
    /\ quiet' = Booted(t).quiet
    /\ UNCHANGED <<settings, weather>>

(* The r command writes the factory settings and restarts.                  *)
FactoryReset ==
    /\ pc = "rest"
    /\ resets < MaxResets
    /\ pc' = "reset"
    /\ settings' \in Factory
    /\ steady' = 0
    /\ UNCHANGED <<air, weather, outdated, resets>>

(* The terrarium.                                                           *)
Weather ==
    \/ /\ temp' \in Temps \ {temp}
       /\ steady' = 0
       /\ outdated' = TRUE
       /\ UNCHANGED <<sensor, open>>
    \/ /\ sensor' = ~sensor
       /\ UNCHANGED <<temp, open, outdated, steady>>
    \/ /\ open' = ~open
       /\ UNCHANGED <<temp, sensor, outdated, steady>>
ChangeWeather ==
    /\ Weather
    /\ UNCHANGED <<pc, settings, air, resets>>

SomePass == \E t \in Temps \cup {NoNumber}, bad \in BOOLEAN : Pass(t, bad)
SomeRestart == \E t \in Temps \cup {NoNumber}, bad \in BOOLEAN : Restart(t, bad)
Loop == SomePass \/ TooEarly \/ \E d \in LoopTimes : Rest(d)

Next ==
    \/ SomePass
    \/ TooEarly
    \/ \E d \in LoopTimes : Rest(d)
    \/ OtherReading
    \/ TurnOff
    \/ FactoryReset
    \/ SomeRestart
    \/ ChangeWeather

Spec == Init /\ [][Next]_vars

(* loop() is called again and again, and the r command ends in a restart.   *)
FairSpec == Spec /\ WF_vars(Loop) /\ WF_vars(pc = "reset" /\ SomeRestart)
-----------------------------------------------------------------------------
(* With the air condition on, a terrarium that has been too hot for longer  *)
(* than one interval has its fan running, one that has been too cold for so *)
(* long has it stand still: however restarts, alarms and failed readings    *)
(* came before. Too hot wins if the thresholds overlap.                     *)
FanRight ==
    settings.aircondition =>
        /\ temp > settings.tmax => fan
        /\ temp < settings.tmin /\ temp <= settings.tmax => ~fan
Responsive == pc = "rest" /\ steady > AirInterval => FanRight

(* An alarm comes only after more than AlarmWait minutes of operation since *)
(* the last alarm, the last restart and the last pass outside the operating *)
(* time, so that it never rings twice within that time.                     *)
AlarmRested == [][ringing' /\ ~ringing => quiet >= Enough]_vars

(* Why: the counter never runs ahead of the time it stands for.             *)
QuietLedger == quiet = Horizon \/ alarmpaused + sinceAir <= quiet

(* While the lamps stay in their operating time, the sensor works and it    *)
(* stays too cold, the alarm rings again and again.                         *)
ColdForGood == open /\ sensor /\ settings.alarm > 0 /\ temp < settings.alarm
AlarmsAgain == <>[]ColdForGood => []<>ringing
=============================================================================
