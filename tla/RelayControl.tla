----------------------------- MODULE RelayControl -----------------------------
(***************************************************************************)
(* The relay control of the terrarium controller (sketch avrduino/         *)
(* Terraduino2): the main switch, the channel switches, the programs and   *)
(* the cooldown counters decide, once per loop(), which lamps burn.        *)
(*                                                                         *)
(* One loop() is the cycle main -> switches -> timers -> rest: check_main, *)
(* check_switches and check_timers follow each other without a delay; all  *)
(* that takes time (sensor, alarm melody, shell, HTTP) is in "rest".       *)
(* Between any two steps the user may move a switch and the operating      *)
(* window of a program may open or close.                                  *)
(***************************************************************************)
EXTENDS Integers

CONSTANTS
    Channels,       \* the relays, relays[]
    Switched,       \* those of them that have a switch and a led, switches[]
    Programs,       \* program contents: [type: {"AUTO","MANUAL"}, cooldown: Nat]
    FactoryProgram, \* what ee_init writes into every program slot
    Edits,          \* which program content the sync may replace by which
    MainPositions,  \* where the main switch may stand (TRUE: automatic)
    MainMoves,      \* does the user move it while the controller runs?
    LoopTimes,      \* how long the rest of one loop() can take
    TimerInterval,  \* timerintervall
    BootTime,       \* millis() when setup() reaches check_main
    SetupTime,      \* from there to the check_timers of setup()
    Horizon,        \* elapsed times are counted up to here
    MaxResets       \* how many resets a behaviour has

(* SUNRISE and STATIC programs differ only in how operate() computes the   *)
(* window, so both are "AUTO" here.                                        *)
ProgramShape == [type: {"AUTO", "MANUAL"}, cooldown: Nat]

ASSUME ChannelsAssumption == Switched \subseteq Channels
ASSUME ProgramsAssumption ==
    /\ Programs \subseteq ProgramShape
    /\ FactoryProgram \in Programs
    /\ FactoryProgram.cooldown = 0
    /\ Edits \subseteq Programs \X Programs
ASSUME SwitchAssumption ==
    /\ MainPositions \subseteq BOOLEAN /\ MainPositions # {}
    /\ MainMoves \in BOOLEAN
ASSUME TimeAssumption ==
    /\ LoopTimes \subseteq Nat \ {0}
    /\ TimerInterval \in Nat
    /\ BootTime \in Nat
    /\ SetupTime \in Nat
    /\ Horizon \in Nat
    /\ SetupTime <= Horizon
    /\ \A p \in Programs : p.cooldown < Horizon
    /\ MaxResets \in Nat

VARIABLES
    pc,            \* which part of loop() runs next
    manual,        \* manual
    mainstatus,    \* mainstatus
    chan,          \* relay and led pins, state[], runstate[], cooldown[]
    prog,          \* the program of each channel, with its dbcooldown[]
    mainpin,       \* position of the main switch
    swpin,         \* positions of the channel switches
    window,        \* what operate() answers for each channel
    sinceSwitches, \* millis() - sttimer
    sinceTimers,   \* millis() - timer
    offFor,        \* history: how long the relay has been off, 0 while it is on
    resets         \* how many resets there have been

vars == <<pc, manual, mainstatus, chan, prog, mainpin, swpin, window,
          sinceSwitches, sinceTimers, offFor, resets>>

inputs == <<mainpin, swpin, window>>
brain  == <<manual, mainstatus>>
clocks == <<sinceSwitches, sinceTimers>>

ChannelShape == [relay: BOOLEAN, led: BOOLEAN, state: BOOLEAN,
                 runstate: BOOLEAN, cooldown: Nat]

TypeOK ==
    /\ pc \in {"main", "switches", "timers", "rest", "reset"}
    /\ manual \in BOOLEAN
    /\ mainstatus \in BOOLEAN
    /\ chan \in [Channels -> ChannelShape]
    /\ prog \in [Channels -> Programs]
    /\ mainpin \in MainPositions
    /\ swpin \in [Channels -> BOOLEAN]
    /\ window \in [Channels -> BOOLEAN]
    /\ sinceSwitches \in 0..Horizon
    /\ sinceTimers \in 0..Horizon
    /\ offFor \in [Channels -> 0..Horizon]
    /\ resets \in 0..MaxResets

-----------------------------------------------------------------------------
(* The cooldown counter: it starts at 0 when the lamp is switched off and   *)
(* the lamp may burn again when it has passed the configured cooldown.      *)

Later(time, d) == IF time + d < Horizon THEN time + d ELSE Horizon

(* Fault: stmoment and sttimer swapped in the subtraction.                  *)
AccrueSwapped(count, want, cd, dt) ==
    IF cd > 0 /\ ((want /\ count <= cd) \/ (~want /\ count < cd))
    THEN count - dt
    ELSE count

(* Elapsed time is added while the lamp waits, and while it is not wanted   *)
(* and the count is below the cooldown.                                     *)
Accrue(count, want, cd, dt) ==
    IF cd > 0 /\ ((want /\ count <= cd) \/ (~want /\ count < cd))
    THEN count + dt
    ELSE count

(* Fault: the remembered state is not dropped when the waiting is over.     *)
ExpiredNever(count, want, cd) == FALSE

(* The waiting is over: the remembered state is dropped, so that the relay  *)
(* is written in this very pass.                                            *)
Expired(count, want, cd) == cd > 0 /\ want /\ count > cd

Cooled(count, cd) == cd = 0 \/ count > cd

(* Fault: cooldown[channel] = 0 is missing.                                 *)
RestartNever(count, off) == count

Restart(count, off) == IF off THEN 0 ELSE count

(* Fault: check_switches does not look at init.                             *)
SwitchRewritesUnlessSame(c, ch, want, init) ==
    ch.state # swpin[c] \/ Expired(ch.cooldown, want, prog[c].cooldown)

(* Does check_switches write the led (and, by hand, the relay)?             *)
SwitchRewrites(c, ch, want, init) ==
    init \/ ch.state # swpin[c] \/ Expired(ch.cooldown, want, prog[c].cooldown)

(* One turn of the loop of check_switches.                                  *)
SwitchPass(c, ch, man, init, dt) ==
    LET hand    == man \/ prog[c].type = "MANUAL"
        want    == swpin[c] /\ hand
        cd      == prog[c].cooldown
        count   == Accrue(ch.cooldown, want, cd, dt)
        rewrite == SwitchRewrites(c, ch, want, init)
    IN  IF c \notin Switched THEN ch
        ELSE [relay    |-> IF rewrite /\ hand THEN want /\ Cooled(count, cd) ELSE ch.relay,
              led      |-> IF rewrite THEN want ELSE ch.led,
              state    |-> swpin[c],
              runstate |-> ch.runstate,
              cooldown |-> Restart(count, rewrite /\ hand /\ ~swpin[c])]

(* Fault: check_timers does not look at init.                               *)
TimerRewritesUnlessSame(c, ch, junk, init) ==
    IF c \in Switched
    THEN ch.runstate # window[c] \/ Expired(ch.cooldown, window[c], prog[c].cooldown)
    ELSE c \in junk

(* Does check_timers write the relay? runstate[] is one entry shorter than  *)
(* relays[]: for a relay without a switch the code compares with whatever   *)
(* is stored behind the array, and junk says how that turns out.            *)
TimerRewrites(c, ch, junk, init) ==
    init \/ IF c \in Switched
            THEN ch.runstate # window[c] \/ Expired(ch.cooldown, window[c], prog[c].cooldown)
            ELSE c \in junk

(* One turn of the loop of check_timers.                                    *)
TimerPass(c, ch, junk, init, dt) ==
    LET want    == window[c]
        cd      == prog[c].cooldown
        count   == Accrue(ch.cooldown, want, cd, dt)
        rewrite == TimerRewrites(c, ch, junk, init)
    IN  IF prog[c].type = "MANUAL" THEN ch
        ELSE [relay    |-> IF rewrite THEN want /\ Cooled(count, cd) ELSE ch.relay,
              led      |-> ch.led,
              state    |-> ch.state,
              runstate |-> want,
              cooldown |-> Restart(count, rewrite /\ ~want)]

(* What the history variable shows after the relays are written.            *)
OffTimes(newchan) == [c \in Channels |-> IF newchan[c].relay THEN 0 ELSE offFor[c]]

-----------------------------------------------------------------------------
(* setup(), as far as the relays are concerned: check_main(INIT) and with   *)
(* it check_switches and, in automatic mode, check_timers; then             *)
(* check_timers(INIT) once more. RAM is zero; the relay pin still has the   *)
(* level `latch`, which nothing but these passes changes.                   *)
BootChannel(c, latch, junk) ==
    LET blank == [relay |-> latch, led |-> FALSE, state |-> FALSE,
                  runstate |-> FALSE, cooldown |-> 0]
        afterSwitches == SwitchPass(c, blank, ~mainpin, TRUE, BootTime)
    IN  IF mainpin
        THEN TimerPass(c, TimerPass(c, afterSwitches, junk, TRUE, BootTime),
                       junk, TRUE, SetupTime)
        ELSE afterSwitches

Booted(latches) == [c \in Channels |-> BootChannel(c, latches[c], {})]

(* The rest of the state after setup(). In manual mode check_timers returns *)
(* before it sets timer, which is still 0.                                  *)
AfterSetup ==
    /\ pc' = "main"
    /\ manual' = ~mainpin
    /\ mainstatus' = mainpin
    /\ sinceSwitches' = SetupTime
    /\ sinceTimers' = IF mainpin THEN 0 ELSE Later(BootTime, SetupTime)

(* Power-on: the port registers are 0, and a relay pin that is 0 closes the *)
(* relay as soon as setup() makes the pin an output.                        *)
PowerOn == Booted([c \in Channels |-> TRUE])

Init ==
    /\ prog \in [Channels -> Programs]
    /\ mainpin \in MainPositions
    /\ swpin \in [Channels -> BOOLEAN]
    /\ window \in [Channels -> BOOLEAN]
    /\ pc = "main"
    /\ manual = ~mainpin
    /\ mainstatus = mainpin
    /\ sinceSwitches = SetupTime
    /\ sinceTimers = IF mainpin THEN 0 ELSE Later(BootTime, SetupTime)
    /\ chan = PowerOn
    /\ offFor = [c \in Channels |-> IF PowerOn[c].relay THEN 0 ELSE SetupTime]
    /\ resets = 0

-----------------------------------------------------------------------------
(* The parts of loop().                                                     *)

(* check_main(RUN): a moved main switch sets the mode and rewrites          *)
(* everything, the relays of check_timers only if the mode is automatic.    *)
CheckMain ==
    /\ pc = "main"
    /\ pc' = "switches"
    /\ IF mainpin = mainstatus
       THEN UNCHANGED <<manual, mainstatus, chan, offFor, clocks>>
       ELSE \E junk \in SUBSET (Channels \ Switched) :
            LET switched == [c \in Channels |->
                    SwitchPass(c, chan[c], ~mainpin, TRUE, sinceSwitches)]
            IN  /\ manual' = ~mainpin
                /\ mainstatus' = mainpin
                /\ chan' = IF mainpin
                           THEN [c \in Channels |->
                                   TimerPass(c, switched[c], junk, TRUE, sinceTimers)]
                           ELSE switched
                /\ offFor' = OffTimes(chan')
                /\ sinceSwitches' = 0
                /\ sinceTimers' = IF mainpin THEN 0 ELSE sinceTimers
    /\ UNCHANGED <<prog, inputs, resets>>

(* check_switches(RUN)                                                      *)
CheckSwitches ==
    /\ pc = "switches"
    /\ pc' = "timers"
    /\ chan' = [c \in Channels |->
                  SwitchPass(c, chan[c], manual, FALSE, sinceSwitches)]
    /\ offFor' = OffTimes(chan')
    /\ sinceSwitches' = 0
    /\ UNCHANGED <<brain, prog, inputs, sinceTimers, resets>>

(* check_timers(RUN): nothing in manual mode or before the interval is over *)
CheckTimers ==
    /\ pc = "timers"
    /\ pc' = "rest"
    /\ IF manual \/ sinceTimers <= TimerInterval
       THEN UNCHANGED <<chan, offFor, sinceTimers>>
       ELSE \E junk \in SUBSET (Channels \ Switched) :
            /\ chan' = [c \in Channels |->
                          TimerPass(c, chan[c], junk, FALSE, sinceTimers)]
            /\ offFor' = OffTimes(chan')
            /\ sinceTimers' = 0
    /\ UNCHANGED <<brain, prog, inputs, sinceSwitches, resets>>

(* check_air, check_shell, check_report, wdt_reset: time passes             *)
Rest(d) ==
    /\ pc = "rest"
    /\ pc' = "main"
    /\ sinceSwitches' = Later(sinceSwitches, d)
    /\ sinceTimers' = Later(sinceTimers, d)
    /\ offFor' = [c \in Channels |->
                    IF chan[c].relay THEN 0 ELSE Later(offFor[c], d)]
    /\ UNCHANGED <<brain, chan, prog, inputs, resets>>

(* djcheckmodified stored another program for the channel, read the         *)
(* database back and recomputed dbcooldown[]; no relay is touched.          *)
Reprogram(c, p) ==
    /\ pc = "rest"
    /\ <<prog[c], p>> \in Edits
    /\ prog' = [prog EXCEPT ![c] = p]
    /\ UNCHANGED <<pc, brain, chan, inputs, clocks, offFor, resets>>

Loop == CheckMain \/ CheckSwitches \/ CheckTimers \/ \E d \in LoopTimes : Rest(d)

-----------------------------------------------------------------------------
(* Resets.                                                                  *)

(* The r command: ee_init(INIT) writes the factory programs, and the reset  *)
(* follows without another pass over the relays.                            *)
FactoryReset ==
    /\ pc = "rest"
    /\ resets < MaxResets
    /\ pc' = "reset"
    /\ prog' = [c \in Channels |-> FactoryProgram]
    /\ UNCHANGED <<brain, chan, inputs, clocks, offFor, resets>>

(* software_Reset (midnight, the commands b and r) jumps to address 0: RAM  *)
(* is initialised again, the port registers keep their levels.              *)
Reboot ==
    /\ pc \in {"rest", "reset"}
    /\ resets < MaxResets
    /\ resets' = resets + 1
    /\ chan' = Booted([c \in Channels |-> chan[c].relay])
    /\ offFor' = [c \in Channels |->
                    IF chan'[c].relay THEN 0
                    ELSE IF chan[c].relay THEN SetupTime
                    ELSE Later(offFor[c], BootTime + SetupTime)]
    /\ AfterSetup
    /\ UNCHANGED <<prog, inputs>>

(* The watchdog or a power failure, at any point of the loop: the pins are  *)
(* inputs, and the relays open, until setup() is done with them.            *)
HardReset ==
    /\ resets < MaxResets
    /\ resets' = resets + 1
    /\ chan' = PowerOn
    /\ offFor' = [c \in Channels |-> IF PowerOn[c].relay THEN 0 ELSE SetupTime]
    /\ AfterSetup
    /\ UNCHANGED <<prog, inputs>>

-----------------------------------------------------------------------------
(* The user and the clock.                                                  *)
FlipMain ==
    /\ MainMoves
    /\ mainpin' \in MainPositions \ {mainpin}
    /\ UNCHANGED <<pc, brain, chan, prog, swpin, window, clocks, offFor, resets>>

FlipSwitch(c) ==
    /\ swpin' = [swpin EXCEPT ![c] = ~@]
    /\ UNCHANGED <<pc, brain, chan, prog, mainpin, window, clocks, offFor, resets>>

WindowEdge(c) ==
    /\ window' = [window EXCEPT ![c] = ~@]
    /\ UNCHANGED <<pc, brain, chan, prog, mainpin, swpin, clocks, offFor, resets>>

Next ==
    \/ CheckMain
    \/ CheckSwitches
    \/ CheckTimers
    \/ \E d \in LoopTimes : Rest(d)
    \/ \E c \in Channels, p \in Programs : Reprogram(c, p)
    \/ FactoryReset
    \/ Reboot
    \/ HardReset
    \/ FlipMain
    \/ \E c \in Switched : FlipSwitch(c)
    \/ \E c \in Channels : WindowEdge(c)

Spec == Init /\ [][Next]_vars

(* loop() is called again and again; after the r command the reset follows. *)
FairSpec == Spec /\ WF_vars(Loop) /\ WF_vars(pc = "reset" /\ Reboot)

-----------------------------------------------------------------------------
(* Correctness. BootSlack is what setup() counts for time nobody waited.    *)
BootSlack == 2 * BootTime + SetupTime

(* In manual mode a relay never burns a lamp whose switch was last read as  *)
(* released, however modes, programs and resets came before.                *)
ManualObeysSwitch ==
    manual => \A c \in Switched : chan[c].relay => chan[c].state

(* In manual mode the led shows the switch as it was last read.             *)
ManualLedShowsSwitch ==
    manual => \A c \in Switched : chan[c].led = chan[c].state

TurnsOn(c) == ~chan[c].relay /\ chan'[c].relay

(* The promise of the README: a lamp is off for its cooldown time before    *)
(* it is turned on again.                                                   *)
RestedFor(factor, c) ==
    \/ offFor[c] = Horizon
    \/ factor * offFor[c] + BootSlack >= prog'[c].cooldown
FullCooldown == [][\A c \in Channels : TurnsOn(c) => RestedFor(1, c)]_vars

(* What is left of it in automatic mode: both passes count the same time,   *)
(* so a lamp is off for at least half of its cooldown time.                 *)
HalfCooldown == [][\A c \in Switched : TurnsOn(c) => RestedFor(2, c)]_vars

(* And in manual mode, where only check_switches counts, all of it.         *)
ManualCooldown ==
    [][~mainpin => \A c \in Switched : TurnsOn(c) => RestedFor(1, c)]_vars

(* Why: while a lamp is off, the time it was credited and the time it will  *)
(* be credited by the next passes are covered by the time it was off, twice *)
(* for an automatic program, once in manual mode; and it burns only as the  *)
(* pass responsible for it remembers, so that it never loses the relay      *)
(* without a fresh count. (Main switch left alone, types not reprogrammed.) *)
Credited(c, coming, factor) ==
    \/ offFor[c] = Horizon
    \/ chan[c].cooldown + coming <= factor * offFor[c] + BootSlack

AutoAccount(c) ==
    IF prog[c].type = "AUTO"
    THEN IF chan[c].relay THEN chan[c].runstate
         ELSE Credited(c, sinceSwitches + sinceTimers, 2)
    ELSE IF chan[c].relay THEN chan[c].state
         ELSE Credited(c, sinceSwitches, 2)

ManualAccount(c) ==
    IF chan[c].relay THEN chan[c].state ELSE Credited(c, sinceSwitches, 1)

AutoLedger ==
    /\ ~manual /\ mainstatus
    /\ pc = "timers" => sinceSwitches = 0
    /\ pc # "reset" => \A c \in Switched : AutoAccount(c)

ManualLedger ==
    /\ manual /\ ~mainstatus
    /\ \A c \in Switched : ManualAccount(c)

SteadyLedger == IF mainpin THEN AutoLedger ELSE ManualLedger

(* check_timers leaves a lamp with an automatic program burning only while  *)
(* the program is in its operating window.                                  *)
TimersObeyWindow ==
    [][CheckTimers /\ sinceTimers' = 0 /\ sinceTimers > 0 =>
         \A c \in Switched : prog[c].type = "AUTO" /\ chan'[c].relay => window[c]]_vars

(* Why: in automatic mode a burning lamp with an automatic program is one   *)
(* check_timers remembers as running.                                       *)
AutoRemembered ==
    ~manual /\ pc # "reset" =>
        \A c \in Switched :
            prog[c].type = "AUTO" => (chan[c].relay => chan[c].runstate)

(* A lamp whose window stays open while the main switch stays on automatic  *)
(* is turned on again and again, or for good.                               *)
AutoRequested(c) == mainpin /\ window[c] /\ prog[c].type = "AUTO"
EventuallyOn ==
    \A c \in Channels : (<>[]AutoRequested(c)) => (<>[]chan[c].relay)

(* A lamp whose switch stays pressed in manual mode is turned on for good,  *)
(* one whose switch stays released is turned off for good.                  *)
ManualSettles ==
    \A c \in Switched :
        /\ (<>[](~mainpin /\ swpin[c])) => (<>[]chan[c].relay)
        /\ (<>[](~mainpin /\ ~swpin[c])) => (<>[]~chan[c].relay)
=============================================================================
