-------------------------- MODULE RelayControlProofs --------------------------
(***************************************************************************)
(* Theorems about RelayControl, for any channels, programs and times.      *)
(***************************************************************************)
EXTENDS RelayControl, TLAPS

(* Accrue adds the elapsed time or nothing.                                 *)
LEMMA AccrueBound ==
    ASSUME NEW count \in Nat, NEW want \in BOOLEAN, NEW cd \in Nat, NEW dt \in Nat
    PROVE  /\ Accrue(count, want, cd, dt) \in Nat
           /\ Accrue(count, want, cd, dt) >= count
           /\ Accrue(count, want, cd, dt) <= count + dt
  BY DEF Accrue

(* Programs have the shape of a program.                                    *)
LEMMA ProgramFields ==
    ASSUME NEW p \in Programs
    PROVE  p.type \in {"AUTO", "MANUAL"} /\ p.cooldown \in Nat /\ p.cooldown < Horizon
  BY ProgramsAssumption, TimeAssumption DEF ProgramShape

(* What one pass of check_switches over a channel yields.                   *)
LEMMA SwitchPassFacts ==
    ASSUME prog \in [Channels -> Programs], swpin \in [Channels -> BOOLEAN],
           NEW c \in Channels, NEW ch \in ChannelShape, NEW man \in BOOLEAN,
           NEW init \in BOOLEAN, NEW dt \in Nat
    PROVE  LET r    == SwitchPass(c, ch, man, init, dt)
               cd   == prog[c].cooldown
               hand == man \/ prog[c].type = "MANUAL"
           IN  /\ r \in ChannelShape
               /\ r.runstate = ch.runstate
               /\ r.cooldown <= ch.cooldown + dt
               /\ c \notin Switched => r = ch
               /\ ~hand => r.relay = ch.relay
               \* the relay follows the switch as it was read
               /\ c \in Switched /\ hand /\ (init \/ (ch.relay => ch.state))
                    => (r.relay => r.state)
               /\ c \in Switched /\ hand /\ (init \/ ch.led = ch.state)
                    => r.led = r.state
               \* a lamp is turned on only when it is cooled down
               /\ ~ch.relay /\ r.relay => cd = 0 \/ r.cooldown > cd
               /\ c \in Switched /\ hand /\ init /\ r.relay
                    => cd = 0 \/ r.cooldown > cd
  <1> DEFINE cd == prog[c].cooldown
             hand == man \/ prog[c].type = "MANUAL"
             want == swpin[c] /\ hand
             count == Accrue(ch.cooldown, want, cd, dt)
             rewrite == SwitchRewrites(c, ch, want, init)
             rel == IF rewrite /\ hand THEN want /\ Cooled(count, cd) ELSE ch.relay
             led == IF rewrite THEN want ELSE ch.led
             cool == Restart(count, rewrite /\ hand /\ ~swpin[c])
             r == SwitchPass(c, ch, man, init, dt)
  <1>1. /\ cd \in Nat
        /\ swpin[c] \in BOOLEAN
        /\ ch.relay \in BOOLEAN /\ ch.led \in BOOLEAN /\ ch.state \in BOOLEAN
        /\ ch.runstate \in BOOLEAN /\ ch.cooldown \in Nat
    BY ProgramFields DEF ChannelShape
  <1>2. count \in Nat /\ count <= ch.cooldown + dt
    BY <1>1, AccrueBound
  <1>3. CASE c \notin Switched
    <2>1. r = ch
      BY <1>3 DEF SwitchPass
    <2> QED
      BY <1>1, <1>3, <2>1
  <1>4. CASE c \in Switched
    <2>1. r = [relay |-> rel, led |-> led, state |-> swpin[c],
               runstate |-> ch.runstate, cooldown |-> cool]
      BY <1>4 DEF SwitchPass
    <2>2. rel \in BOOLEAN /\ led \in BOOLEAN
      BY <1>1
    <2>3. cool \in Nat /\ cool <= ch.cooldown + dt
      BY <1>1, <1>2 DEF Restart
    <2>4. hand /\ (init \/ (ch.relay => ch.state)) => (rel => swpin[c])
      BY <1>1 DEF SwitchRewrites
    <2>5. hand /\ (init \/ ch.led = ch.state) => led = swpin[c]
      BY <1>1 DEF SwitchRewrites
    <2>6. (~ch.relay \/ (hand /\ init)) /\ rel => cd = 0 \/ cool > cd
      BY <1>1, <1>2 DEF Cooled, Restart, SwitchRewrites
    <2>7. ~hand => rel = ch.relay
      OBVIOUS
    <2> HIDE DEF rel, led, cool, rewrite, want, count, hand, cd, r
    <2>8. /\ r \in ChannelShape
          /\ r.relay = rel /\ r.led = led /\ r.state = swpin[c]
          /\ r.runstate = ch.runstate /\ r.cooldown = cool
      BY <1>1, <2>1, <2>2, <2>3 DEF ChannelShape
    <2> QED
      BY <1>4, <2>3, <2>4, <2>5, <2>6, <2>7, <2>8 DEF hand, cd, r
  <1> QED
    BY <1>3, <1>4

(* What one pass of check_timers over a channel yields.                     *)
LEMMA TimerPassFacts ==
    ASSUME prog \in [Channels -> Programs], window \in [Channels -> BOOLEAN],
           NEW c \in Channels, NEW ch \in ChannelShape, NEW junk,
           NEW init \in BOOLEAN, NEW dt \in Nat
    PROVE  LET r    == TimerPass(c, ch, junk, init, dt)
               cd   == prog[c].cooldown
               auto == prog[c].type = "AUTO"
           IN  /\ r \in ChannelShape
               /\ r.led = ch.led /\ r.state = ch.state
               /\ r.cooldown <= ch.cooldown + dt
               /\ ~auto => r = ch
               /\ auto => r.runstate = window[c]
               \* the relay follows the window
               /\ auto /\ (init \/ (c \in Switched /\ (ch.relay => ch.runstate)))
                    => (r.relay => r.runstate)
               \* a lamp is turned on only when it is cooled down
               /\ ~ch.relay /\ r.relay => cd = 0 \/ r.cooldown > cd
               /\ auto /\ init /\ r.relay => cd = 0 \/ r.cooldown > cd
  <1> DEFINE cd == prog[c].cooldown
             auto == prog[c].type = "AUTO"
             want == window[c]
             count == Accrue(ch.cooldown, want, cd, dt)
             rewrite == TimerRewrites(c, ch, junk, init)
             rel == IF rewrite THEN want /\ Cooled(count, cd) ELSE ch.relay
             cool == Restart(count, rewrite /\ ~want)
             r == TimerPass(c, ch, junk, init, dt)
  <1>1. /\ cd \in Nat
        /\ want \in BOOLEAN
        /\ ch.relay \in BOOLEAN /\ ch.led \in BOOLEAN /\ ch.state \in BOOLEAN
        /\ ch.runstate \in BOOLEAN /\ ch.cooldown \in Nat
        /\ auto <=> prog[c].type # "MANUAL"
    BY ProgramFields DEF ChannelShape
  <1>2. count \in Nat /\ count <= ch.cooldown + dt
    BY <1>1, AccrueBound
  <1>3. CASE ~auto
    <2>1. r = ch
      BY <1>1, <1>3 DEF TimerPass
    <2> QED
      BY <1>1, <1>3, <2>1
  <1>4. CASE auto
    <2>1. r = [relay |-> rel, led |-> ch.led, state |-> ch.state,
               runstate |-> want, cooldown |-> cool]
      BY <1>1, <1>4 DEF TimerPass
    <2>2. rel \in BOOLEAN
      BY <1>1
    <2>3. cool \in Nat /\ cool <= ch.cooldown + dt
      BY <1>1, <1>2 DEF Restart
    <2>4. init \/ (c \in Switched /\ (ch.relay => ch.runstate)) => (rel => want)
      BY <1>1 DEF TimerRewrites
    <2>5. (~ch.relay \/ init) /\ rel => cd = 0 \/ cool > cd
      BY <1>1, <1>2 DEF Cooled, Restart, TimerRewrites
    <2> HIDE DEF rel, cool, rewrite, count, cd, r
    <2>6. /\ r \in ChannelShape
          /\ r.relay = rel /\ r.led = ch.led /\ r.state = ch.state
          /\ r.runstate = want /\ r.cooldown = cool
      BY <1>1, <2>1, <2>2, <2>3 DEF ChannelShape
    <2> QED
      BY <1>4, <2>3, <2>4, <2>5, <2>6 DEF cd, r
  <1> QED
    BY <1>3, <1>4

(* A lamp that a pass of loop() turns off starts to count at 0.             *)
LEMMA SwitchOff ==
    ASSUME prog \in [Channels -> Programs], swpin \in [Channels -> BOOLEAN],
           NEW c \in Channels, NEW ch \in ChannelShape, NEW man \in BOOLEAN,
           NEW dt \in Nat, ch.relay, ch.state,
           ~SwitchPass(c, ch, man, FALSE, dt).relay
    PROVE  SwitchPass(c, ch, man, FALSE, dt).cooldown = 0
  <1> DEFINE cd == prog[c].cooldown
             hand == man \/ prog[c].type = "MANUAL"
             want == swpin[c] /\ hand
             count == Accrue(ch.cooldown, want, cd, dt)
             rewrite == SwitchRewrites(c, ch, want, FALSE)
             rel == IF rewrite /\ hand THEN want /\ Cooled(count, cd) ELSE ch.relay
             led == IF rewrite THEN want ELSE ch.led
             cool == Restart(count, rewrite /\ hand /\ ~swpin[c])
             r == SwitchPass(c, ch, man, FALSE, dt)
  <1>1. cd \in Nat /\ swpin[c] \in BOOLEAN /\ ch.cooldown \in Nat /\ ch.state \in BOOLEAN
    BY ProgramFields DEF ChannelShape
  <1>2. c \in Switched
    BY DEF SwitchPass
  <1>3. r = [relay |-> rel, led |-> led, state |-> swpin[c],
             runstate |-> ch.runstate, cooldown |-> cool]
    BY <1>2 DEF SwitchPass
  <1>4. ch.cooldown > cd => count = ch.cooldown
    BY <1>1 DEF Accrue
  <1>5. ~rel => cool = 0
    BY <1>1, <1>4 DEF Cooled, Expired, SwitchRewrites, Restart
  <1> HIDE DEF rel, led, cool, r
  <1>6. r.relay = rel /\ r.cooldown = cool
    BY <1>3
  <1>7. ~r.relay
    BY DEF r
  <1>8. r.cooldown = 0
    BY <1>5, <1>6, <1>7
  <1> QED
    BY <1>8 DEF r

(* The same for check_timers.                                               *)
LEMMA TimerOff ==
    ASSUME prog \in [Channels -> Programs], window \in [Channels -> BOOLEAN],
           NEW c \in Switched, NEW ch \in ChannelShape, NEW junk,
           NEW dt \in Nat, ch.relay, ch.runstate,
           ~TimerPass(c, ch, junk, FALSE, dt).relay
    PROVE  TimerPass(c, ch, junk, FALSE, dt).cooldown = 0
  <1> DEFINE cd == prog[c].cooldown
             want == window[c]
             count == Accrue(ch.cooldown, want, cd, dt)
             rewrite == TimerRewrites(c, ch, junk, FALSE)
             rel == IF rewrite THEN want /\ Cooled(count, cd) ELSE ch.relay
             cool == Restart(count, rewrite /\ ~want)
             r == TimerPass(c, ch, junk, FALSE, dt)
  <1>0. c \in Channels
    BY ChannelsAssumption
  <1>1. cd \in Nat /\ want \in BOOLEAN /\ ch.cooldown \in Nat /\ ch.runstate \in BOOLEAN
    BY <1>0, ProgramFields DEF ChannelShape
  <1>2. prog[c].type # "MANUAL"
    BY DEF TimerPass
  <1>3. r = [relay |-> rel, led |-> ch.led, state |-> ch.state,
             runstate |-> want, cooldown |-> cool]
    BY <1>2 DEF TimerPass
  <1>4. ch.cooldown > cd => count = ch.cooldown
    BY <1>1 DEF Accrue
  <1>5. ~rel => cool = 0
    BY <1>1, <1>4 DEF Cooled, Expired, TimerRewrites, Restart
  <1> HIDE DEF rel, cool, r
  <1>6. r.relay = rel /\ r.cooldown = cool
    BY <1>3
  <1>7. ~r.relay
    BY DEF r
  <1>8. r.cooldown = 0
    BY <1>5, <1>6, <1>7
  <1> QED
    BY <1>8 DEF r

(* What setup() leaves behind for a channel.                                *)
LEMMA BootFacts ==
    ASSUME prog \in [Channels -> Programs], swpin \in [Channels -> BOOLEAN],
           window \in [Channels -> BOOLEAN], mainpin \in BOOLEAN,
           NEW c \in Channels, NEW latch \in BOOLEAN, NEW junk
    PROVE  LET b    == BootChannel(c, latch, junk)
               cd   == prog[c].cooldown
               hand == ~mainpin \/ prog[c].type = "MANUAL"
           IN  /\ b \in ChannelShape
               /\ b.cooldown <= BootSlack
               /\ c \in Switched /\ b.relay => cd = 0 \/ b.cooldown > cd
               /\ c \in Switched /\ hand => (b.relay => b.state)
               /\ c \in Switched /\ ~mainpin => b.led = b.state
               /\ ~hand => (b.relay => b.runstate)
  <1> DEFINE cd == prog[c].cooldown
             hand == ~mainpin \/ prog[c].type = "MANUAL"
             blank == [relay |-> latch, led |-> FALSE, state |-> FALSE,
                       runstate |-> FALSE, cooldown |-> 0]
             s == SwitchPass(c, blank, ~mainpin, TRUE, BootTime)
             t1 == TimerPass(c, s, junk, TRUE, BootTime)
             t2 == TimerPass(c, t1, junk, TRUE, SetupTime)
             b == BootChannel(c, latch, junk)
  <1>1. BootTime \in Nat /\ SetupTime \in Nat /\ cd \in Nat
    BY ProgramFields, TimeAssumption
  <1>2. blank \in ChannelShape /\ blank.cooldown = 0
    BY DEF ChannelShape
  <1>3. (~mainpin) \in BOOLEAN
    OBVIOUS
  <1> HIDE DEF blank
  <1>4. /\ s \in ChannelShape /\ s.cooldown \in Nat
        /\ s.cooldown <= BootTime
        /\ c \in Switched /\ hand => (s.relay => s.state)
        /\ c \in Switched /\ ~mainpin => s.led = s.state
        /\ c \in Switched /\ hand /\ s.relay => cd = 0 \/ s.cooldown > cd
    <2>1. s.cooldown <= blank.cooldown + BootTime
      BY <1>1, <1>2, <1>3, SwitchPassFacts, Zenon
    <2>2. s \in ChannelShape
      BY <1>1, <1>2, <1>3, SwitchPassFacts, Zenon
    <2>3. /\ c \in Switched /\ hand => (s.relay => s.state)
          /\ c \in Switched /\ hand /\ s.relay => cd = 0 \/ s.cooldown > cd
          /\ c \in Switched /\ ~mainpin => s.led = s.state
      BY <1>1, <1>2, <1>3, SwitchPassFacts
    <2> HIDE DEF s
    <2> QED
      BY <1>1, <1>2, <2>1, <2>2, <2>3 DEF ChannelShape
  <1> HIDE DEF s
  <1>5. CASE ~mainpin
    <2>1. b = s
      BY <1>5 DEF BootChannel, s, blank
    <2> HIDE DEF b
    <2> QED
      BY <1>1, <1>4, <1>5, <2>1 DEF BootSlack, b
  <1>6. CASE mainpin
    <2>1. b = t2
      BY <1>6 DEF BootChannel, s, blank
    <2>2. t1 \in ChannelShape /\ t1.cooldown <= s.cooldown + BootTime
      BY <1>1, <1>4, TimerPassFacts
    <2>3. prog[c].type = "MANUAL" => t1 = s
      BY DEF TimerPass
    <2> HIDE DEF t1
    <2>4. t1.cooldown \in Nat
      BY <2>2 DEF ChannelShape
    <2>5. t2 \in ChannelShape /\ t2.cooldown <= t1.cooldown + SetupTime
      BY <1>1, <2>2, TimerPassFacts
    <2>6. prog[c].type = "MANUAL" => t2 = t1
      BY DEF TimerPass
    <2>7. /\ prog[c].type = "AUTO" => (t2.relay => t2.runstate)
          /\ prog[c].type = "AUTO" /\ t2.relay => cd = 0 \/ t2.cooldown > cd
      BY <1>1, <2>2, TimerPassFacts
    <2>8. prog[c].type \in {"AUTO", "MANUAL"}
      BY ProgramFields
    <2> HIDE DEF t2, b
    <2>9. t2.cooldown \in Nat
      BY <2>5 DEF ChannelShape
    <2>10. t2.cooldown <= BootSlack
      BY <1>1, <1>4, <2>2, <2>4, <2>5, <2>9 DEF BootSlack
    <2> QED
      BY <1>4, <1>6, <2>1, <2>3, <2>5, <2>6, <2>7, <2>8, <2>10 DEF b
  <1> QED
    BY <1>5, <1>6

(* Counting up to Horizon stays there, and never counts too much.           *)
LEMMA LaterFacts ==
    ASSUME NEW time \in 0..Horizon, NEW d \in Nat
    PROVE  /\ Later(time, d) \in 0..Horizon
           /\ Later(time, d) <= time + d
           /\ Later(time, d) = Horizon \/ Later(time, d) = time + d
           /\ time = Horizon => Later(time, d) = Horizon
  BY TimeAssumption DEF Later


-----------------------------------------------------------------------------
(* Type correctness.                                                        *)

(* A pass over a channel yields a channel.                                  *)
LEMMA PassType ==
    ASSUME TypeOK, NEW man \in BOOLEAN, NEW init \in BOOLEAN, NEW dt \in Nat,
           NEW c \in Channels, NEW ch \in ChannelShape, NEW junk
    PROVE  /\ SwitchPass(c, ch, man, init, dt) \in ChannelShape
           /\ TimerPass(c, ch, junk, init, dt) \in ChannelShape
  <1>1. prog \in [Channels -> Programs] /\ swpin \in [Channels -> BOOLEAN]
        /\ window \in [Channels -> BOOLEAN]
    BY DEF TypeOK
  <1> QED
    BY <1>1, SwitchPassFacts, TimerPassFacts

(* So does setup().                                                         *)
LEMMA BootType ==
    ASSUME prog \in [Channels -> Programs], swpin \in [Channels -> BOOLEAN],
           window \in [Channels -> BOOLEAN], mainpin \in BOOLEAN,
           NEW latches \in [Channels -> BOOLEAN]
    PROVE  Booted(latches) \in [Channels -> ChannelShape]
  <1>1. \A c \in Channels : BootChannel(c, latches[c], {}) \in ChannelShape
    BY BootFacts
  <1> QED
    BY <1>1 DEF Booted

(* The type invariant of the sketch's variables.                            *)
THEOREM TypeCorrect == Spec => []TypeOK
  <1>1. Init => TypeOK
    <2> SUFFICES ASSUME Init PROVE TypeOK
      OBVIOUS
    <2>1. mainpin \in BOOLEAN
      BY SwitchAssumption DEF Init
    <2>2. PowerOn \in [Channels -> ChannelShape]
      BY <2>1, BootType DEF Init, PowerOn
    <2>3. Later(BootTime, SetupTime) \in 0..Horizon
      BY TimeAssumption DEF Later
    <2> QED
      BY <2>1, <2>2, <2>3, TimeAssumption, SwitchAssumption DEF Init, TypeOK
  <1>2. TypeOK /\ [Next]_vars => TypeOK'
    <2> SUFFICES ASSUME TypeOK, [Next]_vars PROVE TypeOK'
      OBVIOUS
    <2>0. /\ mainpin \in BOOLEAN /\ mainstatus \in BOOLEAN /\ manual \in BOOLEAN
          /\ (~mainpin) \in BOOLEAN
          /\ sinceSwitches \in Nat /\ sinceTimers \in Nat /\ 0 \in 0..Horizon
          /\ SetupTime \in 0..Horizon
          /\ chan \in [Channels -> ChannelShape]
          /\ prog \in [Channels -> Programs]
          /\ swpin \in [Channels -> BOOLEAN] /\ window \in [Channels -> BOOLEAN]
      BY SwitchAssumption, TimeAssumption DEF TypeOK
    <2>off. ASSUME NEW f \in [Channels -> ChannelShape]
            PROVE  OffTimes(f) \in [Channels -> 0..Horizon]
      BY <2>0 DEF OffTimes, TypeOK
    <2>1. CASE CheckMain
      <3>1. CASE mainpin = mainstatus
        BY <2>1, <3>1 DEF CheckMain, TypeOK, inputs, clocks
      <3>2. CASE mainpin # mainstatus
        <4>1. PICK junk \in SUBSET (Channels \ Switched) :
                LET switched == [c \in Channels |->
                        SwitchPass(c, chan[c], ~mainpin, TRUE, sinceSwitches)]
                IN  /\ manual' = ~mainpin
                    /\ mainstatus' = mainpin
                    /\ chan' = IF mainpin
                               THEN [c \in Channels |->
                                       TimerPass(c, switched[c], junk, TRUE, sinceTimers)]
                               ELSE switched
                    /\ offFor' = OffTimes(chan')
                    /\ sinceSwitches' = 0
                    /\ sinceTimers' = IF mainpin THEN 0 ELSE sinceTimers
          BY <2>1, <3>2 DEF CheckMain
        <4> DEFINE s(c) == SwitchPass(c, chan[c], ~mainpin, TRUE, sinceSwitches)
        <4>2. \A c \in Channels :
                /\ s(c) \in ChannelShape
                /\ TimerPass(c, s(c), junk, TRUE, sinceTimers) \in ChannelShape
          <5>1. \A c \in Channels : s(c) \in ChannelShape
            BY <2>0, PassType
          <5> HIDE DEF s
          <5> QED
            BY <2>0, <5>1, PassType
        <4>3. chan' \in [Channels -> ChannelShape]
          BY <4>1, <4>2
        <4>4. offFor' \in [Channels -> 0..Horizon]
          BY <4>1, <4>3, <2>off
        <4> QED
          BY <2>0, <2>1, <4>1, <4>3, <4>4 DEF CheckMain, TypeOK, inputs
      <3> QED
        BY <3>1, <3>2
    <2>2. CASE CheckSwitches
      <3>0. \A c \in Channels :
              SwitchPass(c, chan[c], manual, FALSE, sinceSwitches) \in ChannelShape
        BY <2>0, PassType
      <3>1. chan' \in [Channels -> ChannelShape]
        BY <2>2, <3>0 DEF CheckSwitches
      <3>2. offFor' \in [Channels -> 0..Horizon]
        BY <2>2, <3>1, <2>off DEF CheckSwitches
      <3> QED
        BY <2>0, <2>2, <3>1, <3>2 DEF CheckSwitches, TypeOK, inputs, brain
    <2>3. CASE CheckTimers
      <3>1. CASE manual \/ sinceTimers <= TimerInterval
        BY <2>3, <3>1 DEF CheckTimers, TypeOK, inputs, brain
      <3>2. CASE ~(manual \/ sinceTimers <= TimerInterval)
        <4>0. \A junk : \A c \in Channels :
                TimerPass(c, chan[c], junk, FALSE, sinceTimers) \in ChannelShape
          BY <2>0, PassType
        <4>1. chan' \in [Channels -> ChannelShape]
          BY <2>3, <3>2, <4>0 DEF CheckTimers
        <4>2. offFor' \in [Channels -> 0..Horizon]
          BY <2>3, <3>2, <4>1, <2>off DEF CheckTimers
        <4> QED
          BY <2>0, <2>3, <3>2, <4>1, <4>2 DEF CheckTimers, TypeOK, inputs, brain
      <3> QED
        BY <3>1, <3>2
    <2>4. ASSUME NEW d \in LoopTimes, Rest(d) PROVE TypeOK'
      <3>1. d \in Nat
        BY TimeAssumption
      <3>2. \A time \in 0..Horizon : Later(time, d) \in 0..Horizon
        BY <3>1, LaterFacts
      <3>3. offFor' \in [Channels -> 0..Horizon]
        BY <2>0, <2>4, <3>2 DEF Rest, TypeOK
      <3> QED
        BY <2>4, <3>2, <3>3 DEF Rest, TypeOK, inputs, brain
    <2>5. ASSUME NEW c \in Channels, NEW p \in Programs, Reprogram(c, p) PROVE TypeOK'
      BY <2>5 DEF Reprogram, TypeOK, inputs, brain, clocks
    <2>6. CASE FactoryReset
      BY <2>6, ProgramsAssumption DEF FactoryReset, TypeOK, inputs, brain, clocks
    <2>7. CASE Reboot
      <3>1. [c \in Channels |-> chan[c].relay] \in [Channels -> BOOLEAN]
        BY <2>0 DEF ChannelShape
      <3>2. chan' \in [Channels -> ChannelShape]
        BY <2>0, <2>7, <3>1, BootType DEF Reboot
      <3>3. \A c \in Channels : Later(offFor[c], BootTime + SetupTime) \in 0..Horizon
        <4>1. BootTime + SetupTime \in Nat
          BY TimeAssumption
        <4> QED
          BY <4>1, LaterFacts DEF TypeOK
      <3>4. offFor' \in [Channels -> 0..Horizon]
        BY <2>0, <2>7, <3>3 DEF Reboot
      <3>5. Later(BootTime, SetupTime) \in 0..Horizon
        BY TimeAssumption DEF Later
      <3> QED
        BY <2>0, <2>7, <3>2, <3>4, <3>5, TimeAssumption DEF Reboot, AfterSetup, TypeOK, inputs
    <2>8. CASE HardReset
      <3>1. PowerOn \in [Channels -> ChannelShape]
        BY <2>0, BootType DEF PowerOn
      <3>2. offFor' \in [Channels -> 0..Horizon]
        BY <2>0, <2>8 DEF HardReset
      <3>3. Later(BootTime, SetupTime) \in 0..Horizon
        BY TimeAssumption DEF Later
      <3> QED
        BY <2>0, <2>8, <3>1, <3>2, <3>3, TimeAssumption DEF HardReset, AfterSetup, TypeOK, inputs
    <2>9. CASE FlipMain
      BY <2>9 DEF FlipMain, TypeOK, brain, clocks
    <2>10. ASSUME NEW c \in Switched, FlipSwitch(c) PROVE TypeOK'
      BY <2>10, ChannelsAssumption DEF FlipSwitch, TypeOK, brain, clocks
    <2>11. ASSUME NEW c \in Channels, WindowEdge(c) PROVE TypeOK'
      BY <2>11 DEF WindowEdge, TypeOK, brain, clocks
    <2>12. CASE UNCHANGED vars
      BY <2>12 DEF vars, TypeOK, inputs, brain, clocks
    <2> QED
      BY <2>1, <2>2, <2>3, <2>4, <2>5, <2>6, <2>7, <2>8, <2>9, <2>10, <2>11, <2>12 DEF Next
  <1> QED
    BY <1>1, <1>2, PTL DEF Spec


-----------------------------------------------------------------------------
(* Manual mode obeys the switches.                                          *)

(* setup() leaves every channel with a boot state; the three ways to get    *)
(* there (power-on, watchdog, software reset) differ in the pin levels.     *)
LEMMA BootedChannels ==
    ASSUME TypeOK, NEW latches \in [Channels -> BOOLEAN], NEW c \in Channels
    PROVE  LET b    == Booted(latches)[c]
               cd   == prog[c].cooldown
               hand == ~mainpin \/ prog[c].type = "MANUAL"
           IN  /\ b \in ChannelShape
               /\ b.cooldown <= BootSlack
               /\ c \in Switched /\ b.relay => cd = 0 \/ b.cooldown > cd
               /\ c \in Switched /\ hand => (b.relay => b.state)
               /\ c \in Switched /\ ~mainpin => b.led = b.state
               /\ ~hand => (b.relay => b.runstate)
  <1>1. /\ prog \in [Channels -> Programs] /\ swpin \in [Channels -> BOOLEAN]
        /\ window \in [Channels -> BOOLEAN] /\ mainpin \in BOOLEAN
        /\ latches[c] \in BOOLEAN
    BY SwitchAssumption DEF TypeOK
  <1>2. Booted(latches)[c] = BootChannel(c, latches[c], {})
    BY DEF Booted
  <1> QED
    BY <1>1, <1>2, BootFacts

(* However modes, programs and resets came before: in manual mode no lamp   *)
(* burns whose switch was last read as released, and the leds show the      *)
(* switches (check_switches, and the relays check_main leaves to it).       *)
THEOREM ManualCorrect == Spec => [](ManualObeysSwitch /\ ManualLedShowsSwitch)
  <1> DEFINE Inv == ManualObeysSwitch /\ ManualLedShowsSwitch
  <1>1. Init /\ TypeOK => Inv
    <2> SUFFICES ASSUME Init, TypeOK PROVE Inv
      OBVIOUS
    <2>1. \A c \in Channels : chan[c] = Booted([d \in Channels |-> TRUE])[c]
      BY DEF Init, PowerOn
    <2> QED
      BY <2>1, BootedChannels, ChannelsAssumption
         DEF Init, ManualObeysSwitch, ManualLedShowsSwitch
  <1>2. TypeOK /\ Inv /\ [Next]_vars => Inv'
    <2> SUFFICES ASSUME TypeOK, Inv, [Next]_vars,
                        manual', NEW c \in Switched
                 PROVE  (chan'[c].relay => chan'[c].state) /\ chan'[c].led = chan'[c].state
      BY DEF ManualObeysSwitch, ManualLedShowsSwitch
    <2>0. /\ c \in Channels /\ chan[c] \in ChannelShape
          /\ prog \in [Channels -> Programs] /\ swpin \in [Channels -> BOOLEAN]
          /\ sinceSwitches \in Nat /\ sinceTimers \in Nat
          /\ manual \in BOOLEAN /\ (~mainpin) \in BOOLEAN
      BY ChannelsAssumption, SwitchAssumption, TimeAssumption DEF TypeOK
    <2>same. ASSUME chan' = chan, manual' = manual
             PROVE  (chan'[c].relay => chan'[c].state) /\ chan'[c].led = chan'[c].state
      BY <2>same DEF ManualObeysSwitch, ManualLedShowsSwitch
    <2>1. CASE CheckMain
      <3>1. CASE mainpin = mainstatus
        BY <2>1, <2>same, <3>1 DEF CheckMain
      <3>2. CASE mainpin # mainstatus
        <4> DEFINE r == SwitchPass(c, chan[c], ~mainpin, TRUE, sinceSwitches)
        <4>1. chan'[c] = r /\ ~mainpin
          BY <2>0, <2>1, <3>2 DEF CheckMain
        <4>2. ~mainpin => (r.relay => r.state) /\ r.led = r.state
          BY <2>0, SwitchPassFacts
        <4> QED
          BY <4>1, <4>2
      <3> QED
        BY <3>1, <3>2
    <2>2. CASE CheckSwitches
      <3> DEFINE r == SwitchPass(c, chan[c], manual, FALSE, sinceSwitches)
      <3>1. chan'[c] = r /\ manual
        BY <2>0, <2>2 DEF CheckSwitches, brain
      <3>2. (chan[c].relay => chan[c].state) /\ chan[c].led = chan[c].state
        BY <3>1 DEF ManualObeysSwitch, ManualLedShowsSwitch
      <3>3. /\ manual /\ (chan[c].relay => chan[c].state) => (r.relay => r.state)
            /\ manual /\ chan[c].led = chan[c].state => r.led = r.state
        BY <2>0, SwitchPassFacts
      <3> QED
        BY <3>1, <3>2, <3>3
    <2>3. CASE CheckTimers
      BY <2>3, <2>same DEF CheckTimers, brain
    <2>4. CASE \E d \in LoopTimes : Rest(d)
      BY <2>4, <2>same DEF Rest, brain
    <2>5. CASE \E d \in Channels, q \in Programs : Reprogram(d, q)
      BY <2>5, <2>same DEF Reprogram, brain
    <2>6. CASE FactoryReset
      BY <2>6, <2>same DEF FactoryReset, brain
    <2>7. CASE Reboot
      <3>1. [d \in Channels |-> chan[d].relay] \in [Channels -> BOOLEAN]
        BY DEF TypeOK, ChannelShape
      <3>2. chan'[c] = Booted([d \in Channels |-> chan[d].relay])[c] /\ ~mainpin
        BY <2>7 DEF Reboot, AfterSetup
      <3> QED
        BY <2>0, <3>1, <3>2, BootedChannels
    <2>8. CASE HardReset
      <3>1. chan'[c] = Booted([d \in Channels |-> TRUE])[c] /\ ~mainpin
        BY <2>8 DEF HardReset, AfterSetup, PowerOn
      <3> QED
        BY <2>0, <3>1, BootedChannels
    <2>9. CASE FlipMain \/ (\E d \in Switched : FlipSwitch(d))
               \/ (\E d \in Channels : WindowEdge(d)) \/ UNCHANGED vars
      BY <2>9, <2>same DEF FlipMain, FlipSwitch, WindowEdge, brain, vars
    <2> QED
      BY <2>1, <2>2, <2>3, <2>4, <2>5, <2>6, <2>7, <2>8, <2>9 DEF Next
  <1> QED
    BY <1>1, <1>2, TypeCorrect, PTL DEF Spec

(* The half of it that an owner at the panel relies on: in manual mode a    *)
(* led is lit exactly when its switch was last read as pressed, after every *)
(* flip, power cycle and reset.                                             *)
THEOREM LedCorrect == Spec => []ManualLedShowsSwitch
BY ManualCorrect, PTL

-----------------------------------------------------------------------------
(* Automatic mode obeys the operating windows, as long as no program is     *)
(* turned from automatic into manual or back.                               *)
TypesKept == \A e \in Edits : e[1].type = e[2].type

(* runstate[] remembers every burning lamp with an automatic program.       *)
THEOREM RememberedCorrect ==
    ASSUME TypesKept
    PROVE  Spec => []AutoRemembered
  <1>1. Init /\ TypeOK => AutoRemembered
    <2> SUFFICES ASSUME Init, TypeOK PROVE AutoRemembered
      OBVIOUS
    <2>1. \A c \in Channels : chan[c] = Booted([d \in Channels |-> TRUE])[c]
      BY DEF Init, PowerOn
    <2> QED
      BY <2>1, BootedChannels, ChannelsAssumption DEF Init, AutoRemembered
  <1>2. TypeOK /\ AutoRemembered /\ [Next]_vars => AutoRemembered'
    <2> SUFFICES ASSUME TypeOK, AutoRemembered, [Next]_vars,
                        ~manual', pc' # "reset", NEW c \in Switched, prog'[c].type = "AUTO"
                 PROVE  chan'[c].relay => chan'[c].runstate
      BY DEF AutoRemembered
    <2>0. /\ c \in Channels /\ chan[c] \in ChannelShape
          /\ prog \in [Channels -> Programs] /\ swpin \in [Channels -> BOOLEAN]
          /\ window \in [Channels -> BOOLEAN]
          /\ sinceSwitches \in Nat /\ sinceTimers \in Nat
          /\ manual \in BOOLEAN /\ (~mainpin) \in BOOLEAN
      BY ChannelsAssumption, SwitchAssumption, TimeAssumption DEF TypeOK
    <2>same. ASSUME chan' = chan, manual' = manual, pc # "reset",
                    prog[c].type = prog'[c].type
             PROVE  chan'[c].relay => chan'[c].runstate
      BY <2>same DEF AutoRemembered
    <2>1. CASE CheckMain
      <3>1. CASE mainpin = mainstatus
        BY <2>1, <2>same, <3>1 DEF CheckMain
      <3>2. CASE mainpin # mainstatus
        <4> DEFINE s == SwitchPass(c, chan[c], ~mainpin, TRUE, sinceSwitches)
        <4>1. s \in ChannelShape
          BY <2>0, PassType
        <4>2. PICK junk \in SUBSET (Channels \ Switched) :
                chan'[c] = TimerPass(c, s, junk, TRUE, sinceTimers)
          BY <2>0, <2>1, <3>2 DEF CheckMain
        <4> HIDE DEF s
        <4> DEFINE r == TimerPass(c, s, junk, TRUE, sinceTimers)
        <4>3. prog[c].type = "AUTO" => (r.relay => r.runstate)
          BY <2>0, <4>1, TimerPassFacts
        <4> QED
          BY <2>1, <4>2, <4>3 DEF CheckMain
      <3> QED
        BY <3>1, <3>2
    <2>2. CASE CheckSwitches
      <3> DEFINE r == SwitchPass(c, chan[c], manual, FALSE, sinceSwitches)
      <3>1. chan'[c] = r /\ ~manual /\ prog[c].type = "AUTO" /\ pc # "reset"
        BY <2>0, <2>2 DEF CheckSwitches, brain
      <3>2. ~manual /\ prog[c].type # "MANUAL" => r.relay = chan[c].relay
        BY DEF SwitchPass
      <3>3. r.runstate = chan[c].runstate
        BY DEF SwitchPass
      <3> QED
        BY <3>1, <3>2, <3>3 DEF AutoRemembered
    <2>3. CASE CheckTimers
      <3>1. CASE manual \/ sinceTimers <= TimerInterval
        BY <2>3, <2>same, <3>1 DEF CheckTimers, brain
      <3>2. CASE ~(manual \/ sinceTimers <= TimerInterval)
        <4>1. PICK junk \in SUBSET (Channels \ Switched) :
                chan'[c] = TimerPass(c, chan[c], junk, FALSE, sinceTimers)
          BY <2>0, <2>3, <3>2 DEF CheckTimers
        <4> DEFINE r == TimerPass(c, chan[c], junk, FALSE, sinceTimers)
        <4>2. prog[c].type = "AUTO" /\ (chan[c].relay => chan[c].runstate)
                => (r.relay => r.runstate)
          BY <2>0, TimerPassFacts
        <4>3. prog[c].type = "AUTO" /\ (chan[c].relay => chan[c].runstate)
          BY <2>3, <3>2 DEF CheckTimers, AutoRemembered
        <4> QED
          BY <4>1, <4>2, <4>3
      <3> QED
        BY <3>1, <3>2
    <2>4. CASE \E d \in LoopTimes : Rest(d)
      BY <2>4, <2>same DEF Rest, brain
    <2>5. ASSUME NEW d \in Channels, NEW q \in Programs, Reprogram(d, q)
          PROVE  chan'[c].relay => chan'[c].runstate
      <3>1. prog[d].type = q.type
        BY <2>5 DEF Reprogram, TypesKept
      <3>2. prog[c].type = prog'[c].type
        BY <2>0, <2>5, <3>1 DEF Reprogram
      <3> QED
        BY <2>5, <2>same, <3>2 DEF Reprogram, brain
    <2>6. CASE FactoryReset
      BY <2>6 DEF FactoryReset
    <2>7. CASE Reboot
      <3>1. [d \in Channels |-> chan[d].relay] \in [Channels -> BOOLEAN]
        BY DEF TypeOK, ChannelShape
      <3>2. chan'[c] = Booted([d \in Channels |-> chan[d].relay])[c] /\ mainpin
            /\ prog[c].type = "AUTO"
        BY <2>7, SwitchAssumption DEF Reboot, AfterSetup, TypeOK
      <3> QED
        BY <2>0, <3>1, <3>2, BootedChannels
    <2>8. CASE HardReset
      <3>1. chan'[c] = Booted([d \in Channels |-> TRUE])[c] /\ mainpin
            /\ prog[c].type = "AUTO"
        BY <2>8, SwitchAssumption DEF HardReset, AfterSetup, PowerOn, TypeOK
      <3> QED
        BY <2>0, <3>1, BootedChannels
    <2>9. CASE FlipMain \/ (\E d \in Switched : FlipSwitch(d))
               \/ (\E d \in Channels : WindowEdge(d)) \/ UNCHANGED vars
      BY <2>9, <2>same DEF FlipMain, FlipSwitch, WindowEdge, brain, vars
    <2> QED
      BY <2>1, <2>2, <2>3, <2>4, <2>5, <2>6, <2>7, <2>8, <2>9 DEF Next
  <1> QED
    BY <1>1, <1>2, TypeCorrect, PTL DEF Spec

(* After an effective pass of check_timers every burning lamp with an       *)
(* automatic program and a switch is inside its operating window.           *)
THEOREM WindowCorrect ==
    ASSUME TypesKept
    PROVE  Spec => TimersObeyWindow
  <1> DEFINE Obey == CheckTimers /\ sinceTimers' = 0 /\ sinceTimers > 0 =>
                        \A c \in Switched :
                           prog[c].type = "AUTO" /\ chan'[c].relay => window[c]
  <1>1. TypeOK /\ AutoRemembered /\ [Next]_vars => [Obey]_vars
    <2> SUFFICES ASSUME TypeOK, AutoRemembered, CheckTimers,
                        sinceTimers' = 0, sinceTimers > 0, NEW c \in Switched,
                        prog[c].type = "AUTO", chan'[c].relay
                 PROVE  window[c]
      OBVIOUS
    <2>0. /\ c \in Channels /\ chan[c] \in ChannelShape
          /\ prog \in [Channels -> Programs] /\ window \in [Channels -> BOOLEAN]
          /\ sinceTimers \in Nat
      BY ChannelsAssumption, TimeAssumption DEF TypeOK
    <2>1. ~(manual \/ sinceTimers <= TimerInterval)
      <3>1. manual \/ sinceTimers <= TimerInterval => sinceTimers' = sinceTimers
        BY DEF CheckTimers
      <3> QED
        BY <2>0, <3>1
    <2>2. PICK junk \in SUBSET (Channels \ Switched) :
            chan'[c] = TimerPass(c, chan[c], junk, FALSE, sinceTimers)
      BY <2>0, <2>1 DEF CheckTimers
    <2> DEFINE r == TimerPass(c, chan[c], junk, FALSE, sinceTimers)
    <2>3. chan[c].relay => chan[c].runstate
      BY <2>1 DEF CheckTimers, AutoRemembered
    <2>4. prog[c].type = "AUTO" /\ (chan[c].relay => chan[c].runstate)
            => (r.relay => r.runstate)
      BY <2>0, TimerPassFacts
    <2>5. r.runstate = window[c]
      BY <2>0, TimerPassFacts
    <2> QED
      BY <2>2, <2>3, <2>4, <2>5
  <1>2. Spec => []AutoRemembered
    BY RememberedCorrect
  <1> QED
    BY <1>1, <1>2, TypeCorrect, PTL DEF Spec, TimersObeyWindow


-----------------------------------------------------------------------------
(* The cooldown in automatic mode. The theorems of this part are about a    *)
(* controller whose main switch stays where it is.                          *)

LEMMA SlackType == BootSlack \in Nat
  BY TimeAssumption DEF BootSlack

(* After setup() the credit of a lamp that is off is what BootSlack allows. *)
LEMMA BootCredit ==
    ASSUME TypeOK, TypeOK', Reboot \/ HardReset, NEW c \in Channels, ~chan'[c].relay
    PROVE  /\ chan'[c].cooldown <= BootSlack
           /\ offFor'[c] = Horizon \/ offFor'[c] >= SetupTime
           /\ sinceSwitches' = SetupTime
           /\ mainpin => sinceTimers' = 0
  <1>1. [d \in Channels |-> chan[d].relay] \in [Channels -> BOOLEAN]
    BY DEF TypeOK, ChannelShape
  <1>2. PICK l \in [Channels -> BOOLEAN] : chan' = Booted(l)
    BY <1>1 DEF Reboot, HardReset, PowerOn
  <1>3. chan'[c].cooldown <= BootSlack
    BY <1>2, BootedChannels
  <1>4. CASE Reboot
    <2>1. BootTime + SetupTime \in Nat /\ offFor[c] \in 0..Horizon
      BY TimeAssumption DEF TypeOK
    <2>2. \/ Later(offFor[c], BootTime + SetupTime) = Horizon
          \/ Later(offFor[c], BootTime + SetupTime) = offFor[c] + (BootTime + SetupTime)
      BY <2>1, LaterFacts
    <2>3. offFor'[c] = SetupTime \/ offFor'[c] = Later(offFor[c], BootTime + SetupTime)
      BY <1>4 DEF Reboot
    <2>4. offFor'[c] = Horizon \/ offFor'[c] >= SetupTime
      BY <2>1, <2>2, <2>3, TimeAssumption
    <2> QED
      BY <1>3, <1>4, <2>4 DEF Reboot, AfterSetup
  <1>5. CASE HardReset
    <2>1. offFor'[c] = SetupTime
      BY <1>5 DEF HardReset
    <2> QED
      BY <1>3, <1>5, <2>1, TimeAssumption DEF HardReset, AfterSetup
  <1> QED
    BY <1>4, <1>5

(* The ledger is kept by one pass of check_switches ...                     *)
LEMMA AutoSwitches ==
    ASSUME TypeOK, TypeOK', AutoLedger, CheckSwitches, NEW c \in Switched
    PROVE  AutoAccount(c)'
  <1>0. /\ c \in Channels /\ chan[c] \in ChannelShape
        /\ chan'[c] \in ChannelShape
        /\ prog \in [Channels -> Programs] /\ swpin \in [Channels -> BOOLEAN]
        /\ sinceSwitches \in Nat /\ sinceTimers \in Nat /\ manual \in BOOLEAN
        /\ offFor[c] \in Nat /\ BootSlack \in Nat
    BY ChannelsAssumption, TimeAssumption, SlackType DEF TypeOK
  <1>1. /\ chan[c].cooldown \in Nat /\ chan'[c].cooldown \in Nat
        /\ chan[c].relay \in BOOLEAN /\ chan'[c].relay \in BOOLEAN
        /\ prog[c].type \in {"AUTO", "MANUAL"}
    BY <1>0, ProgramFields DEF ChannelShape
  <1> DEFINE r == SwitchPass(c, chan[c], manual, FALSE, sinceSwitches)
  <1>2. /\ chan'[c] = r /\ ~manual /\ prog' = prog /\ AutoAccount(c)
        /\ sinceSwitches' = 0 /\ sinceTimers' = sinceTimers
        /\ ~chan'[c].relay => offFor'[c] = offFor[c]
    BY <1>0 DEF CheckSwitches, AutoLedger, brain, OffTimes
  <1>3. r.cooldown <= chan[c].cooldown + sinceSwitches
    BY <1>0, SwitchPassFacts
  <1>4. prog[c].type = "AUTO" /\ ~manual
          => r.relay = chan[c].relay /\ r.runstate = chan[c].runstate
    BY DEF SwitchPass
  <1>5. prog[c].type = "MANUAL" /\ (chan[c].relay => chan[c].state)
          => (r.relay => r.state)
    BY <1>0, SwitchPassFacts
  <1>6. (chan[c].relay => chan[c].state) /\ chan[c].relay /\ ~r.relay => r.cooldown = 0
    BY <1>0, SwitchOff
  <1> HIDE DEF r
  <1>7. CASE prog[c].type = "AUTO"
    BY <1>0, <1>1, <1>2, <1>3, <1>4, <1>7 DEF AutoAccount, Credited
  <1>8. CASE prog[c].type = "MANUAL"
    BY <1>0, <1>1, <1>2, <1>3, <1>5, <1>6, <1>8 DEF AutoAccount, Credited
  <1> QED
    BY <1>1, <1>7, <1>8

(* ... and by one pass of check_timers.                                     *)
LEMMA AutoTimers ==
    ASSUME TypeOK, TypeOK', AutoLedger, CheckTimers, NEW c \in Switched
    PROVE  AutoAccount(c)'
  <1>0. /\ c \in Channels /\ chan[c] \in ChannelShape
        /\ chan'[c] \in ChannelShape
        /\ prog \in [Channels -> Programs] /\ window \in [Channels -> BOOLEAN]
        /\ sinceSwitches \in Nat /\ sinceTimers \in Nat
        /\ offFor[c] \in Nat /\ BootSlack \in Nat
    BY ChannelsAssumption, TimeAssumption, SlackType DEF TypeOK
  <1>1. /\ chan[c].cooldown \in Nat /\ chan'[c].cooldown \in Nat
        /\ chan[c].relay \in BOOLEAN /\ chan'[c].relay \in BOOLEAN
        /\ prog[c].type \in {"AUTO", "MANUAL"}
    BY <1>0, ProgramFields DEF ChannelShape
  <1>2. /\ prog' = prog /\ AutoAccount(c) /\ sinceSwitches = 0
        /\ sinceSwitches' = sinceSwitches
    BY DEF CheckTimers, AutoLedger
  <1>3. CASE manual \/ sinceTimers <= TimerInterval
    BY <1>2, <1>3 DEF CheckTimers, AutoAccount, Credited
  <1>4. CASE ~(manual \/ sinceTimers <= TimerInterval)
    <2>1. PICK junk \in SUBSET (Channels \ Switched) :
            chan'[c] = TimerPass(c, chan[c], junk, FALSE, sinceTimers)
      BY <1>0, <1>4 DEF CheckTimers
    <2> DEFINE r == TimerPass(c, chan[c], junk, FALSE, sinceTimers)
    <2>2. sinceTimers' = 0 /\ (~chan'[c].relay => offFor'[c] = offFor[c])
      BY <1>0, <1>4 DEF CheckTimers, OffTimes
    <2>3. r.cooldown <= chan[c].cooldown + sinceTimers
      BY <1>0, TimerPassFacts
    <2>4. prog[c].type = "MANUAL" => r = chan[c]
      BY DEF TimerPass
    <2>5. prog[c].type = "AUTO" /\ (chan[c].relay => chan[c].runstate)
            => (r.relay => r.runstate)
      BY <1>0, TimerPassFacts
    <2>6. (chan[c].relay => chan[c].runstate) /\ chan[c].relay /\ ~r.relay
            => r.cooldown = 0
      BY <1>0, TimerOff
    <2>9. chan'[c] = r
      BY <2>1
    <2> HIDE DEF r
    <2>7. CASE prog[c].type = "AUTO"
      <3>1. CASE chan'[c].relay
        BY <1>2, <2>5, <2>7, <2>9, <3>1 DEF AutoAccount
      <3>2. CASE ~chan'[c].relay /\ chan[c].relay
        BY <1>0, <1>1, <1>2, <2>2, <2>6, <2>7, <2>9, <3>2 DEF AutoAccount, Credited
      <3>3. CASE ~chan'[c].relay /\ ~chan[c].relay
        BY <1>0, <1>1, <1>2, <2>2, <2>3, <2>7, <2>9, <3>3 DEF AutoAccount, Credited
      <3> QED
        BY <3>1, <3>2, <3>3
    <2>8. CASE prog[c].type = "MANUAL"
      BY <1>0, <1>1, <1>2, <2>2, <2>4, <2>8, <2>9 DEF AutoAccount, Credited, r
    <2> QED
      BY <1>1, <2>7, <2>8
  <1> QED
    BY <1>3, <1>4

(* It holds after setup() in automatic mode, ...                            *)
LEMMA AutoLedgerInit ==
    ASSUME Init, TypeOK, mainpin
    PROVE  AutoLedger
  <1>1. mainpin /\ ~manual /\ mainstatus /\ pc = "main"
    BY DEF Init
  <1>2. ASSUME NEW c \in Switched PROVE AutoAccount(c)
    <2> DEFINE b == Booted([d \in Channels |-> TRUE])[c]
    <2>1. c \in Channels /\ chan[c] = b
      BY ChannelsAssumption DEF Init, PowerOn
    <2>2. /\ b \in ChannelShape
          /\ b.cooldown <= BootSlack
          /\ prog[c].type = "MANUAL" => (b.relay => b.state)
      BY <2>1, BootedChannels
    <2>3. ~(~mainpin \/ prog[c].type = "MANUAL") => (b.relay => b.runstate)
      BY <2>1, BootedChannels
    <2>4. b.cooldown \in Nat /\ b.relay \in BOOLEAN
      BY <2>2 DEF ChannelShape
    <2>5. prog[c].type \in {"AUTO", "MANUAL"}
      BY <2>1, ProgramFields DEF TypeOK
    <2>6. sinceSwitches = SetupTime /\ sinceTimers = 0
      BY <1>1 DEF Init
    <2>7. ~chan[c].relay => offFor[c] = SetupTime
      BY <2>1 DEF Init
    <2> HIDE DEF b
    <2> QED
      BY <1>1, <2>1, <2>2, <2>3, <2>4, <2>5, <2>6, <2>7, SlackType, TimeAssumption
         DEF AutoAccount, Credited
  <1> QED
    BY <1>1, <1>2 DEF AutoLedger

(* ... and while the main switch is left there and the types are kept.      *)
LEMMA AutoLedgerKept ==
    ASSUME TypesKept, TypeOK, TypeOK', mainpin, AutoLedger, [Next]_vars
    PROVE  AutoLedger'
  <1>0. mainpin /\ mainstatus /\ ~manual
    BY DEF AutoLedger
  <1>same. ASSUME UNCHANGED <<brain, chan, clocks, offFor>>, pc' # "timers",
                  pc # "reset" \/ pc' = "reset",
                  \A c \in Switched : prog'[c].type = prog[c].type
           PROVE  AutoLedger'
    BY <1>same DEF AutoLedger, AutoAccount, Credited, brain, clocks
  <1>1. CASE CheckMain
    <2>1. UNCHANGED <<brain, chan, offFor, clocks>>
      BY <1>0, <1>1 DEF CheckMain, brain, TypeOK
    <2> QED
      BY <1>1, <1>same, <2>1 DEF CheckMain
  <1>2. CASE CheckSwitches
    <2>1. \A c \in Switched : AutoAccount(c)'
      BY <1>2, AutoSwitches
    <2> QED
      BY <1>0, <1>2, <2>1 DEF CheckSwitches, AutoLedger, brain
  <1>3. CASE CheckTimers
    <2>1. \A c \in Switched : AutoAccount(c)'
      BY <1>3, AutoTimers
    <2> QED
      BY <1>0, <1>3, <2>1 DEF CheckTimers, AutoLedger, brain
  <1>4. ASSUME NEW d \in LoopTimes, Rest(d) PROVE AutoLedger'
    <2>1. ASSUME NEW c \in Switched PROVE AutoAccount(c)'
      <3>1. /\ d \in Nat /\ sinceSwitches \in 0..Horizon /\ sinceTimers \in 0..Horizon
            /\ offFor[c] \in 0..Horizon /\ chan[c].cooldown \in Nat
            /\ BootSlack \in Nat /\ Horizon \in Nat /\ c \in Channels
        BY ChannelsAssumption, TimeAssumption, SlackType DEF TypeOK, ChannelShape
      <3>2. /\ sinceSwitches' \in Nat /\ sinceSwitches' <= sinceSwitches + d
            /\ sinceTimers' \in Nat /\ sinceTimers' <= sinceTimers + d
        BY <1>4, <3>1, LaterFacts DEF Rest
      <3>3. ~chan[c].relay =>
              \/ offFor'[c] = Horizon
              \/ offFor'[c] = offFor[c] + d /\ offFor[c] # Horizon
        BY <1>4, <3>1, LaterFacts DEF Rest
      <3>4. AutoAccount(c) /\ chan' = chan /\ prog' = prog
        BY <1>4 DEF Rest, AutoLedger
      <3> QED
        BY <3>1, <3>2, <3>3, <3>4 DEF AutoAccount, Credited
    <2> QED
      BY <1>0, <1>4, <2>1 DEF Rest, AutoLedger, brain
  <1>5. ASSUME NEW d \in Channels, NEW q \in Programs, Reprogram(d, q)
        PROVE  AutoLedger'
    <2>1. prog[d].type = q.type
      BY <1>5 DEF Reprogram, TypesKept
    <2>2. \A c \in Switched : prog[c].type = prog'[c].type
      BY <1>5, <2>1, ChannelsAssumption DEF Reprogram, TypeOK
    <2> QED
      BY <1>5, <1>same, <2>2 DEF Reprogram
  <1>6. CASE FactoryReset
    BY <1>0, <1>6 DEF FactoryReset, AutoLedger, brain
  <1>7. CASE Reboot \/ HardReset
    <2>1. mainpin' /\ mainstatus' /\ ~manual' /\ pc' = "main" /\ prog' = prog
      BY <1>0, <1>7 DEF Reboot, HardReset, AfterSetup, inputs
    <2>2. ASSUME NEW c \in Switched PROVE AutoAccount(c)'
      <3>0. c \in Channels
        BY ChannelsAssumption
      <3>1. [e \in Channels |-> chan[e].relay] \in [Channels -> BOOLEAN]
        BY DEF TypeOK, ChannelShape
      <3>2. PICK l \in [Channels -> BOOLEAN] : chan' = Booted(l)
        BY <1>7, <3>1 DEF Reboot, HardReset, PowerOn
      <3> DEFINE b == Booted(l)[c]
      <3>3. prog[c].type = "MANUAL" => (b.relay => b.state)
        BY <3>0, BootedChannels
      <3>4. ~(~mainpin \/ prog[c].type = "MANUAL") => (b.relay => b.runstate)
        BY <3>0, BootedChannels
      <3>5. prog[c].type \in {"AUTO", "MANUAL"}
        BY <3>0, ProgramFields DEF TypeOK
      <3>6. chan'[c] = b
        BY <3>2
      <3> HIDE DEF b
      <3>7. CASE chan'[c].relay
        BY <1>0, <2>1, <3>3, <3>4, <3>5, <3>6, <3>7 DEF AutoAccount
      <3>8. CASE ~chan'[c].relay
        <4>1. /\ chan'[c].cooldown <= BootSlack
              /\ offFor'[c] = Horizon \/ offFor'[c] >= SetupTime
              /\ sinceSwitches' = SetupTime
              /\ sinceTimers' = 0
          BY <1>0, <1>7, <3>0, <3>8, BootCredit
        <4>2. /\ chan'[c].cooldown \in Nat /\ offFor'[c] \in Nat
              /\ BootSlack \in Nat /\ SetupTime \in Nat
          BY <3>0, SlackType, TimeAssumption DEF TypeOK, ChannelShape
        <4> QED
          BY <3>8, <4>1, <4>2 DEF AutoAccount, Credited
      <3> QED
        BY <3>7, <3>8
    <2> QED
      BY <2>1, <2>2 DEF AutoLedger
  <1>9. CASE FlipMain \/ (\E d \in Switched : FlipSwitch(d))
             \/ (\E d \in Channels : WindowEdge(d)) \/ UNCHANGED vars
    <2>1. UNCHANGED <<pc, brain, chan, clocks, offFor, prog>>
      BY <1>9 DEF FlipMain, FlipSwitch, WindowEdge, vars, brain, clocks
    <2> QED
      BY <2>1 DEF AutoLedger, AutoAccount, Credited, brain, clocks
  <1> QED
    BY <1>1, <1>2, <1>3, <1>4, <1>5, <1>6, <1>7, <1>9 DEF Next

(* The same for the manual mode, where check_switches alone counts: it holds *)
(* after setup(), ...                                                       *)
LEMMA ManualLedgerInit ==
    ASSUME Init, TypeOK, ~mainpin
    PROVE  ManualLedger
  <1>1. manual /\ ~mainstatus
    BY DEF Init
  <1>2. ASSUME NEW c \in Switched PROVE ManualAccount(c)
    <2> DEFINE b == Booted([d \in Channels |-> TRUE])[c]
    <2>1. c \in Channels /\ chan[c] = b
      BY ChannelsAssumption DEF Init, PowerOn
    <2>2. /\ b \in ChannelShape /\ b.cooldown <= BootSlack
          /\ b.relay => b.state
      BY <2>1, BootedChannels
    <2>3. b.cooldown \in Nat /\ b.relay \in BOOLEAN
      BY <2>2 DEF ChannelShape
    <2>4. sinceSwitches = SetupTime /\ (~chan[c].relay => offFor[c] = SetupTime)
      BY <2>1 DEF Init
    <2> HIDE DEF b
    <2> QED
      BY <2>1, <2>2, <2>3, <2>4, SlackType, TimeAssumption DEF ManualAccount, Credited
  <1> QED
    BY <1>1, <1>2 DEF ManualLedger

(* ... is kept by a pass of check_switches, ...                              *)
LEMMA ManualSwitches ==
    ASSUME TypeOK, TypeOK', ManualLedger, CheckSwitches, NEW c \in Switched
    PROVE  ManualAccount(c)'
  <1>0. /\ c \in Channels /\ chan[c] \in ChannelShape /\ chan'[c] \in ChannelShape
        /\ prog \in [Channels -> Programs] /\ swpin \in [Channels -> BOOLEAN]
        /\ sinceSwitches \in Nat /\ manual \in BOOLEAN
        /\ offFor[c] \in Nat /\ BootSlack \in Nat
    BY ChannelsAssumption, TimeAssumption, SlackType DEF TypeOK
  <1>1. /\ chan[c].cooldown \in Nat /\ chan'[c].cooldown \in Nat
        /\ chan[c].relay \in BOOLEAN /\ chan'[c].relay \in BOOLEAN
    BY <1>0 DEF ChannelShape
  <1> DEFINE r == SwitchPass(c, chan[c], manual, FALSE, sinceSwitches)
  <1>2. /\ chan'[c] = r /\ manual /\ ManualAccount(c) /\ sinceSwitches' = 0
        /\ ~chan'[c].relay => offFor'[c] = offFor[c]
    BY <1>0 DEF CheckSwitches, ManualLedger, OffTimes
  <1>3. r.cooldown <= chan[c].cooldown + sinceSwitches
    BY <1>0, SwitchPassFacts
  <1>4. manual /\ (chan[c].relay => chan[c].state) => (r.relay => r.state)
    BY <1>0, SwitchPassFacts
  <1>5. (chan[c].relay => chan[c].state) /\ chan[c].relay /\ ~r.relay => r.cooldown = 0
    BY <1>0, SwitchOff
  <1> HIDE DEF r
  <1>6. CASE chan'[c].relay
    BY <1>2, <1>4, <1>6 DEF ManualAccount
  <1>7. CASE ~chan'[c].relay /\ chan[c].relay
    BY <1>0, <1>1, <1>2, <1>5, <1>7 DEF ManualAccount, Credited
  <1>8. CASE ~chan'[c].relay /\ ~chan[c].relay
    BY <1>0, <1>1, <1>2, <1>3, <1>8 DEF ManualAccount, Credited
  <1> QED
    BY <1>6, <1>7, <1>8

(* ... by the passing of time, ...                                           *)
LEMMA ManualRest ==
    ASSUME TypeOK, ManualLedger, NEW d \in LoopTimes, Rest(d), NEW c \in Switched
    PROVE  ManualAccount(c)'
  <1>1. /\ d \in Nat /\ sinceSwitches \in 0..Horizon /\ offFor[c] \in 0..Horizon
        /\ chan[c].cooldown \in Nat /\ BootSlack \in Nat /\ Horizon \in Nat
        /\ c \in Channels
    BY ChannelsAssumption, TimeAssumption, SlackType DEF TypeOK, ChannelShape
  <1>2. sinceSwitches' \in Nat /\ sinceSwitches' <= sinceSwitches + d
    BY <1>1, LaterFacts DEF Rest
  <1>3. ~chan[c].relay =>
          \/ offFor'[c] = Horizon
          \/ offFor'[c] = offFor[c] + d /\ offFor[c] # Horizon
    BY <1>1, LaterFacts DEF Rest
  <1>4. ManualAccount(c) /\ chan' = chan
    BY DEF Rest, ManualLedger
  <1> QED
    BY <1>1, <1>2, <1>3, <1>4 DEF ManualAccount, Credited

(* ... and by everything else.                                               *)
LEMMA ManualLedgerKept ==
    ASSUME TypeOK, TypeOK', ~mainpin, ManualLedger, [Next]_vars
    PROVE  ManualLedger'
  <1>0. manual /\ ~mainstatus /\ ~mainpin
    BY DEF ManualLedger
  <1>same. ASSUME UNCHANGED <<brain, chan, sinceSwitches, offFor>> PROVE ManualLedger'
    BY <1>same DEF ManualLedger, ManualAccount, Credited, brain
  <1>1. CASE CheckMain
    <2>1. mainpin = mainstatus
      BY <1>0, SwitchAssumption DEF TypeOK
    <2> QED
      BY <1>1, <1>same, <2>1 DEF CheckMain, brain, clocks
  <1>2. CASE CheckSwitches
    <2>1. \A c \in Switched : ManualAccount(c)'
      BY <1>2, ManualSwitches
    <2> QED
      BY <1>0, <1>2, <2>1 DEF CheckSwitches, ManualLedger, brain
  <1>3. CASE CheckTimers
    BY <1>0, <1>3, <1>same DEF CheckTimers
  <1>4. ASSUME NEW d \in LoopTimes, Rest(d) PROVE ManualLedger'
    <2>1. \A c \in Switched : ManualAccount(c)'
      BY <1>4, ManualRest
    <2> QED
      BY <1>0, <1>4, <2>1 DEF Rest, ManualLedger, brain
  <1>5. CASE \E d \in Channels, q \in Programs : Reprogram(d, q)
    BY <1>5, <1>same DEF Reprogram, clocks
  <1>6. CASE FactoryReset
    BY <1>6, <1>same DEF FactoryReset, clocks
  <1>7. CASE Reboot \/ HardReset
    <2>1. ~mainstatus' /\ manual'
      <3>1. mainstatus' = mainpin /\ manual' = ~mainpin
        BY <1>7 DEF Reboot, HardReset, AfterSetup
      <3> QED
        BY <1>0, <3>1, Zenon
    <2>2. ASSUME NEW c \in Switched PROVE ManualAccount(c)'
      <3>0. c \in Channels
        BY ChannelsAssumption
      <3>1. [e \in Channels |-> chan[e].relay] \in [Channels -> BOOLEAN]
        BY DEF TypeOK, ChannelShape
      <3>2. PICK l \in [Channels -> BOOLEAN] : chan' = Booted(l)
        BY <1>7, <3>1 DEF Reboot, HardReset, PowerOn
      <3>3. chan'[c].relay => chan'[c].state
        BY <1>0, <3>0, <3>2, BootedChannels
      <3>4. CASE chan'[c].relay
        BY <3>3, <3>4 DEF ManualAccount
      <3>5. CASE ~chan'[c].relay
        <4>1. /\ chan'[c].cooldown <= BootSlack /\ sinceSwitches' = SetupTime
              /\ offFor'[c] = Horizon \/ offFor'[c] >= SetupTime
          BY <1>7, <3>0, <3>5, BootCredit
        <4>2. /\ chan'[c].cooldown \in Nat /\ offFor'[c] \in Nat
              /\ BootSlack \in Nat /\ SetupTime \in Nat
          BY <3>0, SlackType, TimeAssumption DEF TypeOK, ChannelShape
        <4> QED
          BY <3>5, <4>1, <4>2 DEF ManualAccount, Credited
      <3> QED
        BY <3>4, <3>5
    <2> QED
      BY <2>1, <2>2 DEF ManualLedger
  <1>8. CASE FlipMain \/ (\E d \in Switched : FlipSwitch(d))
             \/ (\E d \in Channels : WindowEdge(d)) \/ UNCHANGED vars
    BY <1>8, <1>same DEF FlipMain, FlipSwitch, WindowEdge, vars, brain, clocks
  <1> QED
    BY <1>1, <1>2, <1>3, <1>4, <1>5, <1>6, <1>7, <1>8 DEF Next

(* With the main switch left alone and the types kept, what a lamp that is  *)
(* off is credited for is time that it was off: twice in automatic mode,    *)
(* once in manual mode.                                                     *)
THEOREM SteadyLedgerCorrect ==
    ASSUME TypesKept, ~MainMoves
    PROVE  Spec => []SteadyLedger
  <1>1. Init /\ TypeOK => SteadyLedger
    BY AutoLedgerInit, ManualLedgerInit DEF SteadyLedger
  <1>2. TypeOK /\ TypeOK' /\ SteadyLedger /\ [Next]_vars => SteadyLedger'
    <2> SUFFICES ASSUME TypeOK, TypeOK', SteadyLedger, [Next]_vars PROVE SteadyLedger'
      OBVIOUS
    <2>1. mainpin' = mainpin
      BY DEF Next, CheckMain, CheckSwitches, CheckTimers, Rest, Reprogram, FactoryReset,
             Reboot, HardReset, FlipMain, FlipSwitch, WindowEdge, inputs, vars
    <2>2. CASE mainpin
      BY <2>1, <2>2, AutoLedgerKept DEF SteadyLedger
    <2>3. CASE ~mainpin
      BY <2>1, <2>3, ManualLedgerKept DEF SteadyLedger
    <2> QED
      BY <2>2, <2>3
  <1> QED
    BY <1>1, <1>2, TypeCorrect, PTL DEF Spec

(* After setup() a lamp burns only if setup() counted more than its         *)
(* cooldown time, which BootSlack bounds.                                   *)
LEMMA BootTurnsOn ==
    ASSUME TypeOK, Reboot \/ HardReset, NEW c \in Switched, chan'[c].relay
    PROVE  BootSlack >= prog'[c].cooldown
  <1>0. c \in Channels /\ prog[c].cooldown \in Nat /\ prog' = prog
    BY ChannelsAssumption, ProgramFields DEF TypeOK, Reboot, HardReset
  <1>1. [e \in Channels |-> chan[e].relay] \in [Channels -> BOOLEAN]
    BY DEF TypeOK, ChannelShape
  <1>2. PICK l \in [Channels -> BOOLEAN] : chan' = Booted(l)
    BY <1>1 DEF Reboot, HardReset, PowerOn
  <1> DEFINE b == Booted(l)[c]
  <1>3. /\ b \in ChannelShape
        /\ b.cooldown <= BootSlack
        /\ b.relay => prog[c].cooldown = 0 \/ b.cooldown > prog[c].cooldown
    BY <1>0, BootedChannels
  <1>4. chan'[c] = b
    BY <1>2
  <1> HIDE DEF b
  <1>5. b.cooldown \in Nat
    BY <1>3 DEF ChannelShape
  <1> QED
    BY <1>0, <1>3, <1>4, <1>5, SlackType

(* A lamp that is turned on in automatic mode was off for half of it.       *)
LEMMA AutoRested ==
    ASSUME TypeOK, mainpin, AutoLedger, Next, NEW c \in Switched, TurnsOn(c)
    PROVE  RestedFor(2, c)
  <1>0. /\ c \in Channels /\ chan[c] \in ChannelShape
        /\ prog \in [Channels -> Programs] /\ swpin \in [Channels -> BOOLEAN]
        /\ window \in [Channels -> BOOLEAN]
        /\ sinceSwitches \in Nat /\ sinceTimers \in Nat /\ manual \in BOOLEAN
        /\ offFor[c] \in Nat /\ BootSlack \in Nat /\ prog[c].cooldown \in Nat
        /\ chan[c].cooldown \in Nat /\ ~chan[c].relay /\ chan'[c].relay
        /\ prog[c].type \in {"AUTO", "MANUAL"}
        /\ mainpin /\ mainstatus /\ ~manual
    BY ChannelsAssumption, TimeAssumption, SlackType, ProgramFields
       DEF TypeOK, ChannelShape, TurnsOn, AutoLedger
  <1>1. CheckSwitches \/ CheckTimers \/ Reboot \/ HardReset
    BY <1>0 DEF Next, CheckMain, Rest, Reprogram, FactoryReset, FlipMain,
                FlipSwitch, WindowEdge
  <1>2. CASE CheckSwitches
    <2> DEFINE r == SwitchPass(c, chan[c], manual, FALSE, sinceSwitches)
    <2>1. chan'[c] = r /\ prog' = prog /\ AutoAccount(c)
      BY <1>0, <1>2 DEF CheckSwitches, AutoLedger
    <2>2. prog[c].type = "AUTO" /\ ~manual => r.relay = chan[c].relay
      BY DEF SwitchPass
    <2>3. r \in ChannelShape /\ r.cooldown <= chan[c].cooldown + sinceSwitches
      BY <1>0, SwitchPassFacts
    <2>4. ~chan[c].relay /\ r.relay
              => prog[c].cooldown = 0 \/ r.cooldown > prog[c].cooldown
      BY <1>0, SwitchPassFacts
    <2> HIDE DEF r
    <2>5. r.cooldown \in Nat
      BY <2>3 DEF ChannelShape
    <2> QED
      BY <1>0, <2>1, <2>2, <2>3, <2>4, <2>5 DEF AutoAccount, Credited, RestedFor
  <1>3. CASE CheckTimers
    <2>1. ~(manual \/ sinceTimers <= TimerInterval)
      BY <1>0, <1>3 DEF CheckTimers
    <2>2. PICK junk \in SUBSET (Channels \ Switched) :
            chan'[c] = TimerPass(c, chan[c], junk, FALSE, sinceTimers)
      BY <1>0, <1>3, <2>1 DEF CheckTimers
    <2> DEFINE r == TimerPass(c, chan[c], junk, FALSE, sinceTimers)
    <2>3. chan'[c] = r /\ prog' = prog /\ AutoAccount(c)
      BY <1>3, <2>2 DEF CheckTimers, AutoLedger
    <2>4. prog[c].type = "MANUAL" => r = chan[c]
      BY DEF TimerPass
    <2>5. r \in ChannelShape /\ r.cooldown <= chan[c].cooldown + sinceTimers
      BY <1>0, TimerPassFacts
    <2>6. ~chan[c].relay /\ r.relay
              => prog[c].cooldown = 0 \/ r.cooldown > prog[c].cooldown
      BY <1>0, TimerPassFacts
    <2> HIDE DEF r
    <2>7. r.cooldown \in Nat
      BY <2>5 DEF ChannelShape
    <2> QED
      BY <1>0, <2>3, <2>4, <2>5, <2>6, <2>7 DEF AutoAccount, Credited, RestedFor
  <1>4. CASE Reboot \/ HardReset
    <2>1. BootSlack >= prog'[c].cooldown /\ prog' = prog
      BY <1>0, <1>4, BootTurnsOn DEF Reboot, HardReset
    <2> QED
      BY <1>0, <2>1 DEF RestedFor
  <1> QED
    BY <1>1, <1>2, <1>3, <1>4

(* A lamp that is turned on in manual mode was off for its cooldown time.   *)
LEMMA ManualRested ==
    ASSUME TypeOK, ~mainpin, ManualLedger, Next, NEW c \in Switched, TurnsOn(c)
    PROVE  RestedFor(1, c)
  <1>0. /\ c \in Channels /\ chan[c] \in ChannelShape
        /\ prog \in [Channels -> Programs] /\ swpin \in [Channels -> BOOLEAN]
        /\ sinceSwitches \in Nat /\ manual \in BOOLEAN
        /\ offFor[c] \in Nat /\ BootSlack \in Nat /\ prog[c].cooldown \in Nat
        /\ chan[c].cooldown \in Nat /\ ~chan[c].relay /\ chan'[c].relay
        /\ ~mainpin /\ ~mainstatus /\ manual
    BY ChannelsAssumption, TimeAssumption, SlackType, ProgramFields
       DEF TypeOK, ChannelShape, TurnsOn, ManualLedger
  <1>1. CheckSwitches \/ Reboot \/ HardReset
    <2>1. mainpin = mainstatus
      BY <1>0, SwitchAssumption DEF TypeOK
    <2> QED
      BY <1>0, <2>1 DEF Next, CheckMain, CheckTimers, Rest, Reprogram, FactoryReset,
                        FlipMain, FlipSwitch, WindowEdge
  <1>2. CASE CheckSwitches
    <2> DEFINE r == SwitchPass(c, chan[c], manual, FALSE, sinceSwitches)
    <2>1. chan'[c] = r /\ prog' = prog /\ ManualAccount(c)
      BY <1>0, <1>2 DEF CheckSwitches, ManualLedger
    <2>2. r \in ChannelShape /\ r.cooldown <= chan[c].cooldown + sinceSwitches
      BY <1>0, SwitchPassFacts
    <2>3. ~chan[c].relay /\ r.relay
              => prog[c].cooldown = 0 \/ r.cooldown > prog[c].cooldown
      BY <1>0, SwitchPassFacts
    <2> HIDE DEF r
    <2>4. r.cooldown \in Nat
      BY <2>2 DEF ChannelShape
    <2> QED
      BY <1>0, <2>1, <2>2, <2>3, <2>4 DEF ManualAccount, Credited, RestedFor
  <1>3. CASE Reboot \/ HardReset
    <2>1. BootSlack >= prog'[c].cooldown /\ prog' = prog
      BY <1>0, <1>3, BootTurnsOn DEF Reboot, HardReset
    <2> QED
      BY <1>0, <2>1 DEF RestedFor
  <1> QED
    BY <1>1, <1>2, <1>3

(* With the main switch left alone and the types kept: a lamp with a switch *)
(* was off for at least half of its cooldown time (less BootSlack / 2) when *)
(* it is turned on.                                                         *)
THEOREM HalfCooldownCorrect ==
    ASSUME TypesKept, ~MainMoves
    PROVE  Spec => HalfCooldown
  <1> DEFINE Half == \A c \in Switched : TurnsOn(c) => RestedFor(2, c)
  <1>1. TypeOK /\ SteadyLedger /\ [Next]_vars => [Half]_vars
    <2> SUFFICES ASSUME TypeOK, SteadyLedger, Next, NEW c \in Switched, TurnsOn(c)
                 PROVE  RestedFor(2, c)
      OBVIOUS
    <2>1. CASE mainpin
      BY <2>1, AutoRested DEF SteadyLedger
    <2>2. CASE ~mainpin
      <3>1. RestedFor(1, c) /\ ManualLedger
        BY <2>2, ManualRested DEF SteadyLedger
      <3>2. offFor[c] \in Nat /\ BootSlack \in Nat
        BY ChannelsAssumption, TimeAssumption, SlackType DEF TypeOK
      <3>3. prog' \in [Channels -> Programs] \/ prog' = prog
        BY ProgramsAssumption DEF Next, CheckMain, CheckSwitches, CheckTimers, Rest,
           Reprogram, FactoryReset, Reboot, HardReset, FlipMain, FlipSwitch, WindowEdge,
           TypeOK
      <3>4. prog'[c].cooldown \in Nat
        BY <3>3, ChannelsAssumption, ProgramFields DEF TypeOK
      <3> QED
        BY <3>1, <3>2, <3>4 DEF RestedFor
    <2> QED
      BY <2>1, <2>2
  <1>2. Spec => []SteadyLedger
    BY SteadyLedgerCorrect
  <1> QED
    BY <1>1, <1>2, TypeCorrect, PTL DEF Spec, HalfCooldown

(* In manual mode, main switch left alone: it was off for all of it.        *)
THEOREM ManualCooldownCorrect ==
    ASSUME TypesKept, ~MainMoves
    PROVE  Spec => ManualCooldown
  <1> DEFINE Full == ~mainpin => \A c \in Switched : TurnsOn(c) => RestedFor(1, c)
  <1>1. TypeOK /\ SteadyLedger /\ [Next]_vars => [Full]_vars
    <2> SUFFICES ASSUME TypeOK, SteadyLedger, Next, ~mainpin,
                        NEW c \in Switched, TurnsOn(c)
                 PROVE  RestedFor(1, c)
      OBVIOUS
    <2> QED
      BY ManualRested DEF SteadyLedger
  <1>2. Spec => []SteadyLedger
    BY SteadyLedgerCorrect
  <1> QED
    BY <1>1, <1>2, TypeCorrect, PTL DEF Spec, ManualCooldown
=============================================================================
