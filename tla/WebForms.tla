-------------------------------- MODULE WebForms --------------------------------
(***************************************************************************)
(* The web interface of version 1: pages with forms for the programs, the  *)
(* channels, the address, the air condition and the clock. A browser shows *)
(* a page, its owner changes a field and submits it, much later perhaps    *)
(* and after other pages; the controller reads the fields, checks them and *)
(* writes the record to the EEPROM.                                        *)
(*                                                                         *)
(* The read of a body may end early: when the connection breaks, when a    *)
(* character is late by a second, and whenever read() has to wait, because *)
(* every turn of its loop takes one off m_contentLength. The handlers do   *)
(* not notice. A body is the fields in the order of their names, so what   *)
(* is read is the first fields and a part of the next. The unit of time is *)
(* the hour; of the date form day, hour and summer time are modelled.      *)
(***************************************************************************)
EXTENDS Integers

CONSTANTS
    Tabs,        \* pages open in browsers
    Channels,    \* the channels and programs of the database
    ProgramIds,
    Factory,     \* the database at the beginning
    Typed,       \* what the owner types into a field
    Hours,       \* the hours that are looked at
    FirstHour,
    WinterDay,   \* the first day in winter time
    MaxPosts,    \* bounds: forms submitted, fields changed, and bodies read in part
    MaxEdits,
    MaxCuts

(* A part of a number is the number of a record, too.                       *)
ASSUME IdAssumption ==
    /\ Channels \subseteq 0..9 /\ 0 \in Channels
    /\ ProgramIds \subseteq 0..31 /\ 0 \in ProgramIds
    /\ \A p \in ProgramIds : p \div 10 \in ProgramIds
(* The hours of one month: of the date only the day is modelled.            *)
ASSUME HourAssumption ==
    FirstHour \in Hours /\ Hours \subseteq 0..24 * 32 - 1 /\ WinterDay \in 0..31
ASSUME BoundAssumption ==
    MaxPosts \in Nat /\ MaxEdits \in Nat /\ MaxCuts \in Nat /\ Typed \subseteq Int

VARIABLES
    eeprom,      \* [net, air, channel, program]: the fields by their names
    db,          \* the copy in RAM
    dbcooldown,  \* the cooldown of the program of each channel, in minutes
    now,         \* the time in winter time
    tabs,        \* the page in each tab
    posts,
    edits,
    cuts,
    last,        \* history: what complete forms have saved,
    damaged,     \* and the records a form read in part may have changed
    had          \* history: programs of each channel since getcooldown

vars == <<eeprom, db, dbcooldown, now, tabs, posts, edits, cuts, last, damaged, had>>
history == <<last, damaged, had>>

Forms == {"setprogram", "editprogram", "setip", "air", "setdate"}

(* The names of the fields, numbers as in the code.                         *)
Names(form) ==
    CASE form = "setprogram"  -> 0..1
      [] form = "editprogram" -> 0..11
      [] form = "setip"       -> 0..7
      [] form = "air"         -> 1..4
      [] form = "setdate"     -> {0, 3, 6}

Ids(form) ==
    CASE form = "setprogram"  -> Channels
      [] form = "editprogram" -> ProgramIds
      [] OTHER                -> {0}

(* Numbers in C, in 16 bits and in 8.                                       *)
IntMax   == 32767
Int16(n) == ((n + 32768) % 65536) - 32768
Byte(n)  == n % 256

(* Fault: the upper limit of the hours is not tested.                       *)
HourOpen(h) == h >= 0

Hour(h)   == h \in 0..23
Minute(m) == m \in 0..59
Rest(p) ==
    \/ \A n \in 9..11 : p[n] = 0
    \/ p[9] \in 1..31 /\ p[10] \in 1..12 /\ p[11] \in 1..120

IsProgram(p) ==
    /\ p[1] \in 0..2
    /\ p[2] \in 0..23 /\ p[3] \in 0..59 /\ p[4] \in 0..23 /\ p[5] \in 0..59
    /\ \A n \in 6..8 : p[n] \in 0..IntMax
    /\ Rest(p)
IsNet(net) == (\A n \in 0..7 : net[n] \in 0..255) /\ net[0] # 0 /\ net[4] # 0
IsAir(air) ==
    /\ air[1] \in 0..1
    /\ air[2] \in 0..65 /\ air[4] \in 0..65
    /\ air[3] \in 0..65 \/ air[3] = Factory.air[3]
DatabaseShape ==
    [net : [0..7 -> Int], air : [1..4 -> Int], channel : [Channels -> Int],
     program : [ProgramIds -> [1..11 -> Int]]]
IsDatabase(d) ==
    /\ d \in DatabaseShape
    /\ IsNet(d.net)
    /\ IsAir(d.air)
    /\ \A c \in Channels : d.channel[c] \in ProgramIds
    /\ \A p \in ProgramIds : IsProgram(d.program[p])

(* The first maximum of the temperature is anything: ee_init sets the       *)
(* minimum twice.                                                           *)
ASSUME FactoryAssumption == IsDatabase(Factory) /\ Int16(Factory.air[3]) = Factory.air[3]

NoPage == [form |-> "none"]
Page(tab) == tabs[tab]
IsPage(page) ==
    \/ page = NoPage
    \/ /\ page.form \in Forms
       /\ page.fields \in [Names(page.form) -> Int]
       /\ page.shown \in [Names(page.form) -> Int]
       /\ page.at \in Int
       /\ page.current \in BOOLEAN

TypeOK ==
    /\ IsDatabase(eeprom) /\ IsDatabase(db) /\ IsDatabase(last)
    /\ dbcooldown \in [Channels -> 0..IntMax]
    /\ now \in Int
    /\ \A tab \in Tabs : IsPage(Page(tab))
    /\ posts \in 0..MaxPosts /\ edits \in 0..MaxEdits /\ cuts \in 0..MaxCuts
    /\ damaged \subseteq Forms \X (Channels \cup ProgramIds)
    /\ had \in [Channels -> SUBSET ProgramIds]

-----------------------------------------------------------------------------
(* dst and gettimeofday.                                                    *)
Dst(t) == t \div 24 < WinterDay
WallClock == IF Dst(now) THEN now + 1 ELSE now

(* The date form is filled from the wall clock, and dst is asked of it too. *)
DateFields ==
    [n \in Names("setdate") |->
        CASE n = 0 -> WallClock \div 24
          [] n = 3 -> WallClock % 24
          [] n = 6 -> IF Dst(WallClock) THEN 1 ELSE 0]

(* The page that shows a record.                                            *)
Shown(form, id, d) ==
    CASE form = "setprogram"  -> [n \in 0..1 |-> IF n = 0 THEN id ELSE d.channel[id]]
      [] form = "editprogram" -> [n \in 0..11 |-> IF n = 0 THEN id ELSE d.program[id][n]]
      [] form = "setip"       -> d.net
      [] form = "air"         -> d.air
      [] form = "setdate"     -> DateFields

(* getcooldown                                                              *)
Cooldowns(d) == [c \in Channels |-> d.program[d.channel[c]][8]]

Init ==
    /\ eeprom = Factory /\ db = Factory
    /\ dbcooldown = Cooldowns(Factory)
    /\ now = FirstHour
    /\ tabs = [tab \in Tabs |-> NoPage]
    /\ posts = 0 /\ edits = 0 /\ cuts = 0
    /\ last = Factory
    /\ damaged = {}
    /\ had = [c \in Channels |-> {Factory.channel[c]}]

Show(tab, form, id, d) ==
    [form |-> form, fields |-> Shown(form, id, d), shown |-> Shown(form, id, d),
     at |-> IF form = "setdate" THEN now ELSE 0, current |-> TRUE]

(* GET: a link leads to a page.                                             *)
Open(tab, form, id) ==
    /\ posts < MaxPosts
    /\ Page(tab) = NoPage
    /\ tabs' = [tabs EXCEPT ![tab] = Show(tab, form, id, db)]
    /\ UNCHANGED <<eeprom, db, dbcooldown, now, posts, edits, cuts, history>>

(* The owner changes a field that is not hidden. Lists offer only what      *)
(* there is.                                                                *)
Offered(form, name) ==
    CASE form = "setprogram"                -> IF name = 1 THEN ProgramIds ELSE {}
      [] form = "editprogram" /\ name = 0   -> {}
      [] form = "editprogram" /\ name = 1   -> 0..2
      [] form = "air" /\ name = 1           -> 0..1
      [] form = "setdate"                   -> {}
      [] OTHER                              -> Typed
Edit(tab, name) ==
    /\ Page(tab) # NoPage /\ Page(tab).fields = Page(tab).shown
    /\ edits < MaxEdits /\ edits' = edits + 1
    /\ name \in Names(Page(tab).form)
    /\ \E v \in Offered(Page(tab).form, name) :
         tabs' = [tabs EXCEPT ![tab].fields[name] = v]
    /\ UNCHANGED <<eeprom, db, dbcooldown, now, posts, cuts, history>>
-----------------------------------------------------------------------------
(* What atoi makes of the first characters of a number.                     *)
Beginnings(v) ==
    LET size == IF v < 0 THEN -v ELSE v
        sign == IF v < 0 THEN -1 ELSE 1
    IN  {sign * (size \div n) : n \in {10, 100, 1000, 10000, 100000}} \cup {v}

(* A field that has not been read is 0, in the date form it is the time.    *)
Defaults(form) ==
    IF form = "setdate" THEN DateFields ELSE [n \in Names(form) |-> 0]

(* read() has ended in field k, or before it. Of the names 10 and 11 the    *)
(* first character is a name, too, and its value is empty.                  *)
InPart(form, fields) ==
    UNION { LET read == [n \in Names(form) |->
                            IF n < k THEN fields[n] ELSE Defaults(form)[n]]
            IN  {read}
                \cup {[read EXCEPT ![k] = v] : v \in Beginnings(fields[k])}
                \cup (IF k < 10 THEN {} ELSE {[read EXCEPT ![1] = 0]})
          : k \in Names(form) }

(* Fault: a winter rest without an increment is cleared, too.               *)
SanitizedByMonth(post) ==
    IF post[9] > 0 /\ post[10] > 0 /\ post[11] > 5
    THEN post ELSE [post EXCEPT ![9] = 0, ![10] = 0, ![11] = 0]

(* A winter rest without day or month is none.                              *)
Sanitized(post) ==
    IF post[9] > 0 /\ post[10] > 0
    THEN post ELSE [post EXCEPT ![9] = 0, ![10] = 0, ![11] = 0]

(* The tests of the handlers.                                               *)
Accepted(form, post) ==
    CASE form = "setprogram"  -> post[1] \in 0..31
      [] form = "editprogram" ->
           /\ post[1] \in 0..2
           /\ Hour(post[2]) /\ Minute(post[3]) /\ Hour(post[4]) /\ Minute(post[5])
           /\ \A n \in 6..8 : post[n] >= 0
           /\ Rest(Sanitized(post))
      [] form = "setip"       ->
           /\ post[0] >= 1 /\ post[4] >= 1
           /\ \A n \in 0..7 : post[n] <= 255
      [] form = "air"         -> \A n \in 2..4 : post[n] \in 0..65
      [] form = "setdate"     -> post[0] <= 31 /\ post[3] <= 23

(* The database with the record of a form, taken from d for the rest of it. *)
Saved(form, post, d) ==
    CASE form = "setprogram"  -> [d EXCEPT !.channel[post[0]] = post[1]]
      [] form = "editprogram" ->
           [d EXCEPT !.program[post[0]] = [n \in 1..11 |-> Sanitized(post)[n]]]
      [] form = "setip"       -> [d EXCEPT !.net = [n \in 0..7 |-> Byte(post[n])]]
      [] form = "air"         ->
           [d EXCEPT !.air = [post EXCEPT ![1] = IF @ = 0 THEN 0 ELSE 1]]
      [] form = "setdate"     -> d

(* The EEPROM gets the record that the form belongs to; the settings are    *)
(* one record.                                                              *)
Written(form, post) ==
    LET new == Saved(form, post, db)
    IN  CASE form = "setprogram"  -> [eeprom EXCEPT !.channel[post[0]] = new.channel[post[0]]]
          [] form = "editprogram" -> [eeprom EXCEPT !.program[post[0]] = new.program[post[0]]]
          [] form \in {"setip", "air"} -> [eeprom EXCEPT !.net = new.net, !.air = new.air]
          [] form = "setdate"     -> eeprom

(* Fault: the copy in RAM is not read again.                                *)
RereadNever(form) == db' = db
Reread(form) == db' = eeprom'

(* Fault: the cooldown times are not learned.                               *)
LearnNever(form) == UNCHANGED <<dbcooldown, had>>
(* Only the form for programs calls getcooldown.                            *)
Learn(form) ==
    IF form = "editprogram"
    THEN /\ dbcooldown' = Cooldowns(db')
         /\ had' = [c \in Channels |-> {db'.channel[c]}]
    ELSE /\ UNCHANGED dbcooldown
         /\ had' = [c \in Channels |-> had[c] \cup {db'.channel[c]}]

(* Fault: the summer time is not taken off.                                 *)
SetClockPlain(post) == now' = 24 * post[0] + post[3]
(* setTime, less the hour of summer time.                                   *)
SetClock(post) == now' = 24 * post[0] + post[3] - IF post[6] = 1 THEN 1 ELSE 0

Target(form, fields) == <<form, IF form \in {"setprogram", "editprogram"}
                                THEN fields[0] ELSE 0>>
(* A handler reads the fields and saves them, if they pass the tests.       *)
Handle(form, post) ==
    IF Accepted(form, post)
    THEN /\ IF form = "setdate" THEN SetClock(post) ELSE UNCHANGED now
         /\ eeprom' = Written(form, post)
         /\ Reread(form)
         /\ Learn(form)
    ELSE UNCHANGED <<eeprom, db, dbcooldown, now, had>>

Post(form, fields) == [n \in Names(form) |-> Int16(fields[n])]
Outdated(tab) ==
    [other \in Tabs |->
        IF other = tab THEN NoPage
        ELSE IF Page(other) = NoPage THEN NoPage ELSE [Page(other) EXCEPT !.current = FALSE]]

(* POST: the whole form is read. The page that comes back is a new one.     *)
Submit(tab) ==
    LET page == Page(tab)
        post == Post(page.form, page.fields)
    IN  /\ page # NoPage /\ posts < MaxPosts
        /\ posts' = posts + 1
        /\ Handle(page.form, post)
        /\ IF Accepted(page.form, post)
           THEN /\ last' = Saved(page.form, post, last)
                /\ damaged' = damaged \ {Target(page.form, page.fields)}
           ELSE UNCHANGED <<last, damaged>>
        /\ tabs' = Outdated(tab)
        /\ UNCHANGED <<edits, cuts>>

(* POST: the form is read in part. The browser keeps the page; its owner    *)
(* may send it again.                                                       *)
SubmitCut(tab, fields) ==
    LET page == Page(tab)
        id   == Target(page.form, page.fields)[2]
    IN  /\ page # NoPage /\ posts < MaxPosts /\ cuts < MaxCuts
        /\ posts' = posts + 1 /\ cuts' = cuts + 1
        /\ fields \in InPart(page.form, page.fields)
        /\ Handle(page.form, Post(page.form, fields))
        /\ damaged' = damaged \cup {<<page.form, n>> : n \in {id, id \div 10, 0}}
        /\ tabs' = [Outdated(tab) EXCEPT ![tab] = [page EXCEPT !.current = FALSE]]
        /\ UNCHANGED <<edits, last>>

(* setup() reads the EEPROM.                                                *)
Restart ==
    /\ db' = eeprom
    /\ dbcooldown' = Cooldowns(eeprom)
    /\ had' = [c \in Channels |-> {eeprom.channel[c]}]
    /\ UNCHANGED <<eeprom, now, tabs, posts, edits, cuts, last, damaged>>

HourTurns ==
    /\ now + 1 \in Hours
    /\ now' = now + 1
    /\ UNCHANGED <<eeprom, db, dbcooldown, tabs, posts, edits, cuts, history>>

Close(tab) ==
    /\ Page(tab) # NoPage
    /\ tabs' = [tabs EXCEPT ![tab] = NoPage]
    /\ UNCHANGED <<eeprom, db, dbcooldown, now, posts, edits, cuts, history>>

Next ==
    \/ \E tab \in Tabs :
         \/ \E form \in Forms : \E id \in Ids(form) : Open(tab, form, id)
         \/ \E name \in 0..11 : Edit(tab, name)
         \/ Submit(tab)
         \/ Page(tab) # NoPage /\ \E fields \in InPart(Page(tab).form, Page(tab).fields) :
                                    SubmitCut(tab, fields)
         \/ Close(tab)
    \/ Restart
    \/ HourTurns

Spec == Init /\ [][Next]_vars
-----------------------------------------------------------------------------
Value(d, target) ==
    CASE target[1] = "setprogram"  -> d.channel[target[2]]
      [] target[1] = "editprogram" -> d.program[target[2]]
      [] target[1] = "setip"       -> d.net
      [] target[1] = "air"         -> d.air
      [] OTHER                     -> 0
Targets == {target \in Forms \X (Channels \cup ProgramIds) : target[2] \in Ids(target[1])}

(* What a form has saved stays as it is until its own form is saved again,  *)
(* whatever pages are submitted in between, however old they are, and       *)
(* through restarts. A form that is read in part may change its own record, *)
(* the record whose number begins like that, and record 0.                  *)
SavedStays ==
    \A target \in Targets \ damaged : Value(eeprom, target) = Value(last, target)

(* The cooldown time in use is the one of a program that the channel has    *)
(* had since getcooldown, as it is stored (setprogram.html does not call it).*)
CooldownKnown ==
    \A c \in Channels : \E p \in had[c] : dbcooldown[c] = eeprom.program[p][8]

(* A page that is submitted as it was shown, with nothing saved in between, *)
(* changes nothing.                                                         *)
ResubmitHarmless ==
    [][\A tab \in Tabs :
         Page(tab) # NoPage /\ Page(tab).form # "setdate" /\ Page(tab).current
           /\ Page(tab).fields = Page(tab).shown /\ Submit(tab)
         => eeprom' = eeprom]_vars

(* A date form sets the clock to the time it was shown. In the last hour of *)
(* the last day in summer time, when the wall clock is in winter, it        *)
(* is an hour ahead. A form of which nothing is read sets it to the present.*)
Late(t) == IF Dst(t) /\ ~Dst(t + 1) THEN 1 ELSE 0
DateFormSetsTime ==
    [][\A tab \in Tabs :
         Page(tab) # NoPage /\ Page(tab).form = "setdate" =>
           /\ Submit(tab) => now' = Page(tab).at + Late(Page(tab).at)
           /\ SubmitCut(tab, DateFields) => now' = now + Late(now)]_vars
================================================================================
