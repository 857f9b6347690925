# TerraDuino: a verification development

TerraDuino is the controller of a terrarium: an Arduino Mega switches lamps
(relays) by astronomical or fixed programs, watches temperature and humidity,
keeps its configuration in EEPROM and talks to a Django application on a web
server, which shows reports and lets the owner change programs.  This directory
holds TLA+ models of the code, the TLC configurations that check them, and
TLAPS proofs about them.

The reference is the newest sketch, `avrduino/Terraduino2/Terraduino2.ino`
(called *the sketch* below), with the libraries under `avrduino/libraries` and
the Django application `terraduino-django`.  `Terraduino/Terraduino.ino` is the
first version; what it has of its own, the web interface, is modelled from it.
`Terraduino2/Terraduino2.ino` is an older copy of the sketch.

## The system

| component | state it keeps | operations | interacts with |
|---|---|---|---|
| **relay control** | `manual`, `mainstatus`, `state[]`, `runstate[]`, `cooldown[]`, `dbcooldown[]`, `timer`, `sttimer`, relay and led pins | `check_main`, `check_switches`, `check_timers`, part of `setup` | reads switches and `operate()`; reprogrammed by the sync; restarted by the resets |
| **configuration store** (`EEany`) | the EEPROM image (header, settings, 8 channels, 32 programs) and its RAM copy `db` | `ee_exists`, `ee_getdb`, `ee_init`, `ee_wr_*` | written by sync and shell, byte by byte; a reset may come between two bytes |
| **configuration sync** | Django rows with a `modified` flag; `data`, `clist`, `plist` on the device | admin `save_model`, view `modified`, `djcheckmodified` | HTTP over a connection that may fail; ends in the store and in `getcooldown` |
| **air condition and alarm** | `airtimer`, fan pin, `alarmpaused` | `check_air`, `alarm` | thermometer, `operate()` of channels 0 and 1, settings in the store |
| **clock and schedule** | clock chip, `t`, `uptime` | `dst`, `gettimeofday`, `getsunrise`, `getsunset`, `elapsed_sleep_days`, `operate`, `sh_setdate`, `sh_settime`, `check_reboot`, the library `Time` | everything that asks for the time |
| **serial shell** | `command`, `parameter`, `index`, `parametermode` | `check_shell`, `check_command`, `sh_*` | store, clock, resets; shares `index` with the sync |
| **reporting** | `djtimer`, `Log`, `LogWatt`, `Channel.operates` | `check_report`, `djput`, views `report`, `rrd*` | HTTP; writes rows the sync reads; sets `t` |
| **web interface of version 1** | `post`, pages in browsers, store and `db` | the handlers `www_*`, `resetpost`, Webduino's `read` and `readPOSTparam` | store, clock, `getcooldown` |
| **watchdog and resets** | watchdog counter, RAM, pins | `wdt_reset`, `software_Reset`, `check_reboot` | restarts all of the above at any point |
| **sensor** (`DHT`, third party) | last reading | `readTemperature`, `readHumidity` | air condition, reporting |

What makes it hard: one loop does everything and takes between milliseconds and
seconds; elapsed time is measured by differences of `millis()` that several
functions stamp on their own; globals such as `index`, `t` and `post` are shared
between functions that do not know of each other; the meaning of the switches
changes with the main switch and with the program, which can be replaced
remotely; the EEPROM is written without any commit; HTTP requests fail at any
point; the watchdog (4 s) or the owner may restart the controller between any
two steps, and a software reset keeps the pins while it clears the memory.

What makes each part correct:

* relay control: manual mode obeys the switches, automatic mode the operating
  windows; a lamp with a cooldown time rests before it is turned on again; a lamp
  that is requested is turned on eventually.
* configuration store: a write changes the slot it names and no other, wherever
  writes are cut; `db` is what the EEPROM holds; the `r` command leaves the defaults.
* sync: what the owner saved arrives on the device, in the right slot.
* air condition: the fan follows the thresholds within one interval; the alarm
  rests between two calls and calls again while it is needed.
* clock: dates, summer time and windows are those of the real calendar and of
  the sun; the restart at midnight comes at night and once.
* shell: what is executed is what was typed.
* web interface: what a form has saved stays until it is saved again.

## Modules

| module | models | built on |
|---|---|---|
| `RelayControl` | relay control and the resets that hit it | |
| `ConfigRegister` | what a configuration store promises (abstract) | |
| `ConfigStore` | the library `EEany`, its callers, and crashes between two cells | implements `ConfigRegister` |
| `ConfigSync` | the way of an edit from the admin page to the EEPROM, and the reports that write to the same rows | uses `ConfigRegister` as its EEPROM |
| `AirControl` | `check_air` with the thermometer, the settings and the restarts | |
| `Calendar` | the conversions of dates, summer time and `operate()`, as functions | |
| `Clock` | the running clock: `t`, `uptime`, the commands `d` and `t`, the restart at midnight | extends `Calendar` |
| `Console` | the serial shell, character by character, with the sync that shares its `index` | |
| `WebForms` | the forms of version 1, browsers that keep old pages, bodies that are read in part | |
| `MC...` | instances for TLC | the module of that name |
| `...Proofs` | theorems (of all but `Calendar` and `ConfigRegister`) | the module of that name |
| `ConfigStoreRefinement` | that `ConfigStore` implements `ConfigRegister` | `ConfigStoreProofs` |

How they compose: `ConfigStore` is shown to implement `ConfigRegister`, which
`ConfigSync` contains as its EEPROM.  `RelayControl` takes the answer of
`operate()` (modelled in `Calendar`) as a window that opens and closes at any
time and an arriving program (`ConfigSync`) as the step `Reprogram`; `Console`
takes a sync as the step `Sync`, which is all of `ConfigSync` it can see.

Definitions named after a fault (`AccrueSwapped`, `RereadNever`, ...) are not
part of a specification.  Each is the body a definition would have with a
plausible bug, and the property listed with it in `PROJECT.json` finds it.

### RelayControl

One `loop()` is the cycle `main`, `switches`, `timers`, `rest` of `pc`.
`CheckMain`, `CheckSwitches` and `CheckTimers` are the three functions of the
sketch, whole: a moved main switch calls the other two with `init` set, in the
same step, as the code does.  `SwitchPass` and `TimerPass` are one turn of their
`for` loops.  `Rest(d)` is everything that takes time.  `chan[c]` holds what the
arrays `state`, `runstate` and `cooldown` and the pins hold for a channel, and
`prog[c]` its program with `dbcooldown`.  The time stamps `timer` and `sttimer`
appear as the time that has passed since (`sinceTimers`, `sinceSwitches`).
`offFor` is a history variable: how long the relay has been off.

Environment: `FlipMain` and `FlipSwitch` (at any point, even between two of the
functions), `WindowEdge` (what `operate()` answers), `Reprogram` (a sync has
stored another program), `FactoryReset` (the `r` command before its restart),
`Reboot` (the software reset, which keeps the pins) and `HardReset` (watchdog
or power).  `setup()` is the operator `BootChannel`: it calls the passes up to
three times before the first `loop()`, and each one counts the time since boot.

Two spots where C leaves the result open are choices.  `runstate[]` and
`state[]` have one entry less than `check_timers` indexes: `junk` says whether the
comparison with what lies behind the array asks for a write.  At power-on a
relay pin becomes an output with level 0, which closes the relay, before the
first pass writes it.

### ConfigStore and ConfigRegister

The image is an array of cells in the order of `struct Database`.  A cell
stands for the bytes between which a crash makes no difference that a property
sees: the version, the settings, an id, a program number, and two halves of a
program's data.  `WriteCell` is `EEPROM.write` in whichever loop is running.
`BootKnown`, `BootInit`, `Erased`, `Filled` and `Load` are the path from
`ee_init` to `ee_getdb` in `setup`, `ForceInit` is the `r` command, `Receive`,
`SaveRow`, `Written` and `Reload` are the second half of `djcheckmodified`,
`WriteSettings` stands for the shell commands that change settings.  `Crash` is a
power failure between any two cells.  `Watchdog` is the reset that the `r` command
does not avoid: it runs `ee_init` inside a pass of `loop()`, with the watchdog
enabled, and of the 2 * 889 bytes (zeros, then the defaults) 1212 fit into its
four seconds at 3.3 ms each.  `Patience` is that number in cells; the call in
`setup()` comes before `wdt_enable` and has no such limit.  After the restart the
version is there (`EEany.cpp:81`) and the image passes for complete; `filled`, a
history variable, says how far the defaults had come.  The address
of a record is computed from the id *in the record*, by the sums of `EEany.cpp`
(`ChannelAddress`, `ProgramAddress`), and it is compared with the layout the
compiler gives the struct (`ChannelField`, `ProgramField`).

`ConfigRegister` has a value per slot and the write in progress.  A write
begins, which unsettles its slot, and ends or is cut; a reset unsettles all
slots and then gives all of them the factory content.  The refinement mapping
shows a slot as `Unsettled` while its last write is not complete (`dirty`).  After an
`ee_init` that was cut no slot is settled and no write counts (`Whole`), until
another one has run to its end: the register promises nothing there, as records
with id 0 send their writes to another slot.

### ConfigSync

The server runs the admin, the view `modified` and the view `report` side by
side; one database statement is one step.  A query set of Django is read when
its loop begins: `ViewChannels` and `ViewPrograms`.  `save()` writes every field
of the row: `ViewSaves` writes back the content that was read and takes the mark
off; `ReportReads` and `ReportSaves` do the same for the rows of a report, mark
included (`held` is what a report has read).  `Deliver` is the arrival of the
whole answer on the device, `BeginSave` and `EndSave` the writes, channels
first, `Synced` the end.  The content of a row is the number of its last edit.

Failures: `Crash` (restart of the device), `LoseRequest`, `LoseAnswer`,
`LosePart` (the connection ends inside the answer, the complete lines before it
are saved), and an answer longer than `data[]`, whose reading loop never ends
until the watchdog does (`Watchdog`).  The view notices none of this and takes
the marks off all the same.

`Reports` says whether reports reach their view.  Today they do not: the sketch
sends 14 fields, `urls.py` accepts 13, the older copy of the sketch sends 13.

`latest` is the owner's last edit of a row, which `content` need not be: a save
writes back what was read before.  `fresh` is a history variable: the rows whose
last edit came after the last failure and the end of the view which that failure
left running, and at a moment when neither `modified` nor `report` had read the row
and not yet saved it (`Overwritten`).  An edit at such a moment is written over, its
mark comes off, and nobody is told.

### AirControl

One `loop()` is `air`, then `rest`.  `Pass` is `check_air` when its interval is
over: the reading, the fan, the alarm and its counter in one step; `TooEarly`
is the early return.  A reading is the temperature, or, if the sensor fails,
anything (`IsReading`): `temperature()` returns nothing then.  Within two seconds of
a reading the DHT library returns its data again, under the comment "return last
correct measurement" (`DHT.cpp:93`), whether they were correct, or are still, or
not.  `outdated` says that such data may be at hand.  `TurnOff` is the shell command `a`,
`FactoryReset` the command `r`, `Restart` every kind of reset.  `steady`, `quiet`
and `ringing` are history: how long the temperature has stayed, how long the
lamps have been in their operating time since the last alarm or restart, and
whether an alarm has just rung.

### Calendar and Clock

`Calendar` has `breakTime`, `makeTime`, the BCD registers of the chip, `dst`,
`getdayofyear`, `elapsed_sleep_days` (in 16 bits), `getsunrise`, `getsunset` and
`operate` as functions of a day or a minute.  `Clock` lets the days of the chip
(2000 to 2099) pass while the power is off, which shows the conversions every
date, and turns the power on in the nights that are watched.  Then the unit is
the hour and a pass of `loop()` is `main`, `timers`, `shell`, `report`, `reboot`.
The hour may turn between any two of them.  `t` is whatever the last caller of
`gettimeofday()` left, which is all that `check_reboot` knows.

### Console

`Type` is one character through `check_shell`, `Execute` the carriage return with
`check_command` and the parsers of `sh_setdate`, `sh_settime`, `sh_ip` and
`sh_air`; `ResetCommand` is `r` or `b`, `Restart` a reset while the user types on.
`Sync(n)` is a `djcheckmodified` between two characters that leaves `n` in
`index`.  `parameter` includes the cells behind the array; `reach` is how far
the writes have gone, `origin` which character of the line each cell holds (both
are history).  What the linker puts there is not modelled.

### WebForms

A tab holds a page: its form, the fields as they are and as they were shown,
when it was opened, and whether anything was saved since.  `Open`, `Edit` and
`Close` are the owner, `Submit` a POST that is read to the end, `SubmitCut` one
that is read in part: a break of the connection, a late character, or Webduino's
`read()` itself, which takes one off the content length for every turn of its
loop in which nothing has arrived.  The handlers cannot tell: a field that is
missing is 0 (`Defaults`), a number that is cut is another number
(`Beginnings`), and the names `10` and `11` cut to `1` name another field
(`InPart`).  `Handle` is the handler: test, write, read again, learn the
cooldown times.  `Restart` is `setup()`.  `last`, `damaged` and `had` are history.

## What the runs check

All of them together take about ten minutes on two cores.

| run | question | states | result |
|---|---|---|---|
| `relay_steady` | With the main switch left where it is: is a lamp that is turned on rested for half of its cooldown time in automatic mode (`HalfCooldown`) and for all of it in manual mode (`ManualCooldown`), and why (`SteadyLedger`)? | 62 492 | holds |
| `relay_mixed` | Mode switches, reprogramming, resets: does manual mode obey the switches (`ManualObeysSwitch`, `ManualLedShowsSwitch`) and automatic mode the windows (`TimersObeyWindow`, with `AutoRemembered` as the reason)? | 1 978 688 | holds, while a program keeps its type |
| `relay_live` | Is a lamp that is requested for good turned on for good, in both modes, although the server changes its cooldown time ever again (`EventuallyOn`, `ManualSettles`)? | 229 952 | holds |
| `relay_v_cooldown` | Is a lamp off for its whole cooldown time in automatic mode (`FullCooldown`)? | | violated |
| `store_sync` | Power failures at any cell and the watchdog in the `r` command: does the store implement `ConfigRegister` (`KeepsPromise`), do records keep the ids that `ee_init` gave them (`IdsIntact`), is the copy in RAM current (`Coherent`)? | 968 226 | holds |
| `store_v_reset` | Does the `r` command leave the defaults (`ResetDone`)? | | violated |
| `sync` | Edits race with views and reports while connections break and the controller restarts: is every edit that was not hit by a failure or overwritten by a view what the server keeps and sends (`FreshInSync`), and is it settled in the EEPROM in the end (`FreshRowsSettle`)? | 1 707 521 | holds |
| `sync_v_lost` | Does every edit arrive when a connection may break (`InSync`)? | | violated |
| `air` | Has the fan followed within an interval (`Responsive`), does the alarm rest (`AlarmRested`, with `QuietLedger` as the reason) and ring again (`AlarmsAgain`)? | 32 368 | holds |
| `console` | Whatever a sync or a restart does between two characters: is the command the one typed (`CommandAsTyped`), the parameter complete without (`LineAsTyped`) and a part of it with such an event (`NothingForeign`), and is the clock set as typed (`ClockObeys`)? | 1 162 224 | holds |
| `clock` | Is every date from 2000 to 2099 right (`CalendarRight`), summer time (`SummerTime`), the window (`WindowFollowsSun`, `SmoothDays`); does the restart come at night (`RebootsAtNight`) and once (`OneRebootANight`); is retyping what is shown harmless (`RetypeHarmless`)? | 387 480 | holds, with the exceptions below |
| `web` | Do saved records stay whatever pages are submitted (`SavedStays`), is the cooldown in use the channel's (`CooldownKnown`), does an unchanged page change nothing (`ResubmitHarmless`), does the date form set the time it shows (`DateFormSetsTime`), is the database always one that the handlers accept (`TypeOK`)? | 966 665 | holds, with the exceptions below |

Some properties name what the code does not give, so that the rest of the
promise can be checked: `SummerTime` leaves out the week after a last Sunday
that is the 25th; `RetypeHarmless` and `DateFormSetsTime` say how far the clock
is moved in the last hour of summer; `SavedStays` leaves out the records that a
form read in part may have hit, `CooldownKnown` admits every program the channel
has had since `getcooldown`, `FreshInSync` leaves out the edits that failures and
saves of whole rows destroy, and `IdsIntact` the records that a cut `ee_init` did not
reach.

### Bounds

* Relay control.  Channels meet only in the mode and in the two time stamps,
  so one switched lamp shows what can happen to a lamp; `relay_mixed` adds the
  reserve relay, which has no switch.  Time is in units a little longer than
  `timerintervall`; a pass takes one or two of them.  `Horizon` is larger than
  every cooldown time, and a time that has reached it is long enough for every
  property.  Cooldown times of 4 to 7 units take several passes to elapse.  One
  reset (`MaxResets`) is enough to have a lamp off before and after it.  In
  `relay_live` a cooldown time becomes 3 or 5 at any moment, any number of times;
  it is not removed altogether, as that may leave a waiting lamp off (below).
* Store.  One channel and two programs have every kind of neighbour: record
  after settings, record after record of another kind, record after record of
  the same kind.  Two rows per sync (`MaxLines`) have every order of kinds.  One
  power failure per behaviour (`MaxCrashes`), at any cell, that of the defaults
  included: a second one starts from an image of the same kind.  The watchdog bites
  as often as the `r` command is given.  An image has 10 cells, so `Patience` 14
  lets `ee_init` erase and write a part of the defaults, as 1212 of 1778 bytes do;
  the watchdog may also come earlier.
* Sync.  One channel, which is what reports write, and two programs; `MaxEdits`
  per row (an edit before the view reads and one after); `MaxFailures` 2;
  `Capacity` 2, so that an answer with all rows does not fit.
* Air.  Temperatures 1 and 4 lie on both sides of thresholds in order (2, 3)
  and of overlapping ones (4, 1); the interval is 1 unit, an alarm is due after
  `Minute * (AlarmWait + 1)` = 4, the histories count to 6 (`Horizon`); one reset.
* Console.  `MaxBytes` 10 in place of 64 and `IndexSpan` 16 in place of 256 keep
  their order and leave cells behind the array; one line of each kind, one sync
  per line (`MaxSyncs`) at any place, with an index at the start, in the middle
  and behind the array; `MaxLines` counts lines between two restarts.
* Clock.  Every day of the chip; the nights are the two changes of 2013, a last
  Sunday that is the 25th and New Year.  `RebootAfter` 4 passes in place of
  10 000, of which one (`PerHour`) fits into an hour and not 720 (one every five
  seconds): what matters is that they do not fit into `Rest` hours
  (`RestAssumption`; 2 in the run, 13 in the code).
* Web.  Two tabs, channels 0 and 3, programs 0, 1 and 12 (a number whose
  beginning is another program), two posts, one edit, one cut; typed numbers
  that are negative and that do not fit into 16 bits, a factory `air_tmax` that no
  form would accept; the last hours of summer.

Deadlock is checked in every run: the controller never stops.

### Fairness

`relay_live` assumes that `loop()` is called again and again (`WF(Loop)`) and
that the `r` command ends in its restart.  Nothing is assumed about switches and
windows, the property itself names those that stay.  `air` assumes the same of
its loop and of `r`, and nothing of the weather and the sensor.  `sync` assumes
that the server goes on with the views it works on (`WF(Server)`, `WF(Report)`)
and the controller with its loop (`WF(Controller)`); edits and failures are
finitely many and not fair.  `FreshRowsSettle` is stated for a row that stays
fresh: it is settled for good once no write of it is running, which a report
that brings an old mark back may repeat with every sync.

### Assumptions

* `ConfigSync`: a device polls only when the view of its last request has
  ended (requests are six minutes apart), and every channel row has a program.
* `ConfigStore`: 3.3 ms for a byte is the data sheet's figure, the code states none.
  The proofs hold for every `Patience` and any number of power failures.
* `RelayControl`: `loop()` comes back between any two of its parts within the
  watchdog's time, or `HardReset` happens.
* `Clock`: the hour turns at most once in a pass of `loop()`; the chip counts from a
  1 January to a day before 2100 (`DaysAssumption`, `NewYearAssumption`), and a typed
  date is not before it (`TypedAssumption`; the chip has no other century).  The sun
  rises after one and sets before eleven in winter time (`SunAssumption`) and moves
  by at most `DailyStep` minutes a day (`DailyAssumption`); a program's delays with
  a year of its increment fit into an `int` (`ProgramAssumption`).  TLC evaluates
  them for the table of `Sunrise.h`.
* `WebForms`: a record's number has at most two digits, and the number that its
  first digit is has a record, too (`IdAssumption`; it is so for 32 programs).  The
  hours that are looked at are those of one month (`HourAssumption`).

## What is proved

All theorems hold for every value of the constants that the named `ASSUME`s of
the modules admit.

`RelayControlProofs`

* `TypeCorrect`: the type invariant.
* `ManualCorrect`, `LedCorrect`: `ManualObeysSwitch` and `ManualLedShowsSwitch`.  Together with the
  type invariant they are inductive: the only steps into manual mode
  (`check_main` and `setup()`) rewrite every switched channel, and in manual mode
  only `check_switches` writes relays and leds.
* `RememberedCorrect`, `WindowCorrect`, under `TypesKept` (a program that is
  edited keeps its type): in automatic mode `runstate[]` remembers every burning
  automatic lamp, so `check_timers` finds it when its window closes.
* `SteadyLedgerCorrect`, `HalfCooldownCorrect`, `ManualCooldownCorrect`, under
  `TypesKept` and `~MainMoves`.  The cooldown properties are not inductive; the
  ledger is: what a lamp was credited, plus what the next passes will credit, is
  at most twice (in manual mode: once) the time it has been off, plus the time
  `setup()` counts for nothing.  Each pass takes from the second term what it adds
  to the first, each `Rest` adds to the time stamps what it adds to `offFor`.

`ConfigStoreProofs`

* `IdsStayIntact`, `TypeCorrect`, for any number of crashes and every `Patience`.  The
  inductive invariant says of each cell which values fit at its address, given how
  many cells of the defaults were written (`FitsAt`), and that the cells still to be
  written fit where they will be written.  So a write that is cut changes no id, and
  later writes find their place, or, for a record that `ee_init` did not reach, the
  place of record 0; never one beyond the database.
* `CoherentCorrect`: needs no such thing, every way into `running` ends in a load.

`ConfigStoreRefinement`

* `PromiseKept`: `ConfigStore` implements `ConfigRegister`, whatever is cut.  The
  invariant `Refines` says how far a write is: the cells of
  its slot below `ee` hold what was asked for and `left` is the rest
  (`WriteUnderWay`), the same of the defaults (`FillUnderWay`), and the slot is
  dirty as long.  `SaveRow` and `WriteSettings` begin a write of the register,
  `Written` ends it, a crash cuts it, `StartInit` and `Filled` are the reset, and
  every cell between them is a stutter, because slots do not overlap
  (`SlotsApart`) and the ids in RAM are right (`ConfigStoreProofs`).  While the
  defaults are not complete every slot is dirty, and a write elsewhere than asked is
  a stutter of a register in which nothing is settled.

`ConfigSyncProofs`

* `TypeCorrect`, `FreshRowsArrive` without assumptions, `ReliableInSync` under
  `Reliable` (no failures, answers that fit, no reports).  The inductive invariant
  says of a fresh row that the server's copy is the last edit (`Newest`) and is
  marked or on its way (`OnItsWay`): what the controller will have stored when the
  answer has arrived and was saved (`Coming`) is that content.  While a view runs for
  nobody no row is fresh, and neither the queue of a view (`QueueRight`) nor a report
  (`HeldRight`) holds an outdated copy of a fresh row.  For `ReliableInSync` the same
  is said of all rows and the server's content (`AllOnWay`), as without failures only
  an overwritten edit is missing.

`AirControlProofs`

* `TypeCorrect`; `ResponsiveCorrect`: whatever readings failed, the fan is right
  or a pass is due within the interval; `LedgerCorrect`: `alarmpaused` with what
  the next pass adds is at most the quiet time; `AlarmRestedCorrect` from it.

`ConsoleProofs`

* `TypeCorrect`, `CommandCorrect`: the command and `parametermode` depend on what was
  typed only, `index` does not touch them.  `StaysInBounds`: without a sync a line
  of any length writes one cell behind the array at most.
* `LineCorrect`, `NothingForeignCorrect`: what a parser reads, said without a fold.
  `origin` tells of each cell which character of the line it holds; up to the end
  mark these are characters of the parameter in their order (`Holds`), and without
  a sync all of them.  It is inductive together with the fact that there is an end
  mark (`Ends`): a character is stored with a mark behind it, so wherever a sync has
  moved `index`, the first mark comes before any cell of an earlier line.
* `ClockObeysCorrect`, under `PlainLines`: every line fits into `parameter[]` and means
  what the parsers read from its own text.  What that is for a text is a fold, which
  TLC evaluates for the lines of the run; the theorem says that the parsers are
  given this text, whatever came before it.  A line without a sync is dropped only
  when it is too long (`DroppedLong`), and one that is not dropped arrives as its
  word (`GivenWord`).

`ClockProofs`

* `CalendarCorrect`, `SummerTimeCorrect`, `WindowCorrect`, `SmoothCorrect`: the
  conversions on every day the chip counts.  The tables of `makeTime` are put into a
  closed form: the months by unfolding its loop (`DaysBeforeUnfolds`), the years by
  the smallest year that would be wrong (`YearStarts`).  Every day then has one
  date (`EveryDay`, `OneDate`), `BreakTime` finds it (`DateFound`), and `DayAfter`
  is the calendar.  The last Sunday of a month is found among seven days
  (`LastSundayFound`), and `dst` is compared with it (`PastLastSunday`).  The window
  is that of the sun in winter time, moved by the hour of `dst` (`WindowOnDay`),
  for the rest of a program overflows no `int` (`SleepRange`); in the last hour of
  a summer day, when the wall clock shows the next date, neither the sun nor
  `operate()` is on.  From day to day the day of the year counts one
  (`DayOfYearCounts`), so the rest grows by one increment at most (`SleepMoves`) and
  the sun by what the table allows (`SunMoves`).  The invariant needed is `OnChip`:
  the chip does not leave its century while the power is off.
* `TypeCorrect`; `RebootsAtNightCorrect`: when `uptime` is large and `t` is at hour 0,
  `t` was read in this pass and the hour turned at most once since
  (`ReadInThisPass`); `OneRebootANightCorrect`: `uptime` is at most what the passes
  since the last restart can have counted; `RetypeHarmlessCorrect`.

`WebFormsProofs`

* `SavedStaysCorrect`: a form that is handled writes `Content` into its own record
  and no other (`OwnRecordOnly`), for the EEPROM and for the history alike; the
  invariant behind it is `db = eeprom`, which `Reread` and `Restart` keep and
  without which the settings forms would undo each other.  A body that is cut
  names its record, the one its number begins with, or 0 (`FormInPart`).
* `CooldownKnownCorrect`: only the form for programs changes a cooldown time, and
  only it learns them.
* `TypeCorrect`: what `Accepted` lets through, after 16 bits (`Post`) and
  `Sanitized`, fits the record it is written to (`Ranges`); a body that is cut is
  no exception, its missing fields are 0 (`Defaults`).  The one value that no form
  would accept is the factory `air_tmax`, which a reset leaves uninitialized.
* `ResubmitHarmlessCorrect`: a page that is not outdated shows the database
  (`PageRight`, part of `Ranges`); what a page shows of a database that fits comes
  through 16 bits as it was (`ShownPosted`), and saving it changes nothing
  (`ShownSaved`).
* `DateFormCorrect`: a page of the date form shows the fields of the hour it was
  opened in, and the clock stays in the month that is watched (`DateInv`); those
  fields give that hour back, moved as `Late` says (`DateHandled`).

Only model-checked: liveness (`EventuallyOn`, `ManualSettles`, `FreshRowsSettle`,
`AlarmsAgain`), which the prover cannot do; what the parsers of `Console` compute for
a text, which is a fold over data; and `ClockObeys` for lines that are too long.

## Where code and documents disagree

With a run that shows it:

* `relay_v_cooldown`: in automatic mode `check_switches` (line 811) and
  `check_timers` (line 887) credit the same time to one counter, so a lamp is
  turned on after half of its cooldown time.
* `sync_v_lost`: the view takes the marks off before the answer has arrived.
* `store_v_reset`: the help says that `r` resets the configuration to its defaults;
  the watchdog bites in the loop that writes them, behind the version
  (`EEany.cpp:81`).  The restart takes the image for complete, and the records that
  were not reached have id 0 for good, so that a program sent for one of them is
  written over program 0.

Met while modelling, without a run:

* `timer` stands still in manual mode (lines 866 to 922); on the return to
  automatic mode the whole manual period is credited at once, even to a lamp
  that was turned off a moment ago.  A program that changes between automatic and
  MANUAL leaves a burning lamp as it is until its window or switch changes; a
  cooldown that is removed while a lamp waits leaves it off until its window
  opens again.
* `a Tmin Tmax` and `i x.x.x.x y.y.y.y` are refused in the form the help names
  (lines 1064 and 1481, `Messages.h:25` and `:28`); an address that is accepted
  takes its gateway from the wrong four numbers (line 1181).
* `views.py:35` and `:65` save whole rows with content read before; an edit in
  between is overwritten and its mark taken off, on a sound connection, too.
* `dst` (line 517) compares with a weekday that counts from 1: the change comes
  at midnight and not at two, and a last Sunday that is the 25th is missed for a
  week.  Typing the time in the last hour of summer moves the date by a day.
* The winter rest ends at New Year, as days are counted in one year; a window
  that runs past midnight is never open; a year typed as 3600, which the help
  allows, becomes 2064.
* The factory settings leave `air_tmax` uninitialized (`EEany.cpp:39`).  No
  command of the sketch sets an alarm or, given line 1064, turns the air condition
  on; a database written by version 1 has both.
* A sync that falls between `a` and its numbers leaves an empty parameter, which
  turns the air condition off; the rest of a line that is too long is executed
  as a line of its own.
* Version 1: `read()` takes one off the content length while it waits
  (`WebServer.h:670`), so a slow form is cut and, as the handlers do not test for
  it, a record with another number is overwritten; `setprogram.html` does not call
  `getcooldown`; 70000 is accepted as 4464 where 40000 is refused, both because
  of 16 bits, and a negative octet is accepted as a byte.

## Not modelled

`PROJECT.json` lists every part.

* How long a pass of `loop()` takes against the 4 s of the watchdog (but for the
  `r` command): the code states no durations.  A reset may happen at any point
  instead.
* What lies behind arrays that are overrun (`dbcooldown`, `plist`, `parameter`,
  `buffer`): the linker decides.  The models say how far the writes go, or leave
  the outcome open.
* The line format of the sync beyond its length and order (a row without a
  program is sent as `c,3,` and given program 0).
* Version 1 beyond its forms: its relay control, alarm, schedule and shell are
  earlier states of what is modelled from the sketch; of Webduino the parsing of
  the request line and the headers.
* Text (`Messages`, `Templates`), the log tables and graphs, which nobody acts on;
  the older copy of the sketch; the vendored network, database and time-table
  libraries, most of which no sketch uses (`EDB`, `DB`, `RTClib`, `TimeAlarms`,
  `ICMPPing`, `MyEthernet` as a connection that fails).

More than half of the repository's lines are such libraries, texts and copies of
the sketch; the models cover most of what the newest sketch does and about a
tenth of all lines.

## Plan

1. The line format of the sync and `plist`, as functions below `ConfigSync`.
2. Request line and headers of Webduino, below `WebForms`.
3. Composition of `RelayControl` and `Clock`: `window` becomes what `operate` says
   at a time that several functions stamp.
