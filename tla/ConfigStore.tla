------------------------------ MODULE ConfigStore ------------------------------
(***************************************************************************)
(* The configuration store: the database in EEPROM (library EEany), its    *)
(* copy in RAM, and those who write it: setup, the r command, the sync and *)
(* the commands i and a. Bytes are written one after the other, and the    *)
(* watchdog or a power failure may strike between any two of them.         *)
(*                                                                         *)
(* The image is an array of cells in the order of struct Database: the     *)
(* version, the settings, for each channel its id and its program, for     *)
(* each program its id and its data. A cell is what is written at once;    *)
(* the data of a program are two cells, so that half a program can be      *)
(* told from a whole one.                                                  *)
(***************************************************************************)
EXTENDS Integers, Sequences

CONSTANTS
    NumChannels,  \* maxchannels
    NumPrograms,  \* maxprograms
    Data,         \* contents of a data cell; 0 is the default
    Version,      \* dbversion
    Blank,        \* what a cell of a new EEPROM reads
    MaxLines,     \* how many rows one sync delivers
    Patience,     \* how many cells the r command can write in the 4 s of the
                  \* watchdog: 1212 of 2 * 889 bytes, at 3.3 ms for each
    MaxCrashes    \* how many power failures a behaviour has

ASSUME SizeAssumption ==
    /\ NumChannels \in Nat /\ NumPrograms \in Nat
    /\ NumChannels <= NumPrograms
ASSUME DataAssumption == Data \subseteq Nat /\ 0 \in Data
ASSUME VersionAssumption ==
    /\ Version \in Nat \ {0} /\ Blank \in Nat /\ Blank # Version
ASSUME BoundAssumption ==
    MaxLines \in Nat /\ MaxCrashes \in Nat /\ Patience \in Nat

VARIABLES
    image,   \* the EEPROM
    ram,     \* db
    pc,      \* what the controller is doing
    forced,  \* the r command called ee_init, and no image was loaded since
    ee,      \* the address EEPROM_writeAnything writes next; 0 when it is done
    left,    \* the cells it has still to write
    rows,    \* clist and then plist: records received and not yet saved
    asked,   \* history: the slot that is being written, and what with
    dirty,   \* history: the slots that are not settled
    filled,  \* history: the cells of the defaults that ee_init has written
             \* since it began to erase them
    crashes

vars == <<image, ram, pc, forced, ee, left, rows, asked, dirty, filled, crashes>>

-----------------------------------------------------------------------------
(* The layout that the compiler gives to struct Database, in cells.         *)
HeaderSize   == 1
SettingsSize == 1
ChannelSize  == 2
ProgramSize  == 3

ChannelIds == 0 .. NumChannels - 1
ProgramIds == 0 .. NumPrograms - 1

Channels == HeaderSize + SettingsSize
Programs == Channels + ChannelSize * NumChannels
Size     == Programs + ProgramSize * NumPrograms
Addresses == 0 .. Size - 1

ChannelField(c) == Channels + ChannelSize * c
ProgramField(p) == Programs + ProgramSize * p

(* Fault: the settings are forgotten in the sum.                            *)
ChannelAddressShort(id) == HeaderSize + ChannelSize * id
(* Fault: one element too far.                                              *)
ProgramAddressLong(id) ==
    HeaderSize + SettingsSize + ChannelSize * NumChannels + ProgramSize * (id + 1)

(* The addresses that ee_wr_channel and ee_wr_program compute by hand.      *)
ChannelAddress(id) == HeaderSize + SettingsSize + ChannelSize * id
ProgramAddress(id) ==
    HeaderSize + SettingsSize + ChannelSize * NumChannels + ProgramSize * id

-----------------------------------------------------------------------------
(* Slots: what is written on its own.                                       *)
SettingsSlot == <<"settings", 0>>
Slots ==
    {SettingsSlot} \cup ({"channel"} \X ChannelIds) \cup ({"program"} \X ProgramIds)

(* The content of a slot in an image, read through the struct.              *)
Content(img, slot) ==
    CASE slot[1] = "settings" -> <<img[HeaderSize]>>
      [] slot[1] = "channel"  ->
            LET a == ChannelField(slot[2]) IN <<img[a], img[a + 1]>>
      [] slot[1] = "program"  ->
            LET a == ProgramField(slot[2]) IN <<img[a], img[a + 1], img[a + 2]>>

(* The database that ee_init builds: each channel gets its id and the       *)
(* program of the same number, each program its id and zeros.               *)
FactoryImage ==
    [a \in Addresses |->
        IF a = 0 THEN Version
        ELSE IF a < Channels THEN 0
        ELSE IF a < Programs THEN (a - Channels) \div ChannelSize
        ELSE IF (a - Programs) % ProgramSize = 0
             THEN (a - Programs) \div ProgramSize
             ELSE 0]

Nothing == [a \in Addresses |-> 0]
Cells(img) == [k \in 1 .. Size |-> img[k - 1]]

(* db.channels[c] and db.programs[p] with new values: the id is the one     *)
(* that the copy in RAM holds.                                              *)
ChannelRow(c, program) == <<ram[ChannelField(c)], program>>
ProgramRow(p, a, b)    == <<ram[ProgramField(p)], a, b>>
-----------------------------------------------------------------------------
NotAsked == [slot |-> << >>, data |-> << >>]
ChannelRequests ==
    {[slot |-> <<"channel", c>>, data |-> <<c, p>>] : c \in ChannelIds, p \in ProgramIds}
ProgramRequests ==
    {[slot |-> <<"program", p>>, data |-> <<p, a, b>>] :
        p \in ProgramIds, a \in Data, b \in Data}
Requests == ChannelRequests \cup ProgramRequests

TypeOK ==
    /\ image \in [Addresses -> Nat]
    /\ ram \in [Addresses -> Nat]
    /\ pc \in {"boot", "erase", "fill", "load", "running", "save"}
    /\ forced \in BOOLEAN
    /\ left \in Seq(Nat)
    /\ ee \in Nat
    /\ left # << >> => ee + Len(left) <= Size
    /\ crashes \in 0 .. MaxCrashes
    /\ dirty \subseteq Slots
    /\ filled \in 0 .. Size

(* A new EEPROM, or one with an older database.                             *)
Init ==
    /\ image = [a \in Addresses |-> Blank]
    /\ ram = Nothing
    /\ pc = "boot"
    /\ forced = FALSE
    /\ ee = 0
    /\ left = << >>
    /\ rows = << >>
    /\ asked = NotAsked
    /\ dirty = Slots
    /\ filled = 0
    /\ crashes = 0

(* ee_init, up to the loop that erases.                                     *)
StartInit(force) ==
    /\ pc' = "erase"
    /\ forced' = force
    /\ ee' = 0
    /\ left' = Cells(Nothing)
    /\ dirty' = Slots
    /\ asked' = NotAsked
    /\ UNCHANGED <<image, ram, rows, filled, crashes>>

(* setup calls ee_init(RUN), which returns at once if the version is right. *)
BootKnown ==
    /\ pc = "boot"
    /\ image[0] = Version
    /\ pc' = "load"
    /\ UNCHANGED <<image, ram, forced, ee, left, rows, asked, dirty, filled, crashes>>
BootInit == pc = "boot" /\ image[0] # Version /\ StartInit(FALSE)

(* The r command calls ee_init(INIT).                                       *)
ForceInit == pc = "running" /\ StartInit(TRUE)

(* The image is one that ee_init wrote from the first cell to the last.     *)
Whole == filled = Size

(* The cells that the r command has written since the watchdog was reset;   *)
(* in setup, which calls ee_init before wdt_enable, it does not run.        *)
Spent == IF pc = "erase" THEN ee ELSE Size + ee
Watched == forced /\ pc \in {"erase", "fill"}

(* EEPROM.write: one cell, in any of the three loops that write.            *)
WriteCell ==
    /\ left # << >>
    /\ Watched => Spent < Patience
    /\ image' = [image EXCEPT ![ee] = Head(left)]
    /\ ee' = ee + 1
    /\ left' = Tail(left)
    /\ filled' = CASE pc = "erase" -> 0
                 [] pc = "fill"  -> ee + 1
                 [] OTHER        -> filled
    /\ UNCHANGED <<ram, pc, forced, rows, asked, dirty, crashes>>

Erased ==
    /\ pc = "erase" /\ left = << >>
    /\ pc' = "fill"
    /\ ee' = 0
    /\ left' = Cells(FactoryImage)
    /\ UNCHANGED <<image, ram, forced, rows, asked, dirty, filled, crashes>>

(* After the r command the controller restarts, in setup it goes on.        *)
Filled ==
    /\ pc = "fill" /\ left = << >>
    /\ dirty' = {}
    /\ pc' = IF forced THEN "boot" ELSE "load"
    /\ ram' = IF forced THEN Nothing ELSE ram
    /\ ee' = 0
    /\ UNCHANGED <<image, forced, left, rows, asked, filled, crashes>>

(* db = ee_getdb() in setup.                                                *)
Load ==
    /\ pc = "load"
    /\ ram' = image
    /\ pc' = "running"
    /\ forced' = FALSE
    /\ UNCHANGED <<image, ee, left, rows, asked, dirty, filled, crashes>>
-----------------------------------------------------------------------------
(* djcheckmodified has parsed an answer: records built from the copy in RAM. *)
(* Each carries, as history, the request it was built for.                  *)
Parsed(req) ==
    [asked |-> req,
     cells |-> IF req.slot[1] = "channel"
               THEN ChannelRow(req.slot[2], req.data[2])
               ELSE ProgramRow(req.slot[2], req.data[2], req.data[3])]

Answers ==
    UNION {[1 .. n -> Requests] : n \in 1 .. MaxLines}
ChannelsFirst(answer) ==
    \A i, j \in DOMAIN answer :
        answer[i].slot[1] = "program" /\ answer[j].slot[1] = "channel" => j < i

Receive(answer) ==
    /\ pc = "running"
    /\ ChannelsFirst(answer)
    /\ rows' = [i \in DOMAIN answer |-> Parsed(answer[i])]
    /\ pc' = "save"
    /\ UNCHANGED <<image, ram, forced, ee, left, asked, dirty, filled, crashes>>

(* ee_wr_channel or ee_wr_program of the next record.                       *)
WriteAddress(row) ==
    IF row.asked.slot[1] = "channel" THEN ChannelAddress(row.cells[1])
                                     ELSE ProgramAddress(row.cells[1])
SaveRow ==
    /\ pc = "save" /\ left = << >> /\ asked = NotAsked
    /\ rows # << >>
    /\ LET row == Head(rows) IN
        /\ ee' = WriteAddress(row)
        /\ left' = row.cells
        /\ asked' = row.asked
        /\ dirty' = dirty \cup {row.asked.slot}
    /\ rows' = Tail(rows)
    /\ UNCHANGED <<image, ram, pc, forced, filled, crashes>>

(* sh_ip and sh_air: ee_wr_settings of db.settings with new values.         *)
WriteSettings(d) ==
    /\ pc = "running"
    /\ ee' = HeaderSize
    /\ left' = <<d>>
    /\ asked' = [slot |-> SettingsSlot, data |-> <<d>>]
    /\ dirty' = dirty \cup {SettingsSlot}
    /\ pc' = "save"
    /\ UNCHANGED <<image, ram, forced, rows, filled, crashes>>

(* EEPROM_writeAnything returns.                                            *)
Written ==
    /\ pc = "save" /\ left = << >> /\ asked # NotAsked
    /\ dirty' = IF Whole THEN dirty \ {asked.slot} ELSE dirty
    /\ asked' = NotAsked
    /\ ee' = 0
    /\ UNCHANGED <<image, ram, pc, forced, left, rows, filled, crashes>>

(* All is written: db = ee_getdb().                                         *)
Saved == pc = "save" /\ left = << >> /\ asked = NotAsked /\ rows = << >>
(* Fault: the copy in RAM is not refreshed.                                 *)
ReloadNever ==
    /\ Saved
    /\ pc' = "running"
    /\ UNCHANGED <<image, ram, forced, ee, left, rows, asked, dirty, filled, crashes>>
Reload ==
    /\ Saved
    /\ ram' = image
    /\ pc' = "running"
    /\ UNCHANGED <<image, forced, ee, left, rows, asked, dirty, filled, crashes>>

(* Setup runs again: what is in RAM is lost, and a write stops where it is. *)
Restart ==
    /\ pc' = "boot"
    /\ ram' = Nothing
    /\ left' = << >>
    /\ rows' = << >>
    /\ asked' = NotAsked
    /\ ee' = 0
    /\ UNCHANGED <<image, forced, dirty, filled>>

(* A power failure, at any cell of any write.                               *)
Crash == crashes < MaxCrashes /\ crashes' = crashes + 1 /\ Restart

(* Only the end of loop() resets the watchdog, so it bites the r command    *)
(* when Patience is used up, or earlier, as the pass was under way before.  *)
Watchdog == Watched /\ Restart /\ UNCHANGED crashes

Next ==
    \/ BootKnown
    \/ BootInit
    \/ ForceInit
    \/ WriteCell
    \/ Erased
    \/ Filled
    \/ Load
    \/ \E answer \in Answers : Receive(answer)
    \/ SaveRow
    \/ \E d \in Data : WriteSettings(d)
    \/ Written
    \/ Reload
    \/ Crash
    \/ Watchdog

Spec == Init /\ [][Next]_vars
-----------------------------------------------------------------------------
(* An image whose first n cells were filled by ee_init: there each record   *)
(* has its own number as id, and behind them the 0 of the erased EEPROM.    *)
IdsUpTo(img, n) ==
    /\ \A c \in ChannelIds :
          img[ChannelField(c)] = IF ChannelField(c) < n THEN c ELSE 0
    /\ \A p \in ProgramIds :
          img[ProgramField(p)] = IF ProgramField(p) < n THEN p ELSE 0

(* ee_wr_channel and ee_wr_program find their address by the id that the    *)
(* record holds. Once the version is there, no sync, no command and no      *)
(* crash changes an id, in the EEPROM or in RAM: they all stay as ee_init   *)
(* left them. All are right if it ran to its end (filled = Size). If it was *)
(* cut, the records it did not reach have id 0 for good, as ee_exists finds *)
(* the version and setup goes on; what is sent for them is then written     *)
(* over the first record of its kind, but never beyond the database.        *)
IdsIntact ==
    /\ (image[0] = Version /\ pc \notin {"erase", "fill"}) => IdsUpTo(image, filled)
    /\ pc \in {"running", "save"} => IdsUpTo(ram, filled)

(* When the controller runs, db is what the EEPROM holds.                   *)
Coherent == pc = "running" => ram = image

(* The r command, as its help says, resets the configuration to defaults:   *)
(* the image that setup loads after it is the one of ee_init.               *)
ResetDone == pc = "load" /\ forced => image = FactoryImage

(* The store keeps the promise of ConfigRegister: slots are written as a    *)
(* whole and never by a write that was asked for another slot, from the end *)
(* of an ee_init on, wherever later writes are cut. An ee_init that is cut  *)
(* itself leaves no slot settled until another one runs to its end.         *)
Unsettled == << >>
Register == INSTANCE ConfigRegister WITH
    Contents  <- {<<d>> : d \in Data} \cup {r.data : r \in Requests},
    Factory   <- [s \in Slots |-> Content(FactoryImage, s)],
    asked     <- IF Whole THEN asked ELSE NotAsked,
    value     <- [s \in Slots |->
                    IF s \in dirty THEN Unsettled ELSE Content(image, s)]
KeepsPromise == Register!Spec
================================================================================
