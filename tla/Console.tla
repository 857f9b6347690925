-------------------------------- MODULE Console --------------------------------
(***************************************************************************)
(* The serial console: check_shell collects a line character by character, *)
(* check_command executes it.  The request for changed programs            *)
(* (djcheckmodified) uses the same global variable `index` for its own      *)
(* lines, and it runs in the same loop(), between any two characters of a  *)
(* user who types.                                                         *)
(*                                                                         *)
(* A character is its code.  Memory behind parameter[] is part of the      *)
(* array here: what else the linker puts there is left out, reach says how *)
(* far the writes went.                                                    *)
(***************************************************************************)
EXTENDS Integers, Sequences
LOCAL INSTANCE SequencesExt

CONSTANTS
    Lines,            \* what the user types: [text, means], see LineShape
    MaxBytes,         \* MAXBYTES, the length of parameter[]
    IndexSpan,        \* index is a byte: 256
    SyncIndexes,      \* what a sync can leave in index
    FactorySettings,  \* what ee_init writes
    MaxLines,         \* bound: how many lines are typed between two restarts
    MaxSyncs          \* bound: how many syncs fall into one line

CR    == 13
Blank == 32
Dot   == 46
Colon == 58
Digits == 48..57
Byte == 0..255
Octets == [1..4 -> 0..255]

SettingsShape == [aircondition: BOOLEAN, ip: Octets, gw: Octets]
Order == [what: {"date", "time", "other"}, values: Seq(Int)]
LineShape == [text: Seq(Byte \ {0}), means: Order]

ASSUME LinesAssumption ==
    /\ Lines \subseteq LineShape
    /\ \A l \in Lines : l.text # <<>> /\
         \A k \in DOMAIN l.text : l.text[k] = CR <=> k = Len(l.text)
ASSUME SizeAssumption ==
    /\ MaxBytes \in Nat \ {0}
    /\ IndexSpan \in Nat
    /\ MaxBytes < IndexSpan - 1
    /\ SyncIndexes \subseteq 0..IndexSpan - 1
    /\ FactorySettings \in SettingsShape
    /\ MaxLines \in Nat /\ MaxSyncs \in Nat

VARIABLES
    line,          \* what the user is typing
    rest,          \* the part of it that has not arrived
    command,       \* command, 0 if there is none
    parametermode, \* parametermode
    index,         \* index
    parameter,     \* parameter[] and the memory behind it
    settings,      \* the settings of the database
    clock,         \* the date and the time that were last set, <<>> before
    typed,         \* history: what has arrived since the last prompt
    syncs,         \* history: how many syncs since then
    lines,         \* how many lines are executed since the restart
    forgotten,     \* history: has an overlong line been thrown away?
    reach,         \* history: the cell of parameter[] last written since then
    origin         \* history: which character of typed a cell holds, 0 if none

shell == <<command, parametermode, index, parameter>>
history == <<typed, syncs, forgotten, reach, origin>>
vars == <<line, rest, shell, settings, clock, lines, history>>

Dates  == (1..31) \X (1..12) \X (2010..3600)
Times  == (0..23) \X (0..59) \X (0..59)
Clocks == [date: Dates \union {<<>>}, time: Times \union {<<>>}]

TypeOK ==
    /\ line \in Lines
    /\ rest \in Seq(Byte \ {0})
    /\ command \in Byte
    /\ parametermode \in BOOLEAN
    /\ index \in 0..IndexSpan - 1
    /\ parameter \in [0..IndexSpan - 1 -> Byte]
    /\ settings \in SettingsShape
    /\ clock \in Clocks
    /\ typed \in Seq(Byte \ {0, CR})
    /\ syncs \in 0..MaxSyncs
    /\ lines \in 0..MaxLines
    /\ forgotten \in BOOLEAN
    /\ reach \in 0..IndexSpan - 1
    /\ origin \in [0..IndexSpan - 1 -> Nat]

-----------------------------------------------------------------------------
(* The parsers.  `text` is the parameter as C reads it, up to the end mark. *)

IsEnd(n) == parameter[n] = 0 /\ \A k \in 0..n - 1 : parameter[k] # 0
EndMark == CHOOSE n \in 0..IndexSpan - 1 : IsEnd(n)

ParameterText == [k \in 1..EndMark |-> parameter[k - 1]]

(* atoi, in 16 bits. (More than four digits write behind buffer[]; what is  *)
(* damaged there is left out.)                                              *)
Int16(n) == ((n + 32768) % 65536) - 32768
Atoi(buffer) == FoldLeft(LAMBDA n, ch : Int16(10 * n + (ch - 48)), 0, buffer)

ScanChar(scan, ch, seps) ==
    IF ~scan.ok THEN scan
    ELSE IF ch \in Digits THEN [scan EXCEPT !.buffer = Append(@, ch)]
    ELSE IF ch \in seps THEN [scan EXCEPT !.value = Append(@, Atoi(scan.buffer)),
                                          !.buffer = <<>>]
    ELSE [scan EXCEPT !.ok = FALSE]

(* Fault: what is left in buffer is not taken after the loop.               *)
NumbersCut(text, seps) ==
    LET scan == FoldLeft(LAMBDA s, ch : ScanChar(s, ch, seps),
                         [ok |-> TRUE, value |-> <<>>, buffer |-> <<>>], text)
    IN  IF scan.ok THEN scan.value ELSE <<>>

(* The numbers of a parameter, <<>> if it has a character that is neither a *)
(* digit nor a separator.                                                   *)
Numbers(text, seps) ==
    LET scan == FoldLeft(LAMBDA s, ch : ScanChar(s, ch, seps),
                         [ok |-> TRUE, value |-> <<>>, buffer |-> <<>>], text)
    IN  IF ~scan.ok THEN <<>>
        ELSE IF scan.buffer = <<>> THEN scan.value
        ELSE Append(scan.value, Atoi(scan.buffer))

Three(v)  == <<v[1], v[2], v[3]>>
IsDate(v) == Len(v) = 3 /\ Three(v) \in Dates
IsTime(v) == Len(v) = 3 /\ Three(v) \in Times
IsAddress(v) == Len(v) = 8 /\ \A k \in 1..8 : v[k] \in 0..255

SetDate(text) ==
    LET v == Numbers(text, {Dot})
    IN  clock' = IF IsDate(v) THEN [clock EXCEPT !.date = Three(v)] ELSE clock

SetTime(text) ==
    LET v == Numbers(text, {Colon})
    IN  clock' = IF IsTime(v) THEN [clock EXCEPT !.time = Three(v)] ELSE clock

(* sh_ip takes the gateway from value[3] on.                                *)
SetAddress(text) ==
    LET v == Numbers(text, {Dot, Blank})
    IN  settings' = IF IsAddress(v)
                    THEN [settings EXCEPT !.ip = [k \in 1..4 |-> v[k]],
                                          !.gw = [k \in 1..4 |-> v[k + 3]]]
                    ELSE settings

(* The test for a digit in sh_air holds for every character, so no number   *)
(* is ever complete (nvalue stays 0) and every parameter is refused.        *)
SetAir(text) ==
    settings' = IF text = <<>> THEN [settings EXCEPT !.aircondition = FALSE]
                ELSE settings

-----------------------------------------------------------------------------
Blanks == [k \in 0..IndexSpan - 1 |-> 0]

Init ==
    /\ line \in Lines
    /\ rest = line.text
    /\ command = 0
    /\ parametermode = FALSE
    /\ index = 0
    /\ parameter = Blanks
    /\ settings = FactorySettings
    /\ clock = [date |-> <<>>, time |-> <<>>]
    /\ typed = <<>>
    /\ syncs = 0
    /\ lines = 0
    /\ forgotten = FALSE
    /\ reach = 0
    /\ origin = Blanks

(* The line is complete, the prompt is written.                             *)
Prompt ==
    /\ command' = 0
    /\ parametermode' = FALSE
    /\ index' = 0
    /\ typed' = <<>>
    /\ syncs' = 0
    /\ forgotten' = FALSE
    /\ reach' = 0
    /\ origin' = Blanks

(* The parameter is too long: the line is dropped, and with it the          *)
(* character at hand, what follows is taken for a line of its own.          *)
Forget ==
    /\ command' = 0
    /\ parametermode' = FALSE
    /\ index' = 0
    /\ parameter' = [parameter EXCEPT ![0] = 0]
    /\ forgotten' = TRUE
    /\ UNCHANGED <<syncs, reach, origin>>

(* Fault: index does not wrap.                                              *)
StoreUnwrapped(ch) ==
    /\ parameter' = [k \in 0..index + 1 |->
                       IF k = index THEN ch ELSE IF k > index THEN 0 ELSE parameter[k]]
    /\ index' = index + 1
    /\ UNCHANGED <<command, parametermode, syncs, forgotten, reach, origin>>

(* Fault: the end mark is set one cell too late.                            *)
StoreLate(ch) ==
    LET next == (index + 2) % IndexSpan
    IN  /\ parameter' = [parameter EXCEPT ![index] = ch, ![next] = 0]
        /\ index' = (index + 1) % IndexSpan
        /\ reach' = IF next > reach THEN next ELSE reach
        /\ origin' = [origin EXCEPT ![index] = Len(typed) + 1, ![next] = 0]
        /\ UNCHANGED <<command, parametermode, syncs, forgotten>>

(* A character of the parameter, and the end mark behind it.                *)
Store(ch) ==
    LET next == (index + 1) % IndexSpan
    IN  /\ parameter' = [parameter EXCEPT ![index] = ch, ![next] = 0]
        /\ index' = next
        /\ reach' = IF next > reach THEN next ELSE reach
        /\ origin' = [origin EXCEPT ![index] = Len(typed) + 1, ![next] = 0]
        /\ UNCHANGED <<command, parametermode, syncs, forgotten>>

(* Fault: parameter mode is entered without a command only.                 *)
CollectAfterCommand(ch) ==
    /\ typed' = Append(typed, ch)
    /\ IF ch = Blank
       THEN /\ parametermode' = (command # 0)
            /\ UNCHANGED <<command, index, parameter, syncs, forgotten, reach, origin>>
       ELSE IF parametermode
       THEN IF index = MaxBytes THEN Forget ELSE Store(ch)
       ELSE /\ command' = ch
            /\ UNCHANGED <<parametermode, index, parameter, syncs, forgotten, reach, origin>>

(* check_shell reads a character that does not end the line.                *)
Collect(ch) ==
    /\ typed' = Append(typed, ch)
    /\ IF ch = Blank
       THEN /\ parametermode' = TRUE
            /\ UNCHANGED <<command, index, parameter, syncs, forgotten, reach, origin>>
       ELSE IF parametermode
       THEN IF index = MaxBytes THEN Forget ELSE Store(ch)
       ELSE /\ command' = ch
            /\ UNCHANGED <<parametermode, index, parameter, syncs, forgotten, reach, origin>>

Type ==
    /\ rest # <<>> /\ Head(rest) # CR
    /\ rest' = Tail(rest)
    /\ Collect(Head(rest))
    /\ UNCHANGED <<line, settings, clock, lines>>

(* The user begins another line when the last one is executed.              *)
NextLine ==
    /\ lines < MaxLines /\ lines' = lines + 1
    /\ line' \in Lines
    /\ rest' = line'.text

Letter == [r |-> 114, b |-> 98, i |-> 105, d |-> 100, t |-> 116, a |-> 97]

(* check_command, for a command that comes back to the shell; those that    *)
(* are not named only print.                                                *)
Execute ==
    /\ rest # <<>> /\ Head(rest) = CR
    /\ command \notin {Letter.r, Letter.b}
    /\ CASE command = Letter.i /\ ParameterText # <<>> ->
              SetAddress(ParameterText) /\ UNCHANGED clock
         [] command = Letter.d -> SetDate(ParameterText) /\ UNCHANGED settings
         [] command = Letter.t -> SetTime(ParameterText) /\ UNCHANGED settings
         [] command = Letter.a -> SetAir(ParameterText) /\ UNCHANGED clock
         [] OTHER -> UNCHANGED <<settings, clock>>
    /\ parameter' = [parameter EXCEPT ![0] = 0]
    /\ Prompt
    /\ NextLine

(* The commands r and b: a restart, which clears the memory, r with the     *)
(* factory settings.                                                        *)
ResetCommand ==
    /\ rest # <<>> /\ Head(rest) = CR
    /\ command \in {Letter.r, Letter.b}
    /\ settings' = IF command = Letter.r THEN FactorySettings ELSE settings
    /\ parameter' = Blanks
    /\ Prompt
    /\ lines' = 0
    /\ line' \in Lines /\ rest' = line'.text
    /\ UNCHANGED clock

(* The watchdog or midnight, while the user types on.                       *)
Restart ==
    /\ parameter' = Blanks
    /\ Prompt
    /\ lines' = 0
    /\ UNCHANGED <<line, rest, settings, clock>>

(* djcheckmodified got an answer: index is the number of program lines in   *)
(* it or, if nothing has changed, the length of a last line that was cut.   *)
(* A connection that fails leaves index alone.                              *)
Sync(n) ==
    /\ index' = n
    /\ syncs < MaxSyncs /\ syncs' = syncs + 1
    /\ UNCHANGED <<line, rest, command, parametermode, parameter, settings, clock,
                   lines, typed, forgotten, reach, origin>>

Next ==
    \/ Type
    \/ Execute
    \/ ResetCommand
    \/ Restart
    \/ \E n \in SyncIndexes : Sync(n)

Spec == Init /\ [][Next]_vars

-----------------------------------------------------------------------------
(* Correctness.                                                             *)

(* A line as the help describes it: a word, a blank, a parameter.           *)
EndsWord(text, n) ==
    /\ \A k \in 1..n : text[k] # Blank
    /\ n = Len(text) \/ text[n + 1] = Blank

(* Whatever a sync did in between, the command is the last letter of the    *)
(* first word; only an overlong line that was dropped makes it another.     *)
CommandAsTyped ==
    ~forgotten =>
        /\ parametermode <=> \E k \in DOMAIN typed : typed[k] = Blank
        /\ \E n \in 0..Len(typed) :
             EndsWord(typed, n) /\ command = IF n = 0 THEN 0 ELSE typed[n]

(* The parameter as it was typed: what follows the first blank, without     *)
(* blanks.  The first n cells hold characters of it, in their order.        *)
ParameterPlaces ==
    {p \in DOMAIN typed : typed[p] # Blank /\ \E q \in 1..p - 1 : typed[q] = Blank}
Holds(n) ==
    \A k \in 0..n - 1 :
        /\ origin[k] \in ParameterPlaces /\ parameter[k] = typed[origin[k]]
        /\ \A j \in 0..k - 1 : origin[j] < origin[k]

(* Without a sync in between the parameter is all of that, and it stays in  *)
(* the array but for the end mark.                                          *)
LineAsTyped ==
    ~forgotten /\ syncs = 0 =>
        /\ Holds(index)
        /\ \A p \in ParameterPlaces : \E k \in 0..index - 1 : origin[k] = p
        /\ EndMark = index
        /\ reach <= MaxBytes

(* With syncs in between, characters of the line are lost or cut off, but   *)
(* nothing of an earlier line comes back and nothing changes its place.     *)
NothingForeign == ~forgotten => Holds(EndMark)

(* A line in the form of the help, typed without a sync or a restart, sets  *)
(* date and time as it says, and no other line touches them.                *)
Obeyed(order) ==
    CASE order.what = "date" -> clock' = [clock EXCEPT !.date = order.values]
      [] order.what = "time" -> clock' = [clock EXCEPT !.time = order.values]
      [] OTHER -> UNCHANGED clock
AsTyped == Append(typed, CR) = line.text /\ syncs = 0
ClockObeys ==
    [][(Execute \/ ResetCommand) /\ AsTyped => Obeyed(line.means)]_vars
==============================================================================
