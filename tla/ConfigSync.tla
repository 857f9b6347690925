------------------------------ MODULE ConfigSync ------------------------------
(***************************************************************************)
(* The way of a change from the admin pages of the Django application to   *)
(* the EEPROM of the controller: the admin saves a row and marks it        *)
(* modified, the view `modified` sends the marked rows and takes the marks *)
(* off, djcheckmodified parses the answer and saves it row by row.         *)
(*                                                                         *)
(* The server runs the admin and the view side by side, each database      *)
(* statement is one step. The view saves whole rows, so it writes back     *)
(* what it has read. The connection may break, and the controller may      *)
(* restart, at any time. The EEPROM is the ConfigRegister that ConfigStore *)
(* implements. The content of a row is the number of its last edit.        *)
(*                                                                         *)
(* Before it asks, the controller sends a report and does not wait for the *)
(* answer, so the view `report` runs side by side with `modified`. It      *)
(* notes in each channel whether the lamp burns, and saves the whole row.  *)
(***************************************************************************)
EXTENDS Integers, FiniteSets

CONSTANTS
    Channels,    \* rows of the table Channel
    Programs,    \* rows of the table Program
    Capacity,    \* how many lines fit into data[]
    Lossy,       \* may the connection break?
    Reports,     \* does urls.py know the address of the controller's reports?
    MaxEdits,    \* how often each row is edited
    MaxFailures  \* how many restarts and broken connections there are

Rows == Channels \cup Programs

ASSUME RowAssumption == Channels \cap Programs = {} /\ IsFiniteSet(Rows)
ASSUME BoundAssumption ==
    /\ Capacity \in Nat /\ MaxEdits \in Nat /\ MaxFailures \in Nat
    /\ Lossy \in BOOLEAN /\ Reports \in BOOLEAN

None  == -1
Edits == 0 .. MaxEdits

VARIABLES
    content,   \* the rows in the database of the server
    modified,  \* their marks
    view,      \* where the view is: "idle", "asked", "channels", "programs"
    queue,     \* the rows it has still to save
    seen,      \* what it has read of each row
    reporting, \* the view report: the channels it has still to do,
    held,      \* and the row it has read and not saved
    dev,       \* the controller: "idle", "waiting", "saving", "stuck"
    lines,     \* clist and plist: what is still to be saved
    stored,    \* the EEPROM
    asked,     \* the write in progress
    latest,    \* history: the last edit of each row
    fresh,     \* history: rows whose last edit came after the last failure and the
               \* view it hit, and not while a view was about to write the row back
    failures

server  == <<content, modified>>
viewing == <<view, queue, seen>>
report  == <<reporting, held>>
vars == <<content, modified, view, queue, seen, reporting, held, dev, lines, stored, asked,
          latest, fresh, failures>>

EEPROM == INSTANCE ConfigRegister WITH
    Slots     <- Rows,
    Contents  <- Edits,
    Unsettled <- None,
    Factory   <- [r \in Rows |-> 0],
    value     <- stored

NoLines == [r \in Rows |-> None]
Listed(f) == {r \in Rows : f[r] # None}
Marked(table) == {r \in table : modified[r]}

TypeOK ==
    /\ content \in [Rows -> Edits]
    /\ modified \in [Rows -> BOOLEAN]
    /\ view \in {"idle", "asked", "channels", "programs"}
    /\ queue \subseteq Listed(seen)
    /\ seen \in [Rows -> Edits \cup {None}]
    /\ reporting \subseteq Channels
    /\ held \subseteq [row : Channels, content : Edits, mark : BOOLEAN]
    /\ dev \in {"idle", "waiting", "saving", "stuck"}
    /\ lines \in [Rows -> Edits \cup {None}]
    /\ EEPROM!TypeOK
    /\ latest \in [Rows -> Edits]
    /\ fresh \subseteq Rows
    /\ failures \in 0 .. MaxFailures

(* Server and controller start with the same configuration.                 *)
Init ==
    /\ content = [r \in Rows |-> 0]
    /\ modified = [r \in Rows |-> FALSE]
    /\ view = "idle" /\ queue = {} /\ seen = NoLines
    /\ reporting = {} /\ held = {}
    /\ dev = "idle" /\ lines = NoLines
    /\ stored = [r \in Rows |-> 0] /\ asked = EEPROM!Nobody
    /\ latest = [r \in Rows |-> 0]
    /\ fresh = Rows
    /\ failures = 0
-----------------------------------------------------------------------------
(* The view runs on after a failure, for nobody.                            *)
Orphan == view # "idle" /\ dev # "waiting"

Held(r) == \E h \in held : h.row = r

(* A view has read the row and will save it as it was: an edit made now is  *)
(* overwritten, and nobody is told.                                         *)
Overwritten(r) == r \in queue \/ Held(r)

(* The admin: save_model.                                                   *)
Edit(r) ==
    /\ latest[r] < MaxEdits
    /\ latest' = [latest EXCEPT ![r] = @ + 1]
    /\ content' = [content EXCEPT ![r] = latest[r] + 1]
    /\ modified' = [modified EXCEPT ![r] = TRUE]
    /\ fresh' = IF Orphan \/ Overwritten(r) THEN fresh \ {r} ELSE fresh \cup {r}
    /\ UNCHANGED <<viewing, report, dev, lines, stored, asked, failures>>

(* check_report: the controller reports, in vain if the connection fails or *)
(* the server does not know the address, and asks. The views of its last    *)
(* requests are over.                                                       *)
Poll ==
    /\ dev = "idle" /\ view = "idle" /\ reporting = {} /\ held = {}
    /\ dev' = "waiting"
    /\ view' = "asked"
    /\ reporting' \in {{}, IF Reports THEN Channels ELSE {}}
    /\ UNCHANGED held
    /\ UNCHANGED <<server, queue, seen, lines, stored, asked, latest, fresh, failures>>

(* Fault: the rows are read again when the answer is written.               *)
ReadLazily(table) == queue' = Marked(table) /\ UNCHANGED seen
(* The view: a query set is read when its loop begins.                      *)
Read(table) ==
    /\ queue' = Marked(table)
    /\ seen' = [r \in Rows |-> IF r \in Marked(table) THEN content[r] ELSE seen[r]]
ViewChannels ==
    /\ view = "asked"
    /\ view' = "channels"
    /\ Read(Channels)
    /\ UNCHANGED <<server, report, dev, lines, stored, asked, latest, fresh, failures>>
ViewPrograms ==
    /\ view = "channels" /\ queue = {}
    /\ view' = "programs"
    /\ Read(Programs)
    /\ UNCHANGED <<server, report, dev, lines, stored, asked, latest, fresh, failures>>

(* Fault: a save takes all marks off.                                       *)
UnmarkedAll(r) == [s \in Rows |-> FALSE]
(* A save takes the mark of its row off.                                    *)
Unmarked(r) == [modified EXCEPT ![r] = FALSE]

(* channel.save() and program.save() write every field of the row.          *)
ViewSaves(r) ==
    /\ r \in queue
    /\ content' = [content EXCEPT ![r] = seen[r]]
    /\ modified' = Unmarked(r)
    /\ queue' = queue \ {r}
    /\ UNCHANGED <<view, seen, report, dev, lines, stored, asked, latest, fresh, failures>>

(* The end of the view, when the answer is complete.                        *)
Answered == view = "programs" /\ queue = {}
EndView == view' = "idle" /\ seen' = NoLines

(* The answer reaches the controller. With more than data[] holds the loop  *)
(* that reads it does not end.                                              *)
Deliver ==
    /\ Answered /\ dev = "waiting"
    /\ EndView
    /\ IF Cardinality(Listed(seen)) <= Capacity
       THEN dev' = "saving" /\ lines' = seen /\ UNCHANGED fresh
       ELSE dev' = "stuck" /\ fresh' = {} /\ UNCHANGED lines
    /\ UNCHANGED <<server, queue, report, stored, asked, latest, failures>>

(* Nobody waits for the answer any more.                                    *)
Discard ==
    /\ Answered /\ dev # "waiting"
    /\ EndView
    /\ UNCHANGED <<server, queue, report, dev, lines, stored, asked, latest, fresh, failures>>

(* The view report: a row is read, the report is logged, the row is saved.  *)
ReportReads(r) ==
    /\ held = {} /\ r \in reporting
    /\ held' = {[row |-> r, content |-> content[r], mark |-> modified[r]]}
    /\ reporting' = reporting \ {r}
    /\ UNCHANGED <<server, viewing, dev, lines, stored, asked, latest, fresh, failures>>

(* Fault: the row is saved as if it had been sent.                          *)
MarkForgotten(h) == FALSE
MarkKept(h) == h.mark
ReportSaves(h) ==
    /\ content' = [content EXCEPT ![h.row] = h.content]
    /\ modified' = [modified EXCEPT ![h.row] = MarkKept(h)]
    /\ held' = {}
    /\ UNCHANGED <<viewing, reporting, dev, lines, stored, asked, latest, fresh, failures>>
-----------------------------------------------------------------------------
(* The controller saves a row, channels first.                              *)
BeginSave(r) ==
    /\ dev = "saving" /\ asked = EEPROM!Nobody
    /\ r \in Listed(lines)
    /\ r \in Programs => Listed(lines) \cap Channels = {}
    /\ EEPROM!Begin(r, lines[r])
    /\ lines' = [lines EXCEPT ![r] = None]
    /\ UNCHANGED <<server, viewing, report, dev, latest, fresh, failures>>
EndSave ==
    /\ EEPROM!End
    /\ UNCHANGED <<server, viewing, report, dev, lines, latest, fresh, failures>>
Synced ==
    /\ dev = "saving" /\ asked = EEPROM!Nobody /\ Listed(lines) = {}
    /\ dev' = "idle"
    /\ UNCHANGED <<server, viewing, report, lines, stored, asked, latest, fresh, failures>>

(* A restart. What is in RAM is lost; a write in progress is cut.           *)
Restart ==
    /\ dev' = "idle"
    /\ lines' = NoLines
    /\ asked' = EEPROM!Nobody
    /\ UNCHANGED <<server, viewing, report, stored, latest>>
Crash ==
    /\ failures < MaxFailures
    /\ failures' = failures + 1
    /\ fresh' = {}
    /\ Restart
(* The watchdog ends the loop that does not end.                            *)
Watchdog == dev = "stuck" /\ UNCHANGED <<fresh, failures>> /\ Restart

(* The connection breaks before the view begins, ...                        *)
Break ==
    /\ Lossy /\ failures < MaxFailures
    /\ failures' = failures + 1
    /\ dev = "waiting"
    /\ fresh' = {}
    /\ UNCHANGED <<server, report, stored, asked, latest>>
LoseRequest ==
    /\ Break
    /\ view = "asked"
    /\ view' = "idle" /\ dev' = "idle"
    /\ UNCHANGED <<queue, seen, lines>>
(* ... while it runs, ...                                                   *)
LoseAnswer ==
    /\ Break
    /\ dev' = "idle"
    /\ UNCHANGED <<viewing, lines>>
(* ... or in the answer: the lines before the break are saved.              *)
LosePart(kept) ==
    /\ Break
    /\ Answered /\ EndView
    /\ kept \subseteq Listed(seen) /\ Cardinality(kept) <= Capacity
    /\ kept \cap Programs # {} => Listed(seen) \cap Channels \subseteq kept
    /\ dev' = "saving"
    /\ lines' = [r \in Rows |-> IF r \in kept THEN seen[r] ELSE None]
    /\ UNCHANGED queue

Server ==
    \/ ViewChannels
    \/ ViewPrograms
    \/ \E r \in Rows : ViewSaves(r)
    \/ Deliver
    \/ Discard
Report ==
    \/ \E r \in Channels : ReportReads(r)
    \/ \E h \in held : ReportSaves(h)
Controller ==
    \/ Poll
    \/ \E r \in Rows : BeginSave(r)
    \/ EndSave
    \/ Synced
    \/ Watchdog
Failure ==
    \/ Crash
    \/ LoseRequest
    \/ LoseAnswer
    \/ \E kept \in SUBSET Rows : LosePart(kept)

Next ==
    \/ \E r \in Rows : Edit(r)
    \/ Server
    \/ Report
    \/ Controller
    \/ Failure

Spec == Init /\ [][Next]_vars
(* The server answers its requests; loop() of the controller runs forever.  *)
FairSpec == Spec /\ WF_vars(Server) /\ WF_vars(Report) /\ WF_vars(Controller)
-----------------------------------------------------------------------------
Quiet == view = "idle" /\ dev = "idle"

(* Between two syncs the controller has every row that is not marked, as    *)
(* the server has it. This needs a connection that never breaks, no         *)
(* restarts, short answers, and that no report reaches the server. Whether  *)
(* the server has what the owner wrote last is FreshInSync's question.      *)
InSync == Quiet => \A r \in Rows : modified[r] \/ stored[r] = content[r]

(* Three things can lose an edit, and no other can: it came before the end  *)
(* of a view that a failure hit; the view `modified` had read the row and   *)
(* not yet saved it (views.py:35), so that it writes the edit over and      *)
(* takes its mark off; or the view `report` had (views.py:61). Any other    *)
(* edit is what the server has, and waits there marked or is stored.        *)
FreshInSync ==
    Quiet => \A r \in fresh :
                /\ content[r] = latest[r]
                /\ modified[r] \/ stored[r] = latest[r]

(* When the owner has finished, the controller gets the last edit of every  *)
(* row, unless one of the three lost it. Reports may bring its mark back,   *)
(* so that it is written again and again.                                   *)
Writing(r) == asked.slot = r /\ asked.data = latest[r]
FreshRowsSettle ==
    \A r \in Rows : <>[](r \in fresh) => <>[](stored[r] = latest[r] \/ Writing(r))
================================================================================
