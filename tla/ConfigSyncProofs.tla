---------------------------- MODULE ConfigSyncProofs ----------------------------
(***************************************************************************)
(* Proofs about ConfigSync, for any tables, any number of edits and any    *)
(* failures: what a failure can cost, and that without failures nothing is *)
(* lost on the way to the controller.                                      *)
(***************************************************************************)
EXTENDS ConfigSync, FiniteSetTheorems, TLAPS

(* The conditions of InSync: a connection that holds, a controller that     *)
(* does not restart, answers that always fit, reports that go nowhere.      *)
Reliable == MaxFailures = 0 /\ Cardinality(Rows) <= Capacity /\ ~Reports

(* What the next writes of the controller will leave in a row, if the       *)
(* answer that is on its way arrives.                                       *)
Coming(r) ==
    IF dev = "waiting" /\ seen[r] # None /\ r \notin queue THEN seen[r]
    ELSE IF lines[r] # None THEN lines[r]
    ELSE IF asked # EEPROM!Nobody /\ asked.slot = r THEN asked.data
    ELSE stored[r]

(* Each part of a sync leaves its variables clean.                          *)
ViewClean == view \in {"idle", "asked"} => queue = {} /\ seen = NoLines
DevClean  == dev # "saving" => lines = NoLines /\ asked = EEPROM!Nobody
Waiting   == dev = "waiting" => view # "idle"

(* A row is marked, or its content is on its way or stored.                 *)
OnWay(r) == modified[r] \/ Coming(r) = content[r]
OnItsWay == \A r \in fresh : OnWay(r)

(* A fresh row has the content that the owner gave it last, and what a view *)
(* is about to write back is still that content.                            *)
Newest     == \A r \in fresh : content[r] = latest[r]
QueueRight == \A r \in queue : r \in fresh => modified[r] /\ seen[r] = content[r]
HeldRight  == \A h \in held : h.row \in fresh =>
                  /\ h.content = content[h.row]
                  /\ ~h.mark => ~modified[h.row]

(* While a view runs for nobody, no row is fresh.                           *)
OrphanStale == Orphan => fresh = {}

Inv ==
    /\ TypeOK
    /\ ViewClean
    /\ DevClean
    /\ Waiting
    /\ OnItsWay
    /\ Newest
    /\ QueueRight
    /\ HeldRight
    /\ OrphanStale
-----------------------------------------------------------------------------
LEMMA NoneNoEdit == None \notin Edits /\ 0 \in Edits
BY BoundAssumption DEF None, Edits

LEMMA NoLinesFacts ==
    /\ NoLines \in [Rows -> Edits \cup {None}]
    /\ \A r \in Rows : NoLines[r] = None
    /\ Listed(NoLines) = {}
BY DEF NoLines, Listed

LEMMA NobodyFacts ==
    /\ EEPROM!Nobody.data = None
    /\ \A r, d : d \in Edits => [slot |-> r, data |-> d] # EEPROM!Nobody
<1>1. EEPROM!Nobody = [slot |-> None, data |-> None]
    BY DEF EEPROM!Nobody
<1>2. ASSUME NEW r, NEW d \in Edits PROVE [slot |-> r, data |-> d] # EEPROM!Nobody
  <2>1. [slot |-> r, data |-> d].data = d /\ [slot |-> None, data |-> None].data = None
    OBVIOUS
  <2> QED BY <1>1, <2>1, NoneNoEdit
<1> QED BY <1>1, <1>2

(* At the start the controller has everything.                              *)
LEMMA InitInv == Init => Inv
<1> SUFFICES ASSUME Init PROVE Inv
    OBVIOUS
<1>1. EEPROM!TypeOK
    BY NoneNoEdit DEF Init, EEPROM!TypeOK
<1>2. TypeOK
    BY <1>1, NoneNoEdit, NoLinesFacts, BoundAssumption DEF Init, TypeOK
<1>3. OnItsWay
    BY NoLinesFacts DEF Init, OnItsWay, OnWay, Coming
<1> QED
    BY <1>2, <1>3 DEF Init, Inv, ViewClean, DevClean, Waiting, QueueRight, Newest, OrphanStale, HeldRight,
        Orphan

(* An edit marks its row.                                                   *)
LEMMA EditWay ==
    ASSUME TypeOK, NEW r \in Rows, Edit(r), NEW s \in Rows, OnWay(s)
    PROVE  OnWay(s)'
<1>1. modified'[r] = TRUE
    BY DEF TypeOK, Edit
<1>2. s # r => modified'[s] = modified[s] /\ content'[s] = content[s]
    BY DEF TypeOK, Edit
<1>3. Coming(s)' = Coming(s)
    BY DEF Edit, viewing, Coming
<1> QED BY <1>1, <1>2, <1>3 DEF OnWay

LEMMA EditInv == ASSUME Inv, NEW r \in Rows, Edit(r) PROVE Inv'
<1>1. latest[r] + 1 \in Edits
    BY BoundAssumption DEF Inv, TypeOK, Edit, Edits
<1>2. TypeOK'
    BY <1>1 DEF Inv, TypeOK, Edit, EEPROM!TypeOK, viewing, report, Listed
<1>3. /\ modified'[r] = TRUE /\ content'[r] = latest'[r]
      /\ r \in fresh' => r \notin queue /\ ~Held(r)
    BY DEF Inv, TypeOK, Edit, Overwritten
<1>4. \A s \in Rows : s # r => /\ modified'[s] = modified[s] /\ content'[s] = content[s]
                               /\ latest'[s] = latest[s]
    BY DEF Inv, TypeOK, Edit
<1>5. fresh' \subseteq fresh \cup {r} /\ fresh \subseteq Rows /\ queue' = queue /\ seen' = seen
      /\ queue \subseteq Rows /\ held' = held
    BY DEF Edit, Inv, TypeOK, viewing, report, Listed
<1>6. OnItsWay'
  <2>1. OnWay(r)'
    BY <1>3 DEF OnWay
  <2>2. \A s \in fresh : OnWay(s)'
    BY <1>5, EditWay DEF Inv, OnItsWay
  <2> QED BY <1>5, <2>1, <2>2 DEF OnItsWay
<1>7. Newest' /\ QueueRight'
    BY <1>3, <1>4, <1>5 DEF Inv, Newest, QueueRight
<1>8. ViewClean' /\ DevClean' /\ Waiting' /\ OrphanStale'
    BY DEF Inv, Edit, viewing, ViewClean, DevClean, Waiting, OrphanStale, Orphan
<1>9. HeldRight'
  <2> SUFFICES ASSUME NEW h \in held, h.row \in fresh'
               PROVE  h.content = content'[h.row] /\ (~h.mark => ~modified'[h.row])
      BY <1>5 DEF HeldRight
  <2>1. h.row # r
      BY <1>3 DEF Held
  <2>2. h.row \in fresh /\ h.row \in Rows
      BY <1>5, <2>1
  <2> QED BY <1>4, <2>1, <2>2 DEF Inv, HeldRight
<1> QED BY <1>2, <1>6, <1>7, <1>8, <1>9 DEF Inv

(* A new request: nothing is on the way yet.                                *)
LEMMA PollWay ==
    ASSUME TypeOK, ViewClean, DevClean, Poll, NEW s \in Rows, OnWay(s)
    PROVE  OnWay(s)'
<1>1. seen = NoLines /\ queue = {} /\ lines = NoLines /\ asked = EEPROM!Nobody
    BY DEF Poll, ViewClean, DevClean
<1>2. Coming(s) = stored[s] /\ Coming(s)' = stored[s]
    BY <1>1, NoLinesFacts DEF Poll, Coming
<1> QED BY <1>2 DEF Poll, server, OnWay

LEMMA PollInv == Inv /\ Poll => Inv'
<1> SUFFICES ASSUME Inv, Poll PROVE Inv'
    OBVIOUS
<1>1. TypeOK'
    BY DEF Inv, TypeOK, Poll, server, report, EEPROM!TypeOK, Listed
<1>2. seen = NoLines /\ queue = {} /\ lines = NoLines /\ asked = EEPROM!Nobody
    BY DEF Inv, Poll, ViewClean, DevClean
<1>3. OnItsWay'
    BY PollWay DEF Inv, TypeOK, OnItsWay, Poll
<1> QED
    BY <1>1, <1>2, <1>3 DEF Inv, Poll, server, report, ViewClean, DevClean, Waiting, QueueRight,
        Newest, OrphanStale, HeldRight, Orphan

(* The view reads the rows that are marked.                                 *)
LEMMA ReadWay ==
    ASSUME Read(Channels) \/ Read(Programs),
           UNCHANGED <<content, modified, dev, lines, stored, asked>>, queue = {},
           NEW s \in Rows, OnWay(s)
    PROVE  OnWay(s)'
<1>1. ~modified[s] => s \notin queue' /\ seen'[s] = seen[s]
    BY DEF Read, Marked
<1>2. ~modified[s] => Coming(s)' = Coming(s)
    BY <1>1 DEF Coming
<1> QED BY <1>2 DEF OnWay

LEMMA ReadFacts ==
    ASSUME Inv, Read(Channels) \/ Read(Programs), queue = {},
           UNCHANGED <<content, modified, dev, lines, stored, asked, latest, fresh, failures,
                       reporting, held>>,
           view' \in {"channels", "programs"}, view # "idle"
    PROVE  Inv'
<1>1. /\ queue' \subseteq Rows
      /\ \A r \in queue' : modified[r] /\ seen'[r] = content[r]
    BY DEF Read, Marked, Rows
<1>2. seen' \in [Rows -> Edits \cup {None}]
    BY DEF Read, Marked, Inv, TypeOK
<1>3. queue' \subseteq Listed(seen')
    BY <1>1, NoneNoEdit DEF Inv, TypeOK, Listed
<1>4. TypeOK'
    BY <1>2, <1>3 DEF Inv, TypeOK, EEPROM!TypeOK, Listed
<1>5. OnItsWay'
    BY ReadWay DEF Inv, OnItsWay, TypeOK
<1>6. QueueRight' /\ Newest'
    BY <1>1 DEF QueueRight, Inv, Newest
<1> QED
    BY <1>4, <1>5, <1>6 DEF Inv, ViewClean, DevClean, Waiting, OrphanStale, HeldRight, Orphan

LEMMA ViewChannelsInv == Inv /\ ViewChannels => Inv'
<1> SUFFICES ASSUME Inv, ViewChannels PROVE Inv'
    OBVIOUS
<1>1. queue = {}
    BY DEF Inv, ViewClean, ViewChannels
<1> QED BY <1>1, ReadFacts DEF ViewChannels, server, report

LEMMA ViewProgramsInv == Inv /\ ViewPrograms => Inv'
<1> SUFFICES ASSUME Inv, ViewPrograms PROVE Inv'
    OBVIOUS
<1> QED BY ReadFacts DEF ViewPrograms, server, report

(* The view takes the mark off, and what it has read becomes the content.   *)
LEMMA ViewSavesWay ==
    ASSUME TypeOK, NEW r \in Rows, ViewSaves(r), dev = "waiting", NEW s \in Rows, OnWay(s)
    PROVE  OnWay(s)'
<1>1. r \in queue /\ seen[r] # None
    BY NoneNoEdit DEF TypeOK, ViewSaves, Listed
<1>2. /\ content'[r] = seen[r]
      /\ s # r => modified'[s] = modified[s] /\ content'[s] = content[s]
    BY <1>1 DEF TypeOK, ViewSaves, Unmarked
<1>3. queue' = queue \ {r} /\ UNCHANGED <<seen, dev, lines, stored, asked>>
    BY DEF ViewSaves
<1>4. CASE s = r
  <2>1. Coming(s)' = seen[r]
    BY <1>1, <1>3, <1>4 DEF Coming
  <2> QED BY <1>2, <1>4, <2>1 DEF OnWay
<1>5. CASE s # r
  <2>1. Coming(s)' = Coming(s)
    BY <1>3, <1>5 DEF Coming
  <2> QED BY <1>2, <1>5, <2>1 DEF OnWay
<1> QED BY <1>4, <1>5

LEMMA ViewSavesInv == ASSUME Inv, NEW r \in Rows, ViewSaves(r) PROVE Inv'
<1>1. r \in queue /\ seen[r] \in Edits
    BY NoneNoEdit DEF Inv, TypeOK, ViewSaves, Listed
<1>2. /\ content'[r] = seen[r] /\ modified'[r] = FALSE
      /\ \A s \in Rows : s # r => modified'[s] = modified[s] /\ content'[s] = content[s]
      /\ content' \in [Rows -> Edits] /\ modified' \in [Rows -> BOOLEAN]
    BY <1>1 DEF Inv, TypeOK, ViewSaves, Unmarked
<1>3. /\ queue' = queue \ {r}
      /\ UNCHANGED <<view, seen, dev, lines, stored, asked, latest, fresh, failures,
                     reporting, held>>
    BY DEF ViewSaves, report
<1>4. TypeOK'
    BY <1>2, <1>3 DEF Inv, TypeOK, EEPROM!TypeOK, Listed
<1>5. view # "idle"
    BY <1>1 DEF Inv, ViewClean
<1>6. dev # "waiting" => fresh = {}
    BY <1>5 DEF Inv, OrphanStale, Orphan
<1>7. OnItsWay'
    BY <1>3, <1>6, ViewSavesWay DEF Inv, TypeOK, OnItsWay
<1>8. r \in fresh => content'[r] = content[r]
    BY <1>1, <1>2 DEF Inv, QueueRight
<1>9. Newest' /\ QueueRight'
    BY <1>2, <1>3, <1>8 DEF Inv, TypeOK, Newest, QueueRight, Listed
<1>10. HeldRight'
  <2> SUFFICES ASSUME NEW h \in held, h.row \in fresh
               PROVE  h.content = content'[h.row] /\ (~h.mark => ~modified'[h.row])
      BY <1>3 DEF HeldRight
  <2>1. h.row \in Rows
      BY DEF Inv, TypeOK
  <2> QED BY <1>2, <1>8, <2>1 DEF Inv, HeldRight
<1> QED
    BY <1>3, <1>4, <1>7, <1>9, <1>10 DEF Inv, ViewClean, DevClean, Waiting, OrphanStale, Orphan

(* The report takes a row, which says what the database says, ...           *)
LEMMA ReportReadsInv == ASSUME Inv, NEW r \in Channels, ReportReads(r) PROVE Inv'
<1> DEFINE new == [row |-> r, content |-> content[r], mark |-> modified[r]]
<1>1. /\ held' = {new} /\ reporting' \subseteq Channels
      /\ UNCHANGED <<content, modified, view, queue, seen, dev, lines, stored, asked, latest,
                     fresh, failures>>
    BY DEF ReportReads, Inv, TypeOK, server, viewing
<1>2. new \in [row : Channels, content : Edits, mark : BOOLEAN]
    BY DEF Inv, TypeOK, Rows
<1>3. TypeOK'
    BY <1>1, <1>2 DEF Inv, TypeOK, EEPROM!TypeOK, Listed
<1>4. HeldRight'
    BY <1>1 DEF HeldRight
<1>5. \A s \in Rows : OnWay(s) => OnWay(s)'
    BY <1>1 DEF OnWay, Coming
<1>6. OnItsWay'
    BY <1>1, <1>5 DEF Inv, TypeOK, OnItsWay
<1> QED
    BY <1>1, <1>3, <1>4, <1>6 DEF Inv, ViewClean, DevClean, Waiting, QueueRight, Newest,
        OrphanStale, Orphan

(* ... and saves it: a fresh row only gets its own content, and loses its   *)
(* mark only if it had none.                                                *)
LEMMA ReportSavesInv == ASSUME Inv, NEW h \in held, ReportSaves(h) PROVE Inv'
<1>1. h.row \in Rows /\ h.content \in Edits /\ h.mark \in BOOLEAN
    BY DEF Inv, TypeOK, Rows
<1>2. /\ content'[h.row] = h.content /\ modified'[h.row] = h.mark
      /\ \A s \in Rows : s # h.row => modified'[s] = modified[s] /\ content'[s] = content[s]
      /\ content' \in [Rows -> Edits] /\ modified' \in [Rows -> BOOLEAN]
    BY <1>1 DEF Inv, TypeOK, ReportSaves, MarkKept
<1>3. /\ held' = {}
      /\ UNCHANGED <<view, queue, seen, reporting, dev, lines, stored, asked, latest, fresh,
                     failures>>
    BY DEF ReportSaves, viewing
<1>4. TypeOK'
    BY <1>2, <1>3 DEF Inv, TypeOK, EEPROM!TypeOK, Listed
<1>5. \A s \in Rows : Coming(s)' = Coming(s)
    BY <1>3 DEF Coming
<1>6. h.row \in fresh => h.content = content[h.row] /\ (~h.mark => ~modified[h.row])
    BY DEF Inv, HeldRight
<1>7. OnItsWay'
  <2> SUFFICES ASSUME NEW r \in fresh, ~modified'[r] PROVE Coming(r)' = content'[r]
      BY <1>3 DEF OnItsWay, OnWay
  <2>1. r \in Rows
      BY DEF Inv, TypeOK
  <2>2. CASE r = h.row
      BY <1>1, <1>2, <1>5, <1>6, <2>1, <2>2 DEF Inv, OnItsWay, OnWay
  <2>3. CASE r # h.row
      BY <1>2, <1>5, <2>1, <2>3 DEF Inv, OnItsWay, OnWay
  <2> QED BY <2>2, <2>3
<1>8. Newest'
    BY <1>2, <1>3, <1>6 DEF Inv, TypeOK, Newest
<1>9. QueueRight'
  <2> SUFFICES ASSUME NEW r \in queue, r \in fresh
               PROVE  modified'[r] /\ seen[r] = content'[r]
      BY <1>3 DEF QueueRight
  <2>1. r \in Rows /\ modified[r] /\ seen[r] = content[r]
      BY DEF Inv, TypeOK, QueueRight
  <2>2. CASE r = h.row
      BY <1>1, <1>2, <1>6, <2>1, <2>2
  <2>3. CASE r # h.row
      BY <1>2, <2>1, <2>3
  <2> QED BY <2>2, <2>3
<1>10. HeldRight'
    BY <1>3 DEF HeldRight
<1> QED
    BY <1>3, <1>4, <1>7, <1>8, <1>9, <1>10 DEF Inv, ViewClean, DevClean, Waiting, OrphanStale,
        Orphan

(* The answer arrives, whole or as more than data[] holds.                  *)
LEMMA DeliverWay ==
    ASSUME DevClean, Deliver, dev' = "saving", lines' = seen, NEW s \in Rows, OnWay(s)
    PROVE  OnWay(s)'
<1>1. /\ queue = {} /\ queue' = {} /\ dev = "waiting" /\ lines = NoLines
      /\ UNCHANGED <<content, modified, stored, asked>>
    BY DEF DevClean, Deliver, Answered, server
<1>2. Coming(s)' = Coming(s)
    BY <1>1, NoLinesFacts DEF Coming
<1> QED BY <1>1, <1>2 DEF OnWay

LEMMA DeliverInv == Inv /\ Deliver => Inv'
<1> SUFFICES ASSUME Inv, Deliver PROVE Inv'
    OBVIOUS
<1>1. /\ queue = {} /\ queue' = {} /\ dev = "waiting" /\ view' = "idle" /\ seen' = NoLines
      /\ lines = NoLines /\ asked = EEPROM!Nobody
      /\ UNCHANGED <<content, modified, stored, asked, latest, failures, reporting, held>>
    BY DEF Inv, DevClean, Deliver, Answered, EndView, server, report
<1>2. CASE dev' = "saving" /\ lines' = seen /\ UNCHANGED fresh
  <2>1. TypeOK'
    BY <1>1, <1>2, NoLinesFacts DEF Inv, TypeOK, EEPROM!TypeOK, Listed
  <2>3. OnItsWay'
    BY <1>2, DeliverWay DEF Inv, TypeOK, OnItsWay
  <2> QED
    BY <1>1, <1>2, <2>1, <2>3 DEF Inv, ViewClean, DevClean, Waiting, QueueRight, Newest,
        OrphanStale, HeldRight, Orphan
<1>3. CASE dev' = "stuck" /\ fresh' = {} /\ UNCHANGED lines
  <2>1. TypeOK'
    BY <1>1, <1>3, NoLinesFacts DEF Inv, TypeOK, EEPROM!TypeOK, Listed
  <2> QED
    BY <1>1, <1>3, <2>1 DEF Inv, ViewClean, DevClean, Waiting, QueueRight, Newest, OnWay,
        OnItsWay, OrphanStale, HeldRight, Orphan
<1> QED BY <1>2, <1>3 DEF Deliver

LEMMA DiscardInv == Inv /\ Discard => Inv'
<1> SUFFICES ASSUME Inv, Discard PROVE Inv'
    OBVIOUS
<1>1. TypeOK'
    BY NoLinesFacts DEF Inv, TypeOK, EEPROM!TypeOK, Listed, Discard, EndView, server, report, Answered
<1>2. fresh' = {}
    BY DEF Inv, OrphanStale, HeldRight, Orphan, Discard, Answered
<1> QED
    BY <1>1, <1>2 DEF Inv, Discard, Answered, EndView, server, report, ViewClean, DevClean, Waiting,
        QueueRight, Newest, OnWay, OnItsWay, OrphanStale, HeldRight, Orphan

(* A row goes from the list to the write in progress, and from there to the *)
(* EEPROM.                                                                  *)
LEMMA BeginSaveWay ==
    ASSUME TypeOK, NEW r \in Rows, BeginSave(r), NEW s \in Rows, OnWay(s)
    PROVE  OnWay(s)'
<1>1. /\ dev = "saving" /\ asked = EEPROM!Nobody /\ lines[r] # None /\ lines[r] \in Edits
      /\ UNCHANGED <<content, modified, queue, seen, dev>>
    BY DEF TypeOK, BeginSave, Listed, server, viewing
<1>2. asked' = [slot |-> r, data |-> lines[r]]
    BY DEF BeginSave, EEPROM!Begin
<1>3. asked' # EEPROM!Nobody /\ asked'.slot = r /\ asked'.data = lines[r]
    BY <1>1, <1>2, NobodyFacts
<1>4. /\ lines'[r] = None
      /\ s # r => lines'[s] = lines[s] /\ stored'[s] = stored[s]
    BY DEF TypeOK, EEPROM!TypeOK, BeginSave, EEPROM!Begin
<1>5. Coming(s)' = Coming(s)
    BY <1>1, <1>3, <1>4 DEF Coming
<1> QED BY <1>1, <1>5 DEF OnWay

LEMMA BeginSaveInv == ASSUME Inv, NEW r \in Rows, BeginSave(r) PROVE Inv'
<1>1. /\ dev = "saving" /\ lines[r] \in Edits
      /\ UNCHANGED <<content, modified, view, queue, seen, dev, latest, fresh, failures,
                     reporting, held>>
    BY DEF Inv, TypeOK, BeginSave, Listed, server, viewing, report
<1>2. /\ lines' = [lines EXCEPT ![r] = None]
      /\ stored' = [stored EXCEPT ![r] = None]
      /\ asked' = [slot |-> r, data |-> lines[r]]
    BY DEF BeginSave, EEPROM!Begin
<1>3. lines' \in [Rows -> Edits \cup {None}] /\ stored' \in [Rows -> Edits \cup {None}]
    BY <1>2 DEF Inv, TypeOK, EEPROM!TypeOK
<1>4. TypeOK'
    BY <1>1, <1>2, <1>3 DEF Inv, TypeOK, EEPROM!TypeOK, Listed
<1>5. OnItsWay'
    BY <1>1, BeginSaveWay DEF Inv, TypeOK, OnItsWay
<1> QED
    BY <1>1, <1>4, <1>5 DEF Inv, ViewClean, DevClean, Waiting, QueueRight, Newest,
        OrphanStale, HeldRight, Orphan

LEMMA EndSaveWay ==
    ASSUME TypeOK, DevClean, EndSave, NEW s \in Rows, OnWay(s)
    PROVE  OnWay(s)'
<1>1. /\ asked # EEPROM!Nobody /\ asked' = EEPROM!Nobody /\ dev = "saving"
      /\ UNCHANGED <<content, modified, queue, seen, dev, lines>>
    BY DEF DevClean, EndSave, EEPROM!End, server, viewing
<1>2. asked.slot \in Rows /\ asked.data \in Edits
    BY <1>1 DEF TypeOK, EEPROM!TypeOK
<1>3. /\ stored'[asked.slot] = asked.data
      /\ s # asked.slot => stored'[s] = stored[s]
    BY <1>2 DEF TypeOK, EEPROM!TypeOK, EndSave, EEPROM!End
<1>4. Coming(s)' = Coming(s)
    BY <1>1, <1>3 DEF Coming
<1> QED BY <1>1, <1>4 DEF OnWay

LEMMA EndSaveInv == Inv /\ EndSave => Inv'
<1> SUFFICES ASSUME Inv, EndSave PROVE Inv'
    OBVIOUS
<1>1. /\ asked # EEPROM!Nobody
      /\ stored' = [stored EXCEPT ![asked.slot] = asked.data]
      /\ asked' = EEPROM!Nobody
      /\ UNCHANGED <<content, modified, view, queue, seen, dev, lines, latest, fresh, failures,
                     reporting, held>>
    BY DEF EndSave, EEPROM!End, server, viewing, report
<1>2. dev = "saving"
    BY <1>1 DEF Inv, DevClean
<1>3. asked.slot \in Rows /\ asked.data \in Edits
    BY <1>1 DEF Inv, TypeOK, EEPROM!TypeOK
<1>4. stored' \in [Rows -> Edits \cup {None}]
    BY <1>1, <1>3 DEF Inv, TypeOK, EEPROM!TypeOK
<1>5. TypeOK'
    BY <1>1, <1>4 DEF Inv, TypeOK, EEPROM!TypeOK, Listed
<1>6. OnItsWay'
    BY <1>1, EndSaveWay DEF Inv, TypeOK, OnItsWay
<1> QED
    BY <1>1, <1>2, <1>5, <1>6 DEF Inv, ViewClean, DevClean, Waiting, QueueRight, Newest,
        OrphanStale, HeldRight, Orphan

(* The end of a sync: all that was on its way has arrived.                  *)
LEMMA SyncedWay ==
    ASSUME Synced, NEW s \in Rows, OnWay(s)
    PROVE  OnWay(s)'
<1>1. Coming(s)' = Coming(s)
    BY DEF Synced, viewing, Coming
<1> QED BY <1>1 DEF Synced, server, OnWay

LEMMA SyncedInv == Inv /\ Synced => Inv'
<1> SUFFICES ASSUME Inv, Synced PROVE Inv'
    OBVIOUS
<1>1. /\ dev = "saving" /\ dev' = "idle" /\ asked = EEPROM!Nobody /\ Listed(lines) = {}
      /\ UNCHANGED <<content, modified, view, queue, seen, lines, stored, asked, latest, fresh, failures,
                     reporting, held>>
    BY DEF Synced, server, viewing, report
<1>2. \A r \in Rows : lines[r] = None
    BY <1>1 DEF Listed
<1>3. lines = NoLines
    BY <1>2 DEF Inv, TypeOK, NoLines
<1>4. TypeOK'
    BY <1>1 DEF Inv, TypeOK, EEPROM!TypeOK, Listed
<1>5. OnItsWay'
    BY <1>1, SyncedWay DEF Inv, TypeOK, OnItsWay
<1> QED
    BY <1>1, <1>3, <1>4, <1>5 DEF Inv, ViewClean, DevClean, Waiting, QueueRight, Newest,
        OrphanStale, HeldRight, Orphan

(* The restart of a controller that hangs loses nothing: it has no answer.  *)
LEMMA WatchdogWay ==
    ASSUME DevClean, Watchdog, NEW s \in Rows, OnWay(s)
    PROVE  OnWay(s)'
<1>1. dev = "stuck" /\ dev' = "idle" /\ lines' = lines /\ asked' = asked
    BY DEF DevClean, Watchdog, Restart
<1>2. Coming(s)' = Coming(s)
    BY <1>1 DEF Watchdog, Restart, viewing, Coming
<1> QED BY <1>2 DEF Watchdog, Restart, server, OnWay

LEMMA WatchdogInv == Inv /\ Watchdog => Inv'
<1> SUFFICES ASSUME Inv, Watchdog PROVE Inv'
    OBVIOUS
<1>1. /\ dev = "stuck" /\ dev' = "idle" /\ lines' = lines /\ asked' = asked
      /\ UNCHANGED <<content, modified, view, queue, seen, stored, latest, fresh, failures, reporting,
                     held>>
    BY DEF Inv, DevClean, Watchdog, Restart, server, viewing, report
<1>2. TypeOK'
    BY <1>1 DEF Inv, TypeOK, EEPROM!TypeOK, Listed
<1>3. OnItsWay'
    BY <1>1, WatchdogWay DEF Inv, TypeOK, OnItsWay
<1> QED
    BY <1>1, <1>2, <1>3 DEF Inv, ViewClean, DevClean, Waiting, QueueRight, Newest,
        OrphanStale, HeldRight, Orphan

(* After a failure no row is fresh.                                         *)
LEMMA CrashInv == Inv /\ Crash => Inv'
<1> SUFFICES ASSUME Inv, Crash PROVE Inv'
    OBVIOUS
<1>1. TypeOK'
    BY NoLinesFacts, BoundAssumption DEF Inv, TypeOK, EEPROM!TypeOK, Listed, Crash, Restart, server, viewing, report
<1> QED
    BY <1>1 DEF Inv, Crash, Restart, server, viewing, report, ViewClean, DevClean, Waiting,
        QueueRight, Newest, OnWay, OnItsWay, OrphanStale, HeldRight, Orphan

LEMMA LoseInv == Inv /\ (LoseRequest \/ LoseAnswer) => Inv'
<1> SUFFICES ASSUME Inv, LoseRequest \/ LoseAnswer PROVE Inv'
    OBVIOUS
<1>1. TypeOK'
    BY BoundAssumption DEF Inv, TypeOK, EEPROM!TypeOK, Listed, LoseRequest, LoseAnswer, Break, server, viewing, report
<1> QED
    BY <1>1 DEF Inv, LoseRequest, LoseAnswer, Break, server, viewing, report, ViewClean, DevClean,
        Waiting, QueueRight, Newest, OnWay, OnItsWay, OrphanStale, HeldRight, Orphan

LEMMA LosePartInv == ASSUME Inv, NEW kept \in SUBSET Rows, LosePart(kept) PROVE Inv'
<1>1. lines' \in [Rows -> Edits \cup {None}]
    BY DEF Inv, TypeOK, LosePart
<1>2. TypeOK'
    BY <1>1, BoundAssumption, NoLinesFacts DEF Inv, TypeOK, EEPROM!TypeOK, Listed, LosePart, Break,
        Answered, EndView, server, report
<1> QED
    BY <1>2 DEF Inv, LosePart, Break, Answered, EndView, server, report, ViewClean, DevClean,
        Waiting, QueueRight, Newest, OnWay, OnItsWay, OrphanStale, HeldRight, Orphan
-----------------------------------------------------------------------------
(* The invariant holds whatever fails.                                      *)
THEOREM SyncInvariant == Spec => []Inv
<1>1. Inv /\ [Next]_vars => Inv'
  <2> SUFFICES ASSUME Inv, [Next]_vars PROVE Inv'
    OBVIOUS
  <2>1. CASE \E r \in Rows : Edit(r)
    BY <2>1, EditInv
  <2>2. CASE Server
    <3>1. CASE \E r \in Rows : ViewSaves(r)
      BY <3>1, ViewSavesInv
    <3> QED
      BY <2>2, <3>1, ViewChannelsInv, ViewProgramsInv, DeliverInv, DiscardInv DEF Server
  <2>6. CASE Report
    BY <2>6, ReportReadsInv, ReportSavesInv DEF Report
  <2>3. CASE Controller
    <3>1. CASE \E r \in Rows : BeginSave(r)
      BY <3>1, BeginSaveInv
    <3> QED
      BY <2>3, <3>1, PollInv, EndSaveInv, SyncedInv, WatchdogInv DEF Controller
  <2>4. CASE Failure
    <3>1. CASE \E kept \in SUBSET Rows : LosePart(kept)
      BY <3>1, LosePartInv
    <3> QED BY <2>4, <3>1, CrashInv, LoseInv DEF Failure
  <2>5. CASE UNCHANGED vars
    BY <2>5 DEF vars, Inv, TypeOK, EEPROM!TypeOK, Listed, ViewClean, DevClean, Waiting,
        QueueRight, Newest, OnWay, OnItsWay, OrphanStale, HeldRight, Orphan, Coming
  <2> QED BY <2>1, <2>2, <2>3, <2>4, <2>5, <2>6 DEF Next
<1> QED BY <1>1, InitInv, PTL DEF Spec

(* The type invariant.                                                      *)
THEOREM TypeCorrect == Spec => []TypeOK
<1>1. Inv => TypeOK
    BY DEF Inv
<1> QED BY <1>1, SyncInvariant, PTL

(* When nothing is under way, what was coming is stored.                    *)
LEMMA QuietComing == Inv /\ Quiet => \A r \in Rows : Coming(r) = stored[r]
BY NoLinesFacts DEF Inv, Quiet, ViewClean, DevClean, Coming

(* Only a failure, or a view that had read the row and not yet saved it,    *)
(* costs an edit: the server has every other one, and it waits there marked *)
(* or is stored.                                                            *)
THEOREM FreshRowsArrive == Spec => []FreshInSync
<1>1. Inv => FreshInSync
  <2> SUFFICES ASSUME Inv, Quiet, NEW r \in fresh
               PROVE  /\ content[r] = latest[r]
                      /\ modified[r] \/ stored[r] = latest[r]
      BY DEF FreshInSync
  <2>1. r \in Rows /\ content[r] = latest[r] /\ OnWay(r)
      BY DEF Inv, TypeOK, Newest, OnItsWay
  <2>2. Coming(r) = stored[r]
      BY <2>1, QuietComing
  <2> QED BY <2>1, <2>2 DEF OnWay
<1> QED BY <1>1, SyncInvariant, PTL

(* Without failures, reports and answers that do not fit, the controller    *)
(* has every row that is not marked, as the server has it: also a row whose *)
(* edit a view has written over.                                            *)
AllOnWay ==
    /\ \A r \in Rows : OnWay(r)
    /\ ~Orphan /\ reporting = {} /\ held = {}

LEMMA AllOnWayInit == Init => AllOnWay
BY NoLinesFacts DEF Init, AllOnWay, OnWay, Coming, Orphan

(* A step of the server.                                                    *)
LEMMA AllOnWayServer ==
    ASSUME Reliable, Inv, AllOnWay, Server
    PROVE  AllOnWay'
<1>1. view # "idle" => dev = "waiting"
    BY DEF AllOnWay, Orphan
<1>2. CASE \E r \in Rows : ViewSaves(r)
  <2>1. PICK r \in Rows : ViewSaves(r)
    BY <1>2
  <2>2. view # "idle"
    BY <2>1 DEF Inv, ViewClean, ViewSaves
  <2>3. \A s \in Rows : OnWay(s)'
    BY <1>1, <2>1, <2>2, ViewSavesWay DEF AllOnWay, Inv
  <2> QED BY <2>1, <2>3 DEF AllOnWay, ViewSaves, report, Orphan
<1>3. CASE ViewChannels \/ ViewPrograms
  <2>1. \A s \in Rows : OnWay(s)'
    BY <1>3, ReadWay DEF AllOnWay, Inv, ViewClean, ViewChannels, ViewPrograms, server
  <2> QED BY <1>1, <1>3, <2>1 DEF AllOnWay, ViewChannels, ViewPrograms, report, Orphan
<1>4. CASE Deliver
  <2>1. Listed(seen) \subseteq Rows /\ IsFiniteSet(Rows)
    BY RowAssumption DEF Listed
  <2>2. Cardinality(Listed(seen)) <= Cardinality(Rows) /\ IsFiniteSet(Listed(seen))
    BY <2>1, FS_Subset
  <2>3. Cardinality(Rows) \in Nat /\ Cardinality(Listed(seen)) \in Nat
    BY <2>1, <2>2, FS_CardinalityType
  <2>4. Cardinality(Listed(seen)) <= Capacity
    BY <2>2, <2>3, BoundAssumption DEF Reliable
  <2>5. dev' = "saving" /\ lines' = seen
    BY <1>4, <2>4 DEF Deliver
  <2>6. \A s \in Rows : OnWay(s)'
    BY <1>4, <2>5, DeliverWay DEF AllOnWay, Inv
  <2> QED BY <1>4, <2>6 DEF AllOnWay, Deliver, EndView, report, Orphan
<1>5. ~Discard
    BY <1>1 DEF Discard, Answered
<1> QED BY <1>2, <1>3, <1>4, <1>5 DEF Server

(* A step of the controller.                                                *)
LEMMA AllOnWayController ==
    ASSUME Reliable, Inv, AllOnWay, Controller
    PROVE  AllOnWay'
<1>1. \A s \in Rows : OnWay(s)'
    BY PollWay, BeginSaveWay, EndSaveWay, SyncedWay, WatchdogWay DEF Controller, AllOnWay, Inv
<1>2. ~Orphan' /\ reporting' = {} /\ held' = {}
    BY DEF AllOnWay, Controller, Poll, BeginSave, EndSave, Synced, Watchdog, Restart, viewing,
        report, Reliable, Orphan
<1> QED BY <1>1, <1>2 DEF AllOnWay

THEOREM ReliableInSync == ASSUME Reliable PROVE Spec => []InSync
<1>1. Inv /\ AllOnWay /\ [Next]_vars => AllOnWay'
  <2> SUFFICES ASSUME Inv, AllOnWay, [Next]_vars PROVE AllOnWay'
    OBVIOUS
  <2>1. ~Failure
    BY BoundAssumption DEF Failure, Crash, LoseRequest, LoseAnswer, LosePart, Break, Inv,
        TypeOK, Reliable
  <2>2. ~Report
    BY DEF AllOnWay, Report, ReportReads
  <2>3. CASE \E r \in Rows : Edit(r)
    <3>1. PICK r \in Rows : Edit(r)
      BY <2>3
    <3>2. \A s \in Rows : OnWay(s)'
      BY <3>1, EditWay DEF AllOnWay, Inv
    <3> QED BY <3>1, <3>2 DEF AllOnWay, Edit, viewing, report, Orphan
  <2>4. CASE UNCHANGED vars
    <3>1. \A s \in Rows : OnWay(s)'
      BY <2>4 DEF vars, AllOnWay, OnWay, Coming
    <3> QED BY <2>4, <3>1 DEF vars, AllOnWay, Orphan
  <2> QED BY <2>1, <2>2, <2>3, <2>4, AllOnWayServer, AllOnWayController DEF Next
<1>2. Inv /\ AllOnWay => InSync
    BY QuietComing DEF InSync, AllOnWay, OnWay
<1> QED BY <1>1, <1>2, AllOnWayInit, SyncInvariant, PTL DEF Spec
===============================================================================
