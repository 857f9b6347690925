----------------------------- MODULE WebFormsProofs -----------------------------
(* Theorems about the web interface, for any channels, programs, pages and  *)
(* typed numbers.                                                           *)
EXTENDS WebForms, TLAPS

(* What the proofs need to know of a page: its fields are numbers, and the  *)
(* record it belongs to is one of its form's.                               *)
PageShape(page) ==
    page # NoPage =>
      /\ page.form \in Forms
      /\ page.fields \in [Names(page.form) -> Int]
      /\ page.form \in {"setprogram", "editprogram"} => page.fields[0] \in Ids(page.form)
      /\ page.shown \in [Names(page.form) -> Int]

Inv ==
    /\ db = eeprom
    /\ eeprom \in DatabaseShape
    /\ last \in DatabaseShape
    /\ now \in Int
    /\ tabs = [tab \in Tabs |-> Page(tab)]
    /\ \A tab \in Tabs : PageShape(Page(tab))
    /\ SavedStays

(* The number of the record that a form belongs to.                         *)
Record(form, post) == IF form \in {"setprogram", "editprogram"} THEN post[0] ELSE 0

(* What a form saves, the same for every database.                          *)
Content(form, post) ==
    CASE form = "setprogram"  -> post[1]
      [] form = "editprogram" -> [n \in 1..11 |-> Sanitized(post)[n]]
      [] form = "setip"       -> [n \in 0..7 |-> Byte(post[n])]
      [] form = "air"         -> [post EXCEPT ![1] = IF @ = 0 THEN 0 ELSE 1]
      [] OTHER                -> 0

LEMMA Arithmetic == \A n \in Int : Int16(n) \in Int /\ Byte(n) \in Int
BY DEF Int16, Byte

LEMMA SmallStays == \A n \in 0..31 : Int16(n) = n
BY DEF Int16

LEMMA NamesAreNumbers ==
    ASSUME NEW form \in Forms
    PROVE  /\ Names(form) \subseteq Int
           /\ form = "setprogram" => Names(form) = 0..1
           /\ form = "editprogram" => Names(form) = 0..11
           /\ form = "setip" => Names(form) = 0..7
           /\ form = "air" => Names(form) = 1..4
           /\ form = "setdate" => Names(form) = {0, 3, 6}
BY DEF Forms, Names

LEMMA PostShape ==
    ASSUME NEW form \in Forms, NEW fields \in [Names(form) -> Int]
    PROVE  Post(form, fields) \in [Names(form) -> Int]
BY Arithmetic DEF Post

LEMMA SanitizedShape ==
    ASSUME NEW post \in [0..11 -> Int]
    PROVE  Sanitized(post) \in [0..11 -> Int]
BY DEF Sanitized

LEMMA TargetKinds ==
    ASSUME NEW target \in Targets
    PROVE  /\ target = <<target[1], target[2]>> /\ target[1] \in Forms
           /\ target[1] = "setprogram" => target[2] \in Channels
           /\ target[1] = "editprogram" => target[2] \in ProgramIds
           /\ target[1] \in {"setip", "air", "setdate"} => target[2] = 0
BY DEF Targets, Forms, Ids

(* A form changes its own record and no other.                              *)
LEMMA OwnRecordOnly ==
    ASSUME NEW d \in DatabaseShape, NEW form \in Forms,
           NEW post \in [Names(form) -> Int],
           form = "setprogram" => post[0] \in Channels,
           form = "editprogram" => post[0] \in ProgramIds
    PROVE  /\ Saved(form, post, d) \in DatabaseShape
           /\ \A target \in Targets :
                Value(Saved(form, post, d), target)
                  = IF target = <<form, Record(form, post)>>
                    THEN Content(form, post) ELSE Value(d, target)
<1>. DEFINE Right(target) ==
       Value(Saved(form, post, d), target)
         = IF target = <<form, Record(form, post)>>
           THEN Content(form, post) ELSE Value(d, target)
<1>1. CASE form = "setprogram"
  <2>1. Saved(form, post, d) = [d EXCEPT !.channel = [@ EXCEPT ![post[0]] = post[1]]]
    BY <1>1 DEF Saved
  <2>2. /\ post[0] \in Channels /\ post[1] \in Int
        /\ Record(form, post) = post[0] /\ Content(form, post) = post[1]
    BY <1>1, NamesAreNumbers DEF Record, Content
  <2>. QED
    <3>1. Saved(form, post, d) \in DatabaseShape
      BY <2>1, <2>2 DEF DatabaseShape
    <3>2. ASSUME NEW target \in Targets PROVE Right(target)
      BY <1>1, <2>1, <2>2, TargetKinds DEF DatabaseShape, Value
    <3>. QED
      BY <3>1, <3>2
<1>2. CASE form = "editprogram"
  <2>1. [n \in 1..11 |-> Sanitized(post)[n]] \in [1..11 -> Int]
    BY <1>2, NamesAreNumbers, SanitizedShape
  <2>2. /\ post[0] \in ProgramIds
        /\ Record(form, post) = post[0]
        /\ Content(form, post) = [n \in 1..11 |-> Sanitized(post)[n]]
    BY <1>2 DEF Record, Content
  <2>3. Saved(form, post, d)
          = [d EXCEPT !.program = [@ EXCEPT ![post[0]] = Content(form, post)]]
    BY <1>2, <2>2 DEF Saved
  <2>4. Saved(form, post, d) \in DatabaseShape
    BY <2>1, <2>2, <2>3 DEF DatabaseShape
  <2>5. ASSUME NEW target \in Targets PROVE Right(target)
    BY <1>2, <2>2, <2>3, TargetKinds DEF DatabaseShape, Value
  <2>. QED
    BY <2>4, <2>5
<1>3. CASE form = "setip"
  <2>1. [n \in 0..7 |-> Byte(post[n])] \in [0..7 -> Int]
    BY <1>3, NamesAreNumbers, Arithmetic
  <2>2. Record(form, post) = 0 /\ Content(form, post) = [n \in 0..7 |-> Byte(post[n])]
    BY <1>3 DEF Record, Content
  <2>3. Saved(form, post, d) = [d EXCEPT !.net = Content(form, post)]
    BY <1>3, <2>2 DEF Saved
  <2>4. Saved(form, post, d) \in DatabaseShape
    BY <2>1, <2>2, <2>3 DEF DatabaseShape
  <2>5. ASSUME NEW target \in Targets PROVE Right(target)
    BY <1>3, <2>2, <2>3, TargetKinds DEF DatabaseShape, Value
  <2>. QED
    BY <2>4, <2>5
<1>4. CASE form = "air"
  <2>1. [post EXCEPT ![1] = IF @ = 0 THEN 0 ELSE 1] \in [1..4 -> Int]
    BY <1>4, NamesAreNumbers
  <2>2. /\ Record(form, post) = 0
        /\ Content(form, post) = [post EXCEPT ![1] = IF @ = 0 THEN 0 ELSE 1]
    BY <1>4 DEF Record, Content
  <2>3. Saved(form, post, d) = [d EXCEPT !.air = Content(form, post)]
    BY <1>4, <2>2 DEF Saved
  <2>4. Saved(form, post, d) \in DatabaseShape
    BY <2>1, <2>2, <2>3 DEF DatabaseShape
  <2>5. ASSUME NEW target \in Targets PROVE Right(target)
    BY <1>4, <2>2, <2>3, TargetKinds DEF DatabaseShape, Value
  <2>. QED
    BY <2>4, <2>5
<1>5. CASE form = "setdate"
  BY <1>5, TargetKinds DEF Saved, Value, Record, Content
<1>. QED
  BY <1>1, <1>2, <1>3, <1>4, <1>5 DEF Forms

LEMMA WrittenIsSaved ==
    ASSUME db = eeprom, eeprom \in DatabaseShape, NEW form \in Forms,
           NEW post \in [Names(form) -> Int],
           form = "setprogram" => post[0] \in Channels,
           form = "editprogram" => post[0] \in ProgramIds
    PROVE  Written(form, post) = Saved(form, post, eeprom)
<1>1. CASE form = "setprogram"
  BY <1>1 DEF Written, Saved, DatabaseShape
<1>2. CASE form = "editprogram"
  BY <1>2 DEF Written, Saved, DatabaseShape
<1>3. CASE form \in {"setip", "air"}
  BY <1>3 DEF Written, Saved, DatabaseShape
<1>4. CASE form = "setdate"
  BY <1>4 DEF Written, Saved
<1>. QED
  BY <1>1, <1>2, <1>3, <1>4 DEF Forms

(* What a handler does to the database, whatever it has read.               *)
LEMMA HandleSaves ==
    ASSUME Inv, NEW form \in Forms, NEW post \in [Names(form) -> Int],
           form = "setprogram" => post[0] \in Channels,
           form = "editprogram" => post[0] \in ProgramIds,
           Handle(form, post)
    PROVE  /\ db' = eeprom' /\ eeprom' \in DatabaseShape /\ now' \in Int
           /\ \A target \in Targets :
                Value(eeprom', target)
                  = IF Accepted(form, post) /\ target = <<form, Record(form, post)>>
                    THEN Content(form, post) ELSE Value(eeprom, target)
<1>1. CASE Accepted(form, post)
  <2>1. eeprom' = Saved(form, post, eeprom)
    BY <1>1, WrittenIsSaved DEF Inv, Handle
  <2>2. now' \in Int
    BY <1>1, NamesAreNumbers DEF Inv, Handle, SetClock
  <2>. QED
    BY <1>1, <2>1, <2>2, OwnRecordOnly DEF Inv, Handle, Reread
<1>2. CASE ~Accepted(form, post)
  BY <1>2 DEF Handle, Inv
<1>. QED
  BY <1>1, <1>2

LEMMA ShownShape ==
    ASSUME NEW d \in DatabaseShape, now \in Int, NEW form \in Forms, NEW id \in Ids(form)
    PROVE  /\ Shown(form, id, d) \in [Names(form) -> Int]
           /\ form \in {"setprogram", "editprogram"} => Shown(form, id, d)[0] = id
<1>1. CASE form = "setprogram"
  BY <1>1, NamesAreNumbers, IdAssumption DEF Shown, DatabaseShape, Ids
<1>2. CASE form = "editprogram"
  BY <1>2, NamesAreNumbers, IdAssumption DEF Shown, DatabaseShape, Ids
<1>3. CASE form \in {"setip", "air"}
  BY <1>3, NamesAreNumbers DEF Shown, DatabaseShape
<1>4. CASE form = "setdate"
  <2>1. WallClock \in Int
    BY DEF WallClock
  <2>. QED
    BY <1>4, <2>1, NamesAreNumbers DEF Shown, DateFields
<1>. QED
  BY <1>1, <1>2, <1>3, <1>4 DEF Forms

(* The number of a record, or what is read of it.                           *)
LEMMA IdsShort ==
    ASSUME NEW form \in {"setprogram", "editprogram"}, NEW id \in Ids(form)
    PROVE  /\ id \in 0..31 /\ id \div 10 \in Ids(form) /\ 0 \in Ids(form)
           /\ Beginnings(id) \subseteq {id, id \div 10, 0}
<1>1. id \in 0..31 /\ id \div 10 \in Ids(form) /\ 0 \in Ids(form)
  BY IdAssumption DEF Ids
<1>2. ASSUME NEW n \in {100, 1000, 10000, 100000} PROVE id \div n = 0
  BY <1>1, <1>2
<1>. QED
  BY <1>1, <1>2 DEF Beginnings

LEMMA ReadInPart ==
    ASSUME now \in Int, NEW form \in Forms, NEW fields \in [Names(form) -> Int],
           NEW part \in InPart(form, fields)
    PROVE  /\ part \in [Names(form) -> Int]
           /\ form \in {"setprogram", "editprogram"} =>
                part[0] \in Beginnings(fields[0]) \cup {fields[0], 0}
<1>1. Defaults(form) \in [Names(form) -> Int]
  <2>1. WallClock \in Int
    BY DEF WallClock
  <2>2. CASE form = "setdate"
    <3>1. Names("setdate") = {0, 3, 6}
      BY DEF Names
    <3>2. DateFields[0] \in Int /\ DateFields[3] \in Int /\ DateFields[6] \in Int
      BY <2>1, <3>1 DEF DateFields
    <3>3. DateFields \in [{0, 3, 6} -> Int]
      BY <3>1, <3>2 DEF DateFields
    <3>. QED
      BY <2>2, <3>1, <3>3 DEF Defaults
  <2>3. CASE form # "setdate"
    BY <2>3 DEF Defaults
  <2>. QED
    BY <2>2, <2>3
<1>. DEFINE Read(k) ==
       [n \in Names(form) |-> IF n < k THEN fields[n] ELSE Defaults(form)[n]]
<1>2. PICK k \in Names(form) :
        \/ part = Read(k)
        \/ \E v \in Beginnings(fields[k]) : part = [Read(k) EXCEPT ![k] = v]
        \/ k >= 10 /\ part = [Read(k) EXCEPT ![1] = 0]
  BY NamesAreNumbers DEF InPart
<1>3. \A v \in Int : Beginnings(v) \subseteq Int
  BY DEF Beginnings
<1>4. form \in {"setprogram", "editprogram"} => Defaults(form)[0] = 0 /\ 0 \in Names(form)
  BY NamesAreNumbers DEF Defaults
<1>5. /\ Read(k) \in [Names(form) -> Int]
      /\ form \in {"setprogram", "editprogram"} => Read(k)[0] \in {fields[0], 0}
  BY <1>1, <1>4
<1>. HIDE DEF Read
<1>6. CASE part = Read(k)
  BY <1>5, <1>6
<1>7. CASE \E v \in Beginnings(fields[k]) : part = [Read(k) EXCEPT ![k] = v]
  <2>1. PICK v \in Beginnings(fields[k]) : part = [Read(k) EXCEPT ![k] = v]
    BY <1>7
  <2>2. v \in Int
    BY <2>1, <1>3
  <2>3. CASE k = 0
    BY <1>4, <1>5, <2>1, <2>2, <2>3
  <2>4. CASE k # 0
    BY <1>4, <1>5, <2>1, <2>2, <2>4
  <2>. QED
    BY <2>3, <2>4
<1>8. CASE k >= 10 /\ part = [Read(k) EXCEPT ![1] = 0]
  <2>1. form = "editprogram" /\ Names(form) = 0..11
    BY <1>8, NamesAreNumbers DEF Forms
  <2>. QED
    BY <1>5, <1>8, <2>1
<1>. QED
  BY <1>2, <1>6, <1>7, <1>8

(* The form of a page, as it is handled when it is read to the end or in    *)
(* part: the record it changes is its own, one that is left open in damaged,*)
(* or none.                                                                 *)
LEMMA WholeForm ==
    ASSUME NEW page, page # NoPage, PageShape(page)
    PROVE  LET post == Post(page.form, page.fields)
           IN  /\ post \in [Names(page.form) -> Int]
               /\ page.form = "setprogram" => post[0] \in Channels
               /\ page.form = "editprogram" => post[0] \in ProgramIds
               /\ <<page.form, Record(page.form, post)>> = Target(page.form, page.fields)
<1>. DEFINE post == Post(page.form, page.fields)
<1>1. page.form \in Forms /\ post \in [Names(page.form) -> Int]
  BY PostShape DEF PageShape
<1>2. ASSUME page.form \in {"setprogram", "editprogram"}
      PROVE  post[0] = page.fields[0] /\ post[0] \in Ids(page.form)
  <2>1. 0 \in Names(page.form) /\ page.fields[0] \in 0..31
    BY <1>1, <1>2, NamesAreNumbers, IdAssumption DEF PageShape, Ids
  <2>. QED
    BY <1>2, <2>1, SmallStays DEF Post, PageShape
<1>. QED
  BY <1>1, <1>2 DEF Record, Target, Ids

LEMMA FormInPart ==
    ASSUME NEW page, page # NoPage, PageShape(page), now \in Int,
           NEW fields \in InPart(page.form, page.fields)
    PROVE  LET post == Post(page.form, fields)
               id   == Target(page.form, page.fields)[2]
           IN  /\ post \in [Names(page.form) -> Int]
               /\ page.form = "setprogram" => post[0] \in Channels
               /\ page.form = "editprogram" => post[0] \in ProgramIds
               /\ Record(page.form, post) \in {id, id \div 10, 0}
<1>. DEFINE post == Post(page.form, fields)
<1>1. page.form \in Forms /\ page.fields \in [Names(page.form) -> Int]
  BY DEF PageShape
<1>2. fields \in [Names(page.form) -> Int] /\ post \in [Names(page.form) -> Int]
  BY <1>1, ReadInPart, PostShape
<1>3. ASSUME page.form \in {"setprogram", "editprogram"}
      PROVE  /\ post[0] \in {page.fields[0], page.fields[0] \div 10, 0}
             /\ post[0] \in Ids(page.form)
  <2>1. page.fields[0] \in Ids(page.form) /\ 0 \in Names(page.form)
    BY <1>1, <1>3, NamesAreNumbers DEF PageShape
  <2>2. fields[0] \in {page.fields[0], page.fields[0] \div 10, 0}
    BY <1>1, <1>3, <2>1, ReadInPart, IdsShort
  <2>a. PICK id \in Ids(page.form) : id = page.fields[0]
    BY <2>1
  <2>b. id \in 0..31 /\ id \div 10 \in Ids(page.form) /\ 0 \in Ids(page.form)
    BY <1>3, IdsShort
  <2>3. fields[0] \in Ids(page.form) /\ fields[0] \in 0..31
    <3>1. fields[0] \in {id, id \div 10, 0}
      BY <2>a, <2>2
    <3>2. id \div 10 \in 0..31
      BY <2>b
    <3>. QED
      BY <2>b, <3>1, <3>2
  <2>4. post[0] = fields[0]
    BY <2>1, <2>3, SmallStays DEF Post
  <2>. QED
    BY <2>2, <2>3, <2>4
<1>. QED
  BY <1>1, <1>2, <1>3 DEF Record, Target, Ids

LEMMA DatabaseFits == ASSUME NEW d, IsDatabase(d) PROVE d \in DatabaseShape
BY DEF IsDatabase

LEMMA InitInv == Init => Inv
<1>. SUFFICES ASSUME Init PROVE Inv
  OBVIOUS
<1>1. Factory \in DatabaseShape
  BY FactoryAssumption, DatabaseFits
<1>2. now \in Int
  BY HourAssumption DEF Init
<1>3. \A tab \in Tabs : PageShape(Page(tab))
  BY DEF Init, Page, PageShape
<1>. QED
  BY <1>1, <1>2, <1>3 DEF Init, Inv, SavedStays, Page

(* A page of the database fits its form.                                    *)
LEMMA OpenInv ==
    ASSUME Inv, NEW tab \in Tabs, NEW form \in Forms, NEW id \in Ids(form),
           Open(tab, form, id)
    PROVE  Inv'
<1>. DEFINE page == Show(tab, form, id, db)
<1>1. page.form = form /\ page.fields = Shown(form, id, db) /\ page.shown = page.fields
  BY DEF Show
<1>2. PageShape(page)
  BY <1>1, ShownShape DEF Inv, PageShape
<1>. HIDE DEF page
<1>3. tabs' = [tabs EXCEPT ![tab] = page]
  BY DEF Open, page
<1>4. tabs' = [other \in Tabs |-> Page(other)'] /\ \A other \in Tabs : PageShape(Page(other)')
  BY <1>2, <1>3 DEF Inv, Page
<1>. QED
  BY <1>4 DEF Inv, Open, SavedStays, Value, history

LEMMA EditInv ==
    ASSUME Inv, NEW tab \in Tabs, NEW name \in 0..11, Edit(tab, name)
    PROVE  Inv'
<1>. DEFINE page == Page(tab)
<1>1. page # NoPage /\ PageShape(page) /\ name \in Names(page.form)
  BY DEF Edit, Inv
<1>2. PICK v \in Offered(page.form, name) : tabs' = [tabs EXCEPT ![tab].fields[name] = v]
  BY DEF Edit
<1>3. /\ v \in Int
      /\ page.form \in {"setprogram", "editprogram"} => name # 0
  BY <1>1, <1>2, BoundAssumption, IdAssumption DEF Offered, PageShape, Forms
<1>4. Page(tab)' = [page EXCEPT !.fields[name] = v]
  BY <1>2 DEF Inv, Page
<1>5. PageShape(Page(tab)')
  BY <1>1, <1>3, <1>4 DEF PageShape
<1>6. \A other \in Tabs : other # tab => Page(other)' = Page(other)
  BY <1>2 DEF Inv, Page
<1>7. tabs' = [other \in Tabs |-> Page(other)']
  BY <1>2 DEF Inv, Page
<1>. QED
  BY <1>5, <1>6, <1>7 DEF Inv, Edit, SavedStays, Value, history

(* What a submission leaves of the other pages.                             *)
LEMMA OutdatedPages ==
    ASSUME Inv, NEW tab \in Tabs, NEW other \in Tabs
    PROVE  PageShape(Outdated(tab)[other])
BY DEF Inv, Outdated, PageShape, Page

LEMMA SubmitInv ==
    ASSUME Inv, NEW tab \in Tabs, Submit(tab)
    PROVE  Inv'
<1>. DEFINE page == Page(tab)
            form == page.form
            post == Post(form, page.fields)
            own  == Target(form, page.fields)
<1>1. page # NoPage /\ PageShape(page) /\ form \in Forms /\ Handle(form, post)
  BY DEF Submit, Inv, PageShape
<1>2. /\ post \in [Names(form) -> Int]
      /\ form = "setprogram" => post[0] \in Channels
      /\ form = "editprogram" => post[0] \in ProgramIds
      /\ <<form, Record(form, post)>> = own
  BY <1>1, WholeForm
<1>3. tabs' = Outdated(tab)
  BY DEF Submit
<1>4. IF Accepted(form, post)
      THEN last' = Saved(form, post, last) /\ damaged' = damaged \ {own}
      ELSE UNCHANGED <<last, damaged>>
  BY DEF Submit
<1>. HIDE DEF page, form, post, own
<1>5. /\ db' = eeprom' /\ eeprom' \in DatabaseShape /\ now' \in Int
      /\ \A target \in Targets :
           Value(eeprom', target)
             = IF Accepted(form, post) /\ target = own
               THEN Content(form, post) ELSE Value(eeprom, target)
  BY <1>1, <1>2, HandleSaves
<1>6. /\ last' \in DatabaseShape
      /\ Accepted(form, post) =>
           \A target \in Targets :
             Value(last', target) = IF target = own THEN Content(form, post)
                                    ELSE Value(last, target)
  BY <1>1, <1>2, <1>4, OwnRecordOnly DEF Inv
<1>7. SavedStays'
  <2>1. Targets' = Targets
    BY DEF Targets, Ids
  <2>2. ASSUME NEW target \in Targets, target \notin damaged'
        PROVE  Value(eeprom', target) = Value(last', target)
    BY <1>4, <1>5, <1>6, <2>2 DEF Inv, SavedStays
  <2>. QED
    BY <2>1, <2>2 DEF SavedStays, Value
<1>8. tabs' = [other \in Tabs |-> Page(other)'] /\ \A other \in Tabs : PageShape(Page(other)')
  BY <1>3, OutdatedPages DEF Page, Outdated
<1>. QED
  BY <1>5, <1>6, <1>7, <1>8 DEF Inv

LEMMA SubmitCutInv ==
    ASSUME Inv, NEW tab \in Tabs, Page(tab) # NoPage,
           NEW fields \in InPart(Page(tab).form, Page(tab).fields),
           SubmitCut(tab, fields)
    PROVE  Inv'
<1>. DEFINE page == Page(tab)
            form == page.form
            post == Post(form, fields)
            id   == Target(form, page.fields)[2]
<1>1. /\ page # NoPage /\ PageShape(page) /\ form \in Forms /\ Handle(form, post)
      /\ now \in Int
  BY DEF SubmitCut, Inv, PageShape
<1>2. /\ post \in [Names(form) -> Int]
      /\ form = "setprogram" => post[0] \in Channels
      /\ form = "editprogram" => post[0] \in ProgramIds
      /\ Record(form, post) \in {id, id \div 10, 0}
  BY <1>1, FormInPart
<1>3. tabs' = [Outdated(tab) EXCEPT ![tab] = [page EXCEPT !.current = FALSE]]
  BY DEF SubmitCut
<1>4. /\ last' = last
      /\ damaged' = damaged \cup {<<form, n>> : n \in {id, id \div 10, 0}}
  BY DEF SubmitCut
<1>5. PageShape([page EXCEPT !.current = FALSE])
  BY <1>1 DEF PageShape
<1>. HIDE DEF page, form, post, id
<1>6. /\ db' = eeprom' /\ eeprom' \in DatabaseShape /\ now' \in Int
      /\ \A target \in Targets :
           Value(eeprom', target)
             = IF Accepted(form, post) /\ target = <<form, Record(form, post)>>
               THEN Content(form, post) ELSE Value(eeprom, target)
  BY <1>1, <1>2, HandleSaves
<1>7. SavedStays'
  <2>1. Targets' = Targets
    BY DEF Targets, Ids
  <2>2. ASSUME NEW target \in Targets, target \notin damaged'
        PROVE  Value(eeprom', target) = Value(last', target)
    <3>1. target # <<form, Record(form, post)>>
      BY <1>2, <1>4, <2>2
    <3>. QED
      BY <1>4, <1>6, <2>2, <3>1 DEF Inv, SavedStays
  <2>. QED
    BY <2>1, <2>2 DEF SavedStays, Value
<1>8. tabs' = [other \in Tabs |-> Page(other)'] /\ \A other \in Tabs : PageShape(Page(other)')
  BY <1>3, <1>5, OutdatedPages DEF Page, Outdated
<1>. QED
  BY <1>4, <1>6, <1>7, <1>8 DEF Inv

LEMMA Step == Inv /\ [Next]_vars => Inv'
<1>. SUFFICES ASSUME Inv, [Next]_vars PROVE Inv'
  OBVIOUS
<1>1. ASSUME NEW tab \in Tabs, NEW form \in Forms, NEW id \in Ids(form), Open(tab, form, id)
      PROVE  Inv'
  BY <1>1, OpenInv
<1>2. ASSUME NEW tab \in Tabs, NEW name \in 0..11, Edit(tab, name) PROVE Inv'
  BY <1>2, EditInv
<1>3. ASSUME NEW tab \in Tabs, Submit(tab) PROVE Inv'
  BY <1>3, SubmitInv
<1>4. ASSUME NEW tab \in Tabs, Page(tab) # NoPage,
             NEW fields \in InPart(Page(tab).form, Page(tab).fields), SubmitCut(tab, fields)
      PROVE  Inv'
  BY <1>4, SubmitCutInv
<1>5. ASSUME NEW tab \in Tabs, Close(tab) PROVE Inv'
  BY <1>5 DEF Inv, Close, Page, PageShape, SavedStays, Value, history
<1>6. CASE Restart
  BY <1>6 DEF Inv, Restart, Page, PageShape, SavedStays, Value
<1>7. CASE HourTurns
  BY <1>7 DEF Inv, HourTurns, Page, PageShape, SavedStays, Value, history
<1>8. CASE UNCHANGED vars
  BY <1>8 DEF Inv, vars, Page, PageShape, SavedStays, Value
<1>. QED
  BY <1>1, <1>2, <1>3, <1>4, <1>5, <1>6, <1>7, <1>8 DEF Next

(* What a form has saved stays until its own form is saved again.           *)
THEOREM SavedStaysCorrect == Spec => []SavedStays
<1>1. Inv => SavedStays
  BY DEF Inv
<1>. QED
  BY <1>1, InitInv, Step, PTL DEF Spec
-----------------------------------------------------------------------------
(* Only the form for programs changes a program, and it learns the cooldown *)
(* times again.                                                             *)
CooldownInv ==
    /\ dbcooldown = [c \in Channels |-> dbcooldown[c]]
    /\ had = [c \in Channels |-> had[c]]
    /\ CooldownKnown

LEMMA Learned ==
    ASSUME dbcooldown' = Cooldowns(eeprom'),
           had' = [c \in Channels |-> {eeprom'.channel[c]}]
    PROVE  CooldownInv'
BY DEF CooldownInv, CooldownKnown, Cooldowns

LEMMA StillKnown ==
    ASSUME CooldownInv, eeprom'.program = eeprom.program, dbcooldown' = dbcooldown,
           had' = [c \in Channels |-> had'[c]],
           \A c \in Channels : had[c] \subseteq had'[c]
    PROVE  CooldownInv'
BY DEF CooldownInv, CooldownKnown

LEMMA HandleLearns ==
    ASSUME Inv, CooldownInv, NEW form \in Forms, NEW post, Handle(form, post)
    PROVE  CooldownInv'
<1>1. CASE Accepted(form, post) /\ form = "editprogram"
  <2>1. db' = eeprom' /\ dbcooldown' = Cooldowns(db')
          /\ had' = [c \in Channels |-> {db'.channel[c]}]
    BY <1>1 DEF Handle, Reread, Learn
  <2>. QED
    BY <2>1, Learned
<1>2. CASE Accepted(form, post) /\ form # "editprogram"
  <2>1. /\ dbcooldown' = dbcooldown
        /\ had' = [c \in Channels |-> had[c] \cup {db'.channel[c]}]
        /\ eeprom' = Written(form, post)
    BY <1>2 DEF Handle, Learn
  <2>2. eeprom \in DatabaseShape
    BY DEF Inv
  <2>3. eeprom'.program = eeprom.program
    BY <1>2, <2>1, <2>2 DEF Written, DatabaseShape, Forms
  <2>4. had' = [c \in Channels |-> had'[c]] /\ \A c \in Channels : had[c] \subseteq had'[c]
    BY <2>1
  <2>. QED
    BY <2>1, <2>3, <2>4, StillKnown
<1>3. CASE ~Accepted(form, post)
  BY <1>3, StillKnown DEF Handle, CooldownInv
<1>. QED
  BY <1>1, <1>2, <1>3

LEMMA CooldownStep == Inv /\ CooldownInv /\ [Next]_vars => CooldownInv'
<1>. SUFFICES ASSUME Inv, CooldownInv, [Next]_vars PROVE CooldownInv'
  OBVIOUS
<1>1. CASE UNCHANGED <<eeprom, dbcooldown, had>>
  BY <1>1, StillKnown DEF CooldownInv
<1>2. ASSUME NEW tab \in Tabs, Submit(tab) PROVE CooldownInv'
  <2>1. Page(tab).form \in Forms /\ Handle(Page(tab).form, Post(Page(tab).form, Page(tab).fields))
    BY <1>2 DEF Submit, Inv, PageShape
  <2>. QED
    BY <2>1, HandleLearns
<1>3. ASSUME NEW tab \in Tabs, NEW fields, SubmitCut(tab, fields) PROVE CooldownInv'
  <2>1. Page(tab).form \in Forms /\ Handle(Page(tab).form, Post(Page(tab).form, fields))
    BY <1>3 DEF SubmitCut, Inv, PageShape
  <2>. QED
    BY <2>1, HandleLearns
<1>4. CASE Restart
  BY <1>4, Learned DEF Restart
<1>. QED
  BY <1>1, <1>2, <1>3, <1>4
  DEF Next, vars, Open, Edit, Close, HourTurns, history

LEMMA CooldownInit == Init => CooldownInv
BY DEF Init, CooldownInv, CooldownKnown, Cooldowns

(* The cooldown time in use is that of a program of the channel.            *)
THEOREM CooldownKnownCorrect == Spec => []CooldownKnown
<1>1. CooldownInv => CooldownKnown
  BY DEF CooldownInv
<1>. QED
  BY <1>1, InitInv, Step, CooldownInit, CooldownStep, PTL DEF Spec
-----------------------------------------------------------------------------
(* The ranges of the numbers that the handlers let into the database.       *)
LEMMA SixteenBits ==
    /\ \A n \in Int : Int16(n) \in Int /\ Int16(n) <= IntMax
    /\ \A n \in 0..IntMax : Int16(n) = n
    /\ IntMax \in Nat /\ IntMax >= 255
BY DEF Int16, IntMax

LEMMA ByteRange ==
    /\ \A n \in Int : Byte(n) \in 0..255
    /\ \A n \in 1..255 : Byte(n) # 0
    /\ \A n \in 0..255 : Byte(n) = n
BY DEF Byte

LEMMA PostRange ==
    ASSUME NEW form \in Forms, NEW fields \in [Names(form) -> Int]
    PROVE  \A n \in Names(form) : Post(form, fields)[n] <= IntMax
BY SixteenBits DEF Post

(* A program that passes the tests is one.                                  *)
LEMMA SanitizedFits ==
    ASSUME NEW post \in [0..11 -> Int], \A n \in 0..11 : post[n] <= IntMax,
           Accepted("editprogram", post)
    PROVE  IsProgram([n \in 1..11 |-> Sanitized(post)[n]])
<1>. DEFINE p == Sanitized(post)
            x == [n \in 1..11 |-> p[n]]
<1>1. p \in [0..11 -> Int] /\ \A n \in 0..8 : p[n] = post[n]
  BY DEF Sanitized
<1>2. /\ post[1] \in 0..2
      /\ post[2] \in 0..23 /\ post[3] \in 0..59 /\ post[4] \in 0..23 /\ post[5] \in 0..59
      /\ post[6] >= 0 /\ post[7] >= 0 /\ post[8] >= 0
      /\ Rest(p)
  BY DEF Accepted, Hour, Minute
<1>. HIDE DEF p
<1>3. \A n \in 1..11 : x[n] = p[n]
  OBVIOUS
<1>. HIDE DEF x
<1>4. Rest(x)
  <2>1. x[9] = p[9] /\ x[10] = p[10] /\ x[11] = p[11]
    BY <1>3
  <2>2. CASE \A n \in 9..11 : p[n] = 0
    BY <1>3, <2>2 DEF Rest
  <2>3. CASE p[9] \in 1..31 /\ p[10] \in 1..12 /\ p[11] \in 1..120
    BY <2>1, <2>3 DEF Rest
  <2>. QED
    BY <1>2, <2>2, <2>3 DEF Rest
<1>5. /\ x[1] = post[1] /\ x[2] = post[2] /\ x[3] = post[3] /\ x[4] = post[4]
      /\ x[5] = post[5] /\ x[6] = post[6] /\ x[7] = post[7] /\ x[8] = post[8]
  BY <1>1, <1>3
<1>6. \A n \in 6..8 : x[n] \in 0..IntMax
  <2>1. \A n \in 6..8 : post[n] \in Int /\ post[n] <= IntMax
    OBVIOUS
  <2>2. post[6] \in 0..IntMax /\ post[7] \in 0..IntMax /\ post[8] \in 0..IntMax
    BY <1>2, <2>1, SixteenBits
  <2>3. ASSUME NEW n \in 6..8 PROVE x[n] \in 0..IntMax
    <3>1. n = 6 \/ n = 7 \/ n = 8
      OBVIOUS
    <3>. QED
      BY <1>5, <2>2, <3>1
  <2>. QED
    BY <2>3
<1>. QED
  BY <1>2, <1>4, <1>5, <1>6 DEF IsProgram, x, p

LEMMA DatabaseFrom ==
    ASSUME NEW d \in DatabaseShape, IsNet(d.net), IsAir(d.air),
           \A c \in Channels : d.channel[c] \in ProgramIds,
           \A p \in ProgramIds : IsProgram(d.program[p])
    PROVE  IsDatabase(d)
BY DEF IsDatabase

(* What is saved of a form that passes the tests is a database again.       *)
LEMMA SavedFits ==
    ASSUME NEW d, IsDatabase(d), NEW form \in Forms,
           NEW post \in [Names(form) -> Int],
           \A n \in Names(form) : post[n] <= IntMax,
           form = "setprogram" => post[0] \in Channels /\ post[1] \in ProgramIds,
           form = "editprogram" => post[0] \in ProgramIds,
           Accepted(form, post)
    PROVE  IsDatabase(Saved(form, post, d))
<1>. DEFINE new == Saved(form, post, d)
<1>1. new \in DatabaseShape /\ d \in DatabaseShape
  BY OwnRecordOnly DEF IsDatabase
<1>2. CASE form = "setprogram"
  <2>1. new = [d EXCEPT !.channel = [@ EXCEPT ![post[0]] = post[1]]]
    BY <1>2 DEF Saved
  <2>2. new.net = d.net /\ new.air = d.air /\ new.program = d.program
        /\ new.channel = [d.channel EXCEPT ![post[0]] = post[1]]
    BY <1>1, <2>1 DEF DatabaseShape
  <2>3. \A c \in Channels : new.channel[c] \in ProgramIds
    BY <1>1, <1>2, <2>2 DEF IsDatabase, DatabaseShape
  <2>. QED
    BY <1>1, <2>2, <2>3, DatabaseFrom DEF IsDatabase
<1>3. CASE form = "editprogram"
  <2>. DEFINE x == [n \in 1..11 |-> Sanitized(post)[n]]
  <2>1. IsProgram(x)
    BY <1>3, NamesAreNumbers, SanitizedFits
  <2>2. new = [d EXCEPT !.program = [@ EXCEPT ![post[0]] = x]]
    BY <1>3 DEF Saved
  <2>. HIDE DEF x
  <2>3. new.net = d.net /\ new.air = d.air /\ new.channel = d.channel
        /\ new.program = [d.program EXCEPT ![post[0]] = x]
    BY <1>1, <2>2 DEF DatabaseShape
  <2>4. \A p \in ProgramIds : new.program[p] = IF p = post[0] THEN x ELSE d.program[p]
    BY <1>1, <2>3 DEF DatabaseShape
  <2>5. \A p \in ProgramIds : IsProgram(new.program[p])
    BY <2>1, <2>4 DEF IsDatabase
  <2>. QED
    BY <1>1, <2>3, <2>5, DatabaseFrom DEF IsDatabase
<1>4. CASE form = "setip"
  <2>. DEFINE x == [n \in 0..7 |-> Byte(post[n])]
  <2>1. new = [d EXCEPT !.net = x]
    BY <1>4 DEF Saved
  <2>2. post \in [0..7 -> Int] /\ post[0] \in 1..255 /\ post[4] \in 1..255
    BY <1>4, NamesAreNumbers DEF Accepted
  <2>3. IsNet(x)
    BY <2>2, ByteRange DEF IsNet
  <2>. HIDE DEF x
  <2>4. new.net = x /\ new.air = d.air /\ new.channel = d.channel /\ new.program = d.program
    BY <1>1, <2>1 DEF DatabaseShape
  <2>. QED
    BY <1>1, <2>3, <2>4, DatabaseFrom DEF IsDatabase
<1>5. CASE form = "air"
  <2>. DEFINE x == [post EXCEPT ![1] = IF @ = 0 THEN 0 ELSE 1]
  <2>1. new = [d EXCEPT !.air = x]
    BY <1>5 DEF Saved
  <2>2. post \in [1..4 -> Int] /\ \A n \in 2..4 : post[n] \in 0..65
    BY <1>5, NamesAreNumbers DEF Accepted
  <2>3. IsAir(x)
    BY <2>2 DEF IsAir
  <2>. HIDE DEF x
  <2>4. new.air = x /\ new.net = d.net /\ new.channel = d.channel /\ new.program = d.program
    BY <1>1, <2>1 DEF DatabaseShape
  <2>. QED
    BY <1>1, <2>3, <2>4, DatabaseFrom DEF IsDatabase
<1>6. CASE form = "setdate"
  BY <1>6 DEF Saved
<1>. QED
  BY <1>2, <1>3, <1>4, <1>5, <1>6 DEF Forms

(* The number of a program in the form for channels, read in part.          *)
LEMMA ProgramInPart ==
    ASSUME NEW fields \in [0..1 -> Int], fields[1] \in ProgramIds,
           NEW part \in InPart("setprogram", fields)
    PROVE  part[1] \in ProgramIds
<1>1. Names("setprogram") = 0..1
  BY DEF Names
<1>2. Defaults("setprogram") = [n \in 0..1 |-> 0]
  BY <1>1 DEF Defaults
<1>. DEFINE Read(k) == [n \in 0..1 |-> IF n < k THEN fields[n] ELSE 0]
<1>3. PICK k \in 0..1 :
        \/ part = Read(k)
        \/ \E v \in Beginnings(fields[k]) : part = [Read(k) EXCEPT ![k] = v]
  BY <1>1, <1>2 DEF InPart
<1>4. Read(k)[1] = 0 /\ 0 \in ProgramIds /\ DOMAIN Read(k) = 0..1
  BY IdAssumption
<1>. HIDE DEF Read
<1>5. CASE part = Read(k)
  BY <1>4, <1>5
<1>6. ASSUME NEW v \in Beginnings(fields[k]), part = [Read(k) EXCEPT ![k] = v]
      PROVE  part[1] \in ProgramIds
  <2>1. CASE k = 0
    BY <1>4, <1>6, <2>1
  <2>2. CASE k = 1
    <3>1. ProgramIds = Ids("editprogram")
      BY DEF Ids
    <3>2. Beginnings(fields[1]) \subseteq {fields[1], fields[1] \div 10, 0}
          /\ fields[1] \div 10 \in ProgramIds
      BY <3>1, IdsShort
    <3>3. part[1] = v /\ v \in Beginnings(fields[1])
      BY <1>4, <1>6, <2>2
    <3>. QED
      BY <1>4, <3>2, <3>3
  <2>. QED
    BY <2>1, <2>2
<1>. QED
  BY <1>3, <1>5, <1>6
-----------------------------------------------------------------------------
(* What a page shows of a record, without the date form, whose content is   *)
(* the time.                                                                *)
RecordShown(form, id, d) ==
    CASE form = "setprogram"  -> [n \in 0..1 |-> IF n = 0 THEN id ELSE d.channel[id]]
      [] form = "editprogram" -> [n \in 0..11 |-> IF n = 0 THEN id ELSE d.program[id][n]]
      [] form = "setip"       -> d.net
      [] form = "air"         -> d.air

(* A page that is current shows the database d.                             *)
RecordOf(page) == Target(page.form, page.fields)[2]
PageRight(page, d) ==
    page # NoPage =>
      /\ page.at \in Int /\ page.current \in BOOLEAN
      /\ page.form = "setprogram" => page.fields[1] \in ProgramIds
      /\ page.current /\ page.form # "setdate" =>
           /\ page.shown = RecordShown(page.form, RecordOf(page), d)
           /\ RecordOf(page) \in Ids(page.form)

Ranges ==
    /\ IsDatabase(eeprom) /\ IsDatabase(last)
    /\ \A tab \in Tabs : PageRight(Page(tab), eeprom)

LEMMA ShownRecord ==
    ASSUME NEW form \in Forms, form # "setdate", NEW id, NEW d
    PROVE  Shown(form, id, d) = RecordShown(form, id, d)
BY DEF Shown, RecordShown, Forms

LEMMA InitRanges == Init => Ranges
BY FactoryAssumption DEF Init, Ranges, PageRight, Page

(* What a handler does, whatever it has read.                               *)
LEMMA HandleRanges ==
    ASSUME Inv, Ranges, NEW form \in Forms, NEW fields \in [Names(form) -> Int],
           form = "setprogram" =>
             Post(form, fields)[0] \in Channels /\ Post(form, fields)[1] \in ProgramIds,
           form = "editprogram" => Post(form, fields)[0] \in ProgramIds,
           Handle(form, Post(form, fields))
    PROVE  IsDatabase(eeprom')
<1>. DEFINE post == Post(form, fields)
<1>1. post \in [Names(form) -> Int] /\ \A n \in Names(form) : post[n] <= IntMax
  BY PostShape, PostRange
<1>. HIDE DEF post
<1>2. Handle(form, post)
  BY DEF post
<1>3. /\ form = "setprogram" => post[0] \in Channels /\ post[1] \in ProgramIds
      /\ form = "editprogram" => post[0] \in ProgramIds
  BY DEF post
<1>4. CASE Accepted(form, post)
  <2>1. eeprom' = Saved(form, post, eeprom)
    BY <1>1, <1>2, <1>3, <1>4, WrittenIsSaved DEF Inv, Handle
  <2>2. IsDatabase(Saved(form, post, eeprom))
    BY <1>1, <1>3, <1>4, SavedFits DEF Ranges
  <2>. QED
    BY <2>1, <2>2
<1>5. CASE ~Accepted(form, post)
  BY <1>2, <1>5 DEF Handle, Ranges
<1>. QED
  BY <1>4, <1>5

(* A number of a program comes out of 16 bits as it was.                    *)
LEMMA ProgramPosted ==
    ASSUME NEW fields \in [Names("setprogram") -> Int], fields[1] \in ProgramIds
    PROVE  Post("setprogram", fields)[1] \in ProgramIds
<1>1. 1 \in Names("setprogram") /\ fields[1] \in 0..31
  BY IdAssumption DEF Names
<1>. QED
  BY <1>1, SmallStays DEF Post

LEMMA OldPage ==
    ASSUME Ranges, NEW tab \in Tabs, NEW other \in Tabs, Inv
    PROVE  LET page == Outdated(tab)[other]
           IN  page # NoPage => /\ page.at \in Int /\ page.current = FALSE
                                /\ page.form = "setprogram" => page.fields[1] \in ProgramIds
BY DEF Ranges, PageRight, Inv, PageShape, Outdated, Page

LEMMA OpenRanges ==
    ASSUME Inv, Ranges, NEW tab \in Tabs, NEW form \in Forms, NEW id \in Ids(form),
           Open(tab, form, id)
    PROVE  Ranges'
<1>. DEFINE page == Show(tab, form, id, db)
<1>1. /\ page.form = form /\ page.fields = Shown(form, id, db) /\ page.shown = page.fields
      /\ page.current = TRUE /\ page.at \in Int
  BY DEF Show, Inv
<1>2. form \in {"setprogram", "editprogram"} => page.fields[0] = id
  BY <1>1, ShownShape DEF Inv
<1>3. RecordOf(page) = id
  BY <1>1, <1>2 DEF RecordOf, Target, Ids, Forms
<1>4. form = "setprogram" => page.fields[1] \in ProgramIds
  BY <1>1 DEF Shown, Ids, Inv, Ranges, IsDatabase
<1>5. tabs' = [tabs EXCEPT ![tab] = page] /\ eeprom' = eeprom /\ last' = last
  BY DEF Open, page, history
<1>. HIDE DEF page
<1>6. PageRight(page, eeprom)
  BY <1>1, <1>3, <1>4, ShownRecord DEF PageRight, Inv
<1>7. \A other \in Tabs : PageRight(Page(other)', eeprom)
  BY <1>5, <1>6 DEF Inv, Ranges, Page
<1>. QED
  BY <1>5, <1>7 DEF Ranges

LEMMA EditRanges ==
    ASSUME Inv, Ranges, NEW tab \in Tabs, NEW name \in 0..11, Edit(tab, name)
    PROVE  Ranges'
<1>. DEFINE page == Page(tab)
<1>1. page # NoPage /\ PageShape(page) /\ PageRight(page, eeprom) /\ name \in Names(page.form)
  BY DEF Edit, Inv, Ranges
<1>2. PICK v \in Offered(page.form, name) : tabs' = [tabs EXCEPT ![tab].fields[name] = v]
  BY DEF Edit
<1>3. eeprom' = eeprom /\ last' = last
  BY DEF Edit, history
<1>4. Page(tab)' = [page EXCEPT !.fields[name] = v]
  BY <1>2 DEF Inv, Page
<1>5. \A other \in Tabs : other # tab => Page(other)' = Page(other)
  BY <1>2 DEF Inv, Page
<1>6. page.form \in {"setprogram", "editprogram"} => name # 0
  BY <1>1, <1>2 DEF Offered
<1>7. page.form = "setprogram" => v \in ProgramIds /\ name = 1
  BY <1>1, <1>2 DEF Offered
<1>. HIDE DEF page
<1>. DEFINE new == [page EXCEPT !.fields[name] = v]
<1>8. /\ new.form = page.form /\ new.at = page.at /\ new.current = page.current
      /\ new.shown = page.shown /\ new.fields = [page.fields EXCEPT ![name] = v]
  BY <1>1 DEF PageShape
<1>. HIDE DEF new
<1>9. RecordOf(new) = RecordOf(page)
  BY <1>1, <1>6, <1>8 DEF RecordOf, Target, PageShape
<1>10. page.form = "setprogram" => new.fields[1] \in ProgramIds
  BY <1>1, <1>7, <1>8 DEF PageShape
<1>11. PageRight(new, eeprom)
  BY <1>1, <1>8, <1>9, <1>10 DEF PageRight
<1>12. \A other \in Tabs : PageRight(Page(other)', eeprom)
  BY <1>4, <1>5, <1>11 DEF new, page, Ranges
<1>. QED
  BY <1>3, <1>12 DEF Ranges

LEMMA SubmitRanges ==
    ASSUME Inv, Ranges, NEW tab \in Tabs, Submit(tab)
    PROVE  Ranges'
<1>. DEFINE page == Page(tab)
            form == page.form
            post == Post(form, page.fields)
<1>1. /\ page # NoPage /\ PageShape(page) /\ PageRight(page, eeprom) /\ form \in Forms
      /\ page.fields \in [Names(form) -> Int]
      /\ Handle(form, post) /\ tabs' = Outdated(tab)
      /\ IF Accepted(form, post) THEN last' = Saved(form, post, last) ELSE last' = last
  BY DEF Submit, Inv, Ranges, PageShape
<1>2. /\ form = "setprogram" => post[0] \in Channels /\ post[1] \in ProgramIds
      /\ form = "editprogram" => post[0] \in ProgramIds
  BY <1>1, WholeForm, ProgramPosted DEF PageRight
<1>. HIDE DEF page, form
<1>3. IsDatabase(eeprom')
  BY <1>1, <1>2, HandleRanges
<1>4. IsDatabase(last')
  <2>1. post \in [Names(form) -> Int] /\ \A n \in Names(form) : post[n] <= IntMax
    BY <1>1, PostShape, PostRange
  <2>. HIDE DEF post
  <2>2. Accepted(form, post) => IsDatabase(Saved(form, post, last))
    BY <1>1, <1>2, <2>1, SavedFits DEF Ranges
  <2>. QED
    BY <1>1, <2>2 DEF Ranges
<1>5. ASSUME NEW other \in Tabs PROVE PageRight(Page(other)', eeprom')
  <2>1. Page(other)' = Outdated(tab)[other]
    BY <1>1 DEF Page
  <2>. QED
    BY <2>1, OldPage DEF PageRight
<1>. QED
  BY <1>3, <1>4, <1>5 DEF Ranges

LEMMA SubmitCutRanges ==
    ASSUME Inv, Ranges, NEW tab \in Tabs, Page(tab) # NoPage,
           NEW fields \in InPart(Page(tab).form, Page(tab).fields),
           SubmitCut(tab, fields)
    PROVE  Ranges'
<1>. DEFINE page == Page(tab)
            form == page.form
            post == Post(form, fields)
<1>1. /\ page # NoPage /\ PageShape(page) /\ PageRight(page, eeprom) /\ form \in Forms
      /\ page.fields \in [Names(form) -> Int] /\ now \in Int
      /\ Handle(form, post) /\ last' = last
      /\ tabs' = [Outdated(tab) EXCEPT ![tab] = [page EXCEPT !.current = FALSE]]
  BY DEF SubmitCut, Inv, Ranges, PageShape
<1>2. /\ form = "setprogram" => post[0] \in Channels
      /\ form = "editprogram" => post[0] \in ProgramIds
  BY <1>1, FormInPart
<1>3. fields \in [Names(form) -> Int]
  BY <1>1, ReadInPart
<1>4. form = "setprogram" => post[1] \in ProgramIds
  <2>. SUFFICES ASSUME form = "setprogram" PROVE post[1] \in ProgramIds
    OBVIOUS
  <2>1. Names(form) = 0..1
    BY DEF Names
  <2>2. fields[1] \in ProgramIds
    BY <1>1, <2>1, ProgramInPart DEF PageRight
  <2>. QED
    BY <1>3, <2>2, ProgramPosted
<1>. HIDE DEF page, form
<1>5. IsDatabase(eeprom')
  BY <1>1, <1>2, <1>3, <1>4, HandleRanges
<1>6. ASSUME NEW other \in Tabs PROVE PageRight(Page(other)', eeprom')
  <2>1. CASE other = tab
    <3>1. Page(other)' = [page EXCEPT !.current = FALSE]
      BY <1>1, <2>1 DEF Page, Outdated
    <3>. DEFINE new == [page EXCEPT !.current = FALSE]
    <3>2. /\ new.current = FALSE /\ new.at = page.at /\ new.form = page.form
          /\ new.fields = page.fields
      BY <1>1 DEF PageShape
    <3>. HIDE DEF new
    <3>. QED
      BY <1>1, <3>1, <3>2 DEF PageRight, new
  <2>2. CASE other # tab
    <3>1. Page(other)' = Outdated(tab)[other]
      BY <1>1, <2>2 DEF Page, Outdated
    <3>. QED
      BY <3>1, OldPage DEF PageRight
  <2>. QED
    BY <2>1, <2>2
<1>. QED
  BY <1>1, <1>5, <1>6 DEF Ranges

LEMMA RangesStep == Inv /\ Ranges /\ [Next]_vars => Ranges'
<1>. SUFFICES ASSUME Inv, Ranges, [Next]_vars PROVE Ranges'
  OBVIOUS
<1>1. ASSUME NEW tab \in Tabs, NEW form \in Forms, NEW id \in Ids(form), Open(tab, form, id)
      PROVE  Ranges'
  BY <1>1, OpenRanges
<1>2. ASSUME NEW tab \in Tabs, NEW name \in 0..11, Edit(tab, name) PROVE Ranges'
  BY <1>2, EditRanges
<1>3. ASSUME NEW tab \in Tabs, Submit(tab) PROVE Ranges'
  BY <1>3, SubmitRanges
<1>4. ASSUME NEW tab \in Tabs, Page(tab) # NoPage,
             NEW fields \in InPart(Page(tab).form, Page(tab).fields), SubmitCut(tab, fields)
      PROVE  Ranges'
  BY <1>4, SubmitCutRanges
<1>5. ASSUME NEW tab \in Tabs, Close(tab) PROVE Ranges'
  BY <1>5 DEF Inv, Ranges, PageRight, Close, Page, history
<1>6. CASE Restart \/ HourTurns
  BY <1>6 DEF Ranges, Restart, HourTurns, Page, history
<1>7. CASE UNCHANGED vars
  BY <1>7 DEF Ranges, vars, Page
<1>. QED
  BY <1>1, <1>2, <1>3, <1>4, <1>5, <1>6, <1>7 DEF Next
-----------------------------------------------------------------------------
(* The rest of the type invariant: the bounds and the histories.            *)
Counts ==
    /\ posts \in 0..MaxPosts /\ edits \in 0..MaxEdits /\ cuts \in 0..MaxCuts
    /\ damaged \subseteq Forms \X (Channels \cup ProgramIds)
    /\ dbcooldown \in [Channels -> 0..IntMax]
    /\ had \in [Channels -> SUBSET ProgramIds]

LEMMA CooldownsFit ==
    ASSUME NEW d, IsDatabase(d)
    PROVE  /\ Cooldowns(d) \in [Channels -> 0..IntMax]
           /\ \A c \in Channels : d.channel[c] \in ProgramIds
<1>1. \A c \in Channels : d.channel[c] \in ProgramIds
  BY DEF IsDatabase
<1>2. ASSUME NEW p \in ProgramIds PROVE d.program[p][8] \in 0..IntMax
  <2>1. IsProgram(d.program[p])
    BY DEF IsDatabase
  <2>. QED
    BY <2>1 DEF IsProgram
<1>. QED
  BY <1>1, <1>2 DEF Cooldowns

LEMMA InitCounts == Init => Counts
BY FactoryAssumption, BoundAssumption, CooldownsFit DEF Init, Counts

LEMMA HandleCounts ==
    ASSUME Inv, Counts, NEW form \in Forms, NEW post, Handle(form, post), IsDatabase(eeprom')
    PROVE  /\ dbcooldown' \in [Channels -> 0..IntMax]
           /\ had' \in [Channels -> SUBSET ProgramIds]
BY CooldownsFit DEF Handle, Learn, Reread, Counts

(* The records that a form read in part may change.                         *)
LEMMA DamagedFits ==
    ASSUME NEW page, page # NoPage, PageShape(page),
           NEW n \in {RecordOf(page), RecordOf(page) \div 10, 0}
    PROVE  n \in Channels \cup ProgramIds
<1>1. CASE page.form \in {"setprogram", "editprogram"}
  <2>1. RecordOf(page) \in Ids(page.form)
    BY <1>1 DEF RecordOf, Target, PageShape
  <2>2. n \in Ids(page.form)
    BY <1>1, <2>1, IdsShort
  <2>. QED
    BY <1>1, <2>2 DEF Ids
<1>2. CASE page.form \notin {"setprogram", "editprogram"}
  BY <1>2, IdAssumption DEF RecordOf, Target
<1>. QED
  BY <1>1, <1>2

LEMMA CountsStep == Inv /\ Ranges /\ Counts /\ [Next]_vars => Counts'
<1>. SUFFICES ASSUME Inv, Ranges, Counts, [Next]_vars PROVE Counts'
  OBVIOUS
<1>1. IsDatabase(eeprom')
  BY RangesStep DEF Ranges
<1>2. ASSUME NEW tab \in Tabs, NEW form \in Forms, NEW id \in Ids(form), Open(tab, form, id)
      PROVE  Counts'
  BY <1>2 DEF Open, Counts, history
<1>3. ASSUME NEW tab \in Tabs, NEW name \in 0..11, Edit(tab, name) PROVE Counts'
  BY <1>3, BoundAssumption DEF Edit, Counts, history
<1>4. ASSUME NEW tab \in Tabs, Submit(tab) PROVE Counts'
  <2>1. /\ Handle(Page(tab).form, Post(Page(tab).form, Page(tab).fields))
        /\ Page(tab).form \in Forms
    BY <1>4 DEF Submit, Inv, PageShape
  <2>2. dbcooldown' \in [Channels -> 0..IntMax] /\ had' \in [Channels -> SUBSET ProgramIds]
    BY <1>1, <2>1, HandleCounts
  <2>3. /\ posts < MaxPosts /\ posts' = posts + 1 /\ edits' = edits /\ cuts' = cuts
        /\ damaged' \subseteq damaged
    BY <1>4 DEF Submit
  <2>. QED
    BY <2>2, <2>3, BoundAssumption DEF Counts
<1>5. ASSUME NEW tab \in Tabs, Page(tab) # NoPage,
             NEW fields \in InPart(Page(tab).form, Page(tab).fields), SubmitCut(tab, fields)
      PROVE  Counts'
  <2>1. /\ Handle(Page(tab).form, Post(Page(tab).form, fields))
        /\ Page(tab).form \in Forms /\ PageShape(Page(tab))
    BY <1>5 DEF SubmitCut, Inv, PageShape
  <2>2. dbcooldown' \in [Channels -> 0..IntMax] /\ had' \in [Channels -> SUBSET ProgramIds]
    BY <1>1, <2>1, HandleCounts
  <2>3. /\ posts < MaxPosts /\ posts' = posts + 1 /\ edits' = edits
        /\ cuts < MaxCuts /\ cuts' = cuts + 1
    BY <1>5 DEF SubmitCut
  <2>4. damaged' = damaged \cup
            {<<Page(tab).form, n>> :
               n \in {RecordOf(Page(tab)), RecordOf(Page(tab)) \div 10, 0}}
    BY <1>5 DEF SubmitCut, RecordOf
  <2>5. \A n \in {RecordOf(Page(tab)), RecordOf(Page(tab)) \div 10, 0} :
            n \in Channels \cup ProgramIds
    BY <1>5, <2>1, DamagedFits
  <2>6. damaged' \subseteq Forms \X (Channels \cup ProgramIds)
    BY <2>1, <2>4, <2>5 DEF Counts
  <2>. QED
    BY <2>2, <2>3, <2>6, BoundAssumption DEF Counts
<1>6. ASSUME NEW tab \in Tabs, Close(tab) PROVE Counts'
  BY <1>6 DEF Close, Counts, history
<1>7. CASE Restart
  BY <1>1, <1>7, CooldownsFit DEF Restart, Counts
<1>8. CASE HourTurns
  BY <1>8 DEF HourTurns, Counts, history
<1>9. CASE UNCHANGED vars
  BY <1>9 DEF vars, Counts
<1>. QED
  BY <1>2, <1>3, <1>4, <1>5, <1>6, <1>7, <1>8, <1>9 DEF Next

(* The type invariant: whatever is typed, read in part or sent twice, the   *)
(* handlers let nothing into the database that does not fit its field.      *)
THEOREM TypeCorrect == Spec => []TypeOK
<1>1. Inv /\ Ranges /\ Counts => TypeOK
  <2>. SUFFICES ASSUME Inv, Ranges, Counts PROVE TypeOK
    OBVIOUS
  <2>1. \A tab \in Tabs : IsPage(Page(tab))
    BY DEF Inv, Ranges, PageShape, PageRight, IsPage
  <2>2. IsDatabase(eeprom) /\ IsDatabase(db) /\ IsDatabase(last) /\ now \in Int
    BY DEF Inv, Ranges
  <2>. QED
    BY <2>1, <2>2 DEF Counts, TypeOK
<1>. QED
  BY <1>1, InitInv, Step, InitRanges, RangesStep, InitCounts, CountsStep, PTL DEF Spec
-----------------------------------------------------------------------------
(* What a page shows of a database comes out of 16 bits as it was.          *)
LEMMA ShownPosted ==
    ASSUME NEW d, IsDatabase(d), NEW form \in Forms, form # "setdate", NEW id \in Ids(form)
    PROVE  Post(form, RecordShown(form, id, d)) = RecordShown(form, id, d)
<1>. DEFINE shown == RecordShown(form, id, d)
<1>0. d \in DatabaseShape /\ 31 <= IntMax /\ 65 <= IntMax /\ 255 <= IntMax /\ IntMax \in Nat
  BY SixteenBits DEF IsDatabase
<1>7. ASSUME shown = [n \in Names(form) |-> shown[n]],
             \A n \in Names(form) : Int16(shown[n]) = shown[n]
      PROVE  Post(form, shown) = shown
  BY <1>7 DEF Post
<1>1. ASSUME DOMAIN shown = Names(form), shown = [n \in Names(form) |-> shown[n]],
             \A n \in Names(form) : shown[n] \in 0..IntMax
      PROVE  Post(form, shown) = shown
  BY <1>1, SixteenBits DEF Post
<1>. HIDE DEF shown
<1>2. CASE form = "setprogram"
  <2>1. shown = [n \in 0..1 |-> IF n = 0 THEN id ELSE d.channel[id]] /\ Names(form) = 0..1
    BY <1>2 DEF shown, RecordShown, Names
  <2>2. id \in 0..31 /\ d.channel[id] \in 0..31
    BY <1>2, IdAssumption DEF Ids, IsDatabase
  <2>3. \A n \in 0..1 : shown[n] \in 0..IntMax
    BY <1>0, <2>1, <2>2
  <2>. QED
    BY <1>1, <2>1, <2>3 DEF shown
<1>3. CASE form = "editprogram"
  <2>1. /\ shown = [n \in 0..11 |-> IF n = 0 THEN id ELSE d.program[id][n]]
        /\ Names(form) = 0..11
    BY <1>3 DEF shown, RecordShown, Names
  <2>. DEFINE p == d.program[id]
  <2>2. id \in 0..31 /\ IsProgram(p)
    BY <1>3, IdAssumption DEF Ids, IsDatabase
  <2>. HIDE DEF p
  <2>3. ASSUME NEW n \in 1..11 PROVE p[n] \in 0..IntMax
    <3>1. /\ p[1] \in 0..2 /\ p[2] \in 0..23 /\ p[3] \in 0..59 /\ p[4] \in 0..23
          /\ p[5] \in 0..59
      BY <2>2 DEF IsProgram
    <3>2. \A k \in 6..8 : p[k] \in 0..IntMax
      BY <2>2 DEF IsProgram
    <3>3. p[9] \in 0..31 /\ p[10] \in 0..12 /\ p[11] \in 0..120
      BY <2>2 DEF IsProgram, Rest
    <3>4. CASE n \in 1..5
      BY <1>0, <3>1, <3>4
    <3>5. CASE n \in 6..8
      BY <3>2, <3>5
    <3>6. CASE n \in 9..11
      BY <1>0, <3>3, <3>6
    <3>. QED
      BY <3>4, <3>5, <3>6
  <2>4. \A n \in 0..11 : shown[n] \in 0..IntMax
    BY <1>0, <2>1, <2>2, <2>3 DEF p
  <2>. QED
    BY <1>1, <2>1, <2>4 DEF shown
<1>4. CASE form = "setip"
  <2>1. shown = d.net /\ Names(form) = 0..7 /\ d.net \in [0..7 -> Int]
    BY <1>0, <1>4 DEF shown, RecordShown, Names, DatabaseShape
  <2>0. \A n \in 0..7 : d.net[n] \in 0..255
    BY DEF IsDatabase, IsNet
  <2>2. ASSUME NEW n \in 0..7 PROVE shown[n] \in 0..IntMax
    <3>1. shown[n] = d.net[n] /\ d.net[n] \in 0..255
      BY <2>0, <2>1
    <3>2. IntMax \in Nat /\ 255 <= IntMax
      BY <1>0
    <3>. QED
      BY <3>1, <3>2
  <2>. QED
    BY <1>1, <2>1, <2>2 DEF shown
<1>5. CASE form = "air"
  <2>1. shown = d.air /\ Names(form) = 1..4 /\ d.air \in [1..4 -> Int]
    BY <1>0, <1>5 DEF shown, RecordShown, Names, DatabaseShape
  <2>2. /\ shown[1] \in 0..IntMax /\ shown[2] \in 0..IntMax /\ shown[4] \in 0..IntMax
        /\ shown[3] \in 0..IntMax \/ shown[3] = Factory.air[3]
    BY <1>0, <2>1 DEF IsDatabase, IsAir
  <2>3. \A n \in 1..4 : Int16(shown[n]) = shown[n]
    BY <2>2, SixteenBits, FactoryAssumption
  <2>. QED
    BY <1>7, <2>1, <2>3 DEF shown
<1>. QED
  BY <1>2, <1>3, <1>4, <1>5 DEF Forms, shown

(* Saving what is shown changes nothing.                                    *)
LEMMA ShownSaved ==
    ASSUME NEW d, IsDatabase(d), NEW form \in Forms, form # "setdate", NEW id \in Ids(form)
    PROVE  Saved(form, RecordShown(form, id, d), d) = d
<1>. DEFINE shown == RecordShown(form, id, d)
<1>0. d \in DatabaseShape
  BY DEF IsDatabase
<1>1. CASE form = "setprogram"
  <2>1. shown[0] = id /\ shown[1] = d.channel[id] /\ id \in Channels
    BY <1>1 DEF RecordShown, Ids
  <2>. HIDE DEF shown
  <2>2. Saved(form, shown, d) = [d EXCEPT !.channel = [@ EXCEPT ![shown[0]] = shown[1]]]
    BY <1>1 DEF Saved
  <2>3. Saved(form, shown, d) = d
    BY <1>0, <2>1, <2>2 DEF DatabaseShape
  <2>. QED
    BY <2>3 DEF shown
<1>2. CASE form = "editprogram"
  <2>. DEFINE p == d.program[id]
  <2>1. id \in ProgramIds /\ IsProgram(p) /\ p \in [1..11 -> Int]
    BY <1>0, <1>2 DEF Ids, IsDatabase, DatabaseShape
  <2>2. shown = [n \in 0..11 |-> IF n = 0 THEN id ELSE p[n]]
    BY <1>2 DEF RecordShown
  <2>. HIDE DEF p, shown
  <2>3. shown[0] = id /\ \A n \in 1..11 : shown[n] = p[n]
    BY <2>2
  <2>4. Rest(p)
    BY <2>1 DEF IsProgram
  <2>5. \A n \in 1..11 : Sanitized(shown)[n] = shown[n]
    <3>1. shown[9] = p[9] /\ shown[10] = p[10] /\ shown[11] = p[11]
      BY <2>3
    <3>2. CASE p[9] \in 1..31 /\ p[10] \in 1..12 /\ p[11] \in 1..120
      BY <3>1, <3>2 DEF Sanitized
    <3>3. CASE \A n \in 9..11 : p[n] = 0
      <4>1. p[9] = 0 /\ p[10] = 0 /\ p[11] = 0
        BY <3>3
      <4>2. Sanitized(shown) = [shown EXCEPT ![9] = 0, ![10] = 0, ![11] = 0]
        BY <3>1, <4>1 DEF Sanitized
      <4>. QED
        BY <2>2, <3>1, <4>1, <4>2
    <3>. QED
      BY <2>4, <3>2, <3>3 DEF Rest
  <2>6. [n \in 1..11 |-> Sanitized(shown)[n]] = p
    BY <2>1, <2>3, <2>5
  <2>7. Saved(form, shown, d) = [d EXCEPT !.program = [@ EXCEPT ![id] = p]]
    BY <1>2, <2>3, <2>6 DEF Saved
  <2>8. Saved(form, shown, d) = d
    BY <1>0, <2>1, <2>7 DEF DatabaseShape, p
  <2>. QED
    BY <2>8 DEF shown
<1>3. CASE form = "setip"
  <2>1. shown = d.net /\ d.net \in [0..7 -> Int] /\ \A n \in 0..7 : d.net[n] \in 0..255
    BY <1>0, <1>3 DEF RecordShown, DatabaseShape, IsDatabase, IsNet
  <2>. HIDE DEF shown
  <2>2. [n \in 0..7 |-> Byte(shown[n])] = d.net
    BY <2>1, ByteRange
  <2>3. Saved(form, shown, d) = [d EXCEPT !.net = d.net]
    BY <1>3, <2>2 DEF Saved
  <2>4. Saved(form, shown, d) = d
    BY <1>0, <2>3 DEF DatabaseShape
  <2>. QED
    BY <2>4 DEF shown
<1>4. CASE form = "air"
  <2>1. shown = d.air /\ d.air \in [1..4 -> Int] /\ d.air[1] \in 0..1
    BY <1>0, <1>4 DEF RecordShown, DatabaseShape, IsDatabase, IsAir
  <2>. HIDE DEF shown
  <2>2. [shown EXCEPT ![1] = IF @ = 0 THEN 0 ELSE 1] = d.air
    BY <2>1
  <2>3. Saved(form, shown, d) = [d EXCEPT !.air = d.air]
    BY <1>4, <2>2 DEF Saved
  <2>4. Saved(form, shown, d) = d
    BY <1>0, <2>3 DEF DatabaseShape
  <2>. QED
    BY <2>4 DEF shown
<1>. QED
  BY <1>1, <1>2, <1>3, <1>4 DEF Forms

(* A page that is submitted as it was shown, with nothing saved in between, *)
(* changes nothing, however large the numbers are that were typed before.   *)
THEOREM ResubmitHarmlessCorrect == Spec => ResubmitHarmless
<1>. DEFINE Unchanged ==
       \A tab \in Tabs :
         Page(tab) # NoPage /\ Page(tab).form # "setdate" /\ Page(tab).current
           /\ Page(tab).fields = Page(tab).shown /\ Submit(tab)
         => eeprom' = eeprom
<1>1. Inv /\ Ranges => Unchanged
  <2>. SUFFICES ASSUME Inv, Ranges, NEW tab \in Tabs,
                       Page(tab) # NoPage, Page(tab).form # "setdate", Page(tab).current,
                       Page(tab).fields = Page(tab).shown, Submit(tab)
                PROVE  eeprom' = eeprom
    OBVIOUS
  <2>. DEFINE page == Page(tab)
              form == page.form
              id   == RecordOf(page)
              post == Post(form, page.fields)
  <2>1. /\ page # NoPage /\ PageShape(page) /\ form \in Forms /\ form # "setdate"
        /\ page.fields = RecordShown(form, id, eeprom) /\ id \in Ids(form)
        /\ Handle(form, post)
    BY DEF Inv, Ranges, PageRight, PageShape, Submit
  <2>2. /\ post \in [Names(form) -> Int]
        /\ form = "setprogram" => post[0] \in Channels
        /\ form = "editprogram" => post[0] \in ProgramIds
    BY <2>1, WholeForm
  <2>. HIDE DEF page, form, id
  <2>3. post = RecordShown(form, id, eeprom)
    BY <2>1, ShownPosted DEF Ranges
  <2>. HIDE DEF post
  <2>4. CASE Accepted(form, post)
    <3>1. eeprom' = Saved(form, post, eeprom)
      BY <2>1, <2>2, <2>4, WrittenIsSaved DEF Inv, Handle
    <3>. QED
      BY <2>1, <2>3, <3>1, ShownSaved DEF Ranges
  <2>5. CASE ~Accepted(form, post)
    BY <2>1, <2>5 DEF Handle
  <2>. QED
    BY <2>4, <2>5
<1>2. Inv /\ Ranges /\ [Next]_vars => [Unchanged]_vars
  BY <1>1
<1>. QED
  BY <1>2, InitInv, Step, InitRanges, RangesStep, PTL DEF Spec, ResubmitHarmless
-----------------------------------------------------------------------------
(* The date form.  Hours in winter time, from the hour before day 0, which  *)
(* a form that is cut can set, to the end of day 31.                        *)
OfMonth(h) == h \in Int /\ -1 <= h /\ h <= 24 * 32 - 1
Wall(h) == IF Dst(h) THEN h + 1 ELSE h
DateFieldsAt(h) ==
    [n \in Names("setdate") |->
        CASE n = 0 -> Wall(h) \div 24
          [] n = 3 -> Wall(h) % 24
          [] n = 6 -> IF Dst(Wall(h)) THEN 1 ELSE 0]

(* A date form shows the hour it was opened in: nobody can change it.       *)
DatePage(page) ==
    page.form = "setdate" => OfMonth(page.at) /\ page.fields = DateFieldsAt(page.at)
DateInv == OfMonth(now) /\ \A tab \in Tabs : DatePage(Page(tab))

LEMMA DateFieldsNow == DateFields = DateFieldsAt(now)
BY DEF DateFields, DateFieldsAt, WallClock, Wall

LEMMA DaysAndHours == \A h \in Int : h = 24 * (h \div 24) + (h % 24)
OBVIOUS

(* What the date form shows is a time of the month; read back it is the hour *)
(* it was opened in, but for the last hour of summer time.                  *)
LEMMA FieldsOfMonth ==
    ASSUME NEW h, OfMonth(h)
    PROVE  LET f == DateFieldsAt(h)
           IN  /\ f \in [{0, 3, 6} -> Int]
               /\ f[0] \in 0..31 /\ f[3] \in 0..23 /\ f[6] \in 0..1
               /\ 24 * f[0] + f[3] - (IF f[6] = 1 THEN 1 ELSE 0) = h + Late(h)
<1>. DEFINE w == Wall(h)
            f == DateFieldsAt(h)
<1>0. h \in Int /\ -1 <= h /\ h <= 767 /\ WinterDay \in Int /\ 0 <= WinterDay /\ WinterDay <= 31
  BY HourAssumption DEF OfMonth
<1>1. w \in Int /\ 0 <= w /\ w <= 767
  BY <1>0 DEF Wall, Dst
<1>2. Names("setdate") = {0, 3, 6}
  BY DEF Names
<1>3. f[0] = w \div 24 /\ f[3] = w % 24 /\ f[6] = IF Dst(w) THEN 1 ELSE 0
  BY <1>2 DEF DateFieldsAt
<1>4. w \div 24 \in 0..31 /\ w % 24 \in 0..23
  BY <1>1
<1>5. 24 * f[0] + f[3] = w
  BY <1>1, <1>3, DaysAndHours
<1>6. f \in [{0, 3, 6} -> Int]
  <2>1. f = [n \in {0, 3, 6} |-> f[n]]
    BY <1>2 DEF DateFieldsAt
  <2>2. f[0] \in Int /\ f[3] \in Int /\ f[6] \in Int
    BY <1>3, <1>4
  <2>. HIDE DEF f
  <2>. QED BY <2>1, <2>2
<1>7. w - (IF f[6] = 1 THEN 1 ELSE 0) = h + Late(h)
  <2>1. Dst(h) => w = h + 1
    BY DEF Wall
  <2>2. ~Dst(h) => w = h
    BY DEF Wall
  <2>3. f[6] = 1 <=> Dst(w)
    BY <1>3
  <2>4. Late(h) = IF Dst(h) /\ ~Dst(h + 1) THEN 1 ELSE 0
    BY DEF Late
  <2>. HIDE DEF w, f
  <2>5. CASE Dst(h)
    BY <1>0, <2>1, <2>3, <2>4, <2>5
  <2>6. CASE ~Dst(h)
    BY <1>0, <2>2, <2>3, <2>4, <2>6
  <2>. QED BY <2>5, <2>6
<1>. HIDE DEF w, f
<1>8. f[0] \in 0..31 /\ f[3] \in 0..23 /\ f[6] \in 0..1
  BY <1>3, <1>4
<1>9. f[0] \in Int /\ f[3] \in Int
  BY <1>8
<1>. QED BY <1>5, <1>6, <1>7, <1>8, <1>9 DEF f

LEMMA InitDate == Init => DateInv
<1>. SUFFICES ASSUME Init PROVE DateInv
  OBVIOUS
<1>1. now = FirstHour /\ FirstHour \in 0..767
  BY HourAssumption DEF Init
<1>. QED BY <1>1 DEF Init, DateInv, DatePage, OfMonth, Page, NoPage

(* A part of a time of the month is one.                                    *)
LEMMA BeginningsOf ==
    ASSUME NEW v \in 0..31, NEW w \in Beginnings(v)
    PROVE  w \in Int /\ 0 <= w /\ w <= v
<1>1. v \in Int /\ 0 <= v /\ ~(v < 0)
  OBVIOUS
<1>2. w = v \/ \E n \in {10, 100, 1000, 10000, 100000} : w = 1 * (v \div n)
  BY <1>1 DEF Beginnings
<1>3. /\ v \div 10 \in 0..v /\ v \div 100 \in 0..v /\ v \div 1000 \in 0..v
      /\ v \div 10000 \in 0..v /\ v \div 100000 \in 0..v
  BY <1>1
<1>. QED BY <1>1, <1>2, <1>3

LEMMA DatePart ==
    ASSUME NEW f \in [{0, 3, 6} -> Int], f[0] \in 0..31, f[3] \in 0..23, f[6] \in 0..1,
           OfMonth(now), NEW part \in InPart("setdate", f)
    PROVE  part \in [{0, 3, 6} -> Int] /\ part[0] \in 0..31 /\ part[3] \in 0..23
           /\ part[6] \in 0..1
<1>. DEFINE def == DateFields
<1>1. def \in [{0, 3, 6} -> Int] /\ def[0] \in 0..31 /\ def[3] \in 0..23 /\ def[6] \in 0..1
  BY FieldsOfMonth, DateFieldsNow
<1>2. Names("setdate") = {0, 3, 6} /\ Defaults("setdate") = def
  BY DEF Names, Defaults
<1>. HIDE DEF def
<1>3. PICK k \in {0, 3, 6} :
        LET read == [n \in {0, 3, 6} |-> IF n < k THEN f[n] ELSE def[n]]
        IN  part = read \/ \E v \in Beginnings(f[k]) : part = [read EXCEPT ![k] = v]
  BY <1>2 DEF InPart
<1>. DEFINE read == [n \in {0, 3, 6} |-> IF n < k THEN f[n] ELSE def[n]]
<1>4. read \in [{0, 3, 6} -> Int] /\ read[0] \in 0..31 /\ read[3] \in 0..23 /\ read[6] \in 0..1
  BY <1>1
<1>5. \A v \in Beginnings(f[k]) : v \in Int /\ 0 <= v /\ v <= f[k]
  BY BeginningsOf
<1>. HIDE DEF read
<1>6. ASSUME NEW v \in Beginnings(f[k]), part = [read EXCEPT ![k] = v]
      PROVE  part \in [{0, 3, 6} -> Int] /\ part[0] \in 0..31 /\ part[3] \in 0..23
             /\ part[6] \in 0..1
  <2>1. v \in Int /\ 0 <= v /\ v <= f[k]
    BY <1>5
  <2>2. part \in [{0, 3, 6} -> Int]
    BY <1>4, <1>6, <2>1
  <2>. QED BY <1>4, <1>6, <2>1, <2>2
<1>7. part = read \/ \E v \in Beginnings(f[k]) : part = [read EXCEPT ![k] = v]
  BY <1>3 DEF read
<1>. QED BY <1>4, <1>6, <1>7

(* A date form that is handled, in part or whole, sets a time of the month. *)
LEMMA DateHandled ==
    ASSUME OfMonth(now), NEW f \in [{0, 3, 6} -> Int],
           f[0] \in 0..31, f[3] \in 0..23, f[6] \in 0..1, Handle("setdate", Post("setdate", f))
    PROVE  /\ now' = 24 * f[0] + f[3] - (IF f[6] = 1 THEN 1 ELSE 0)
           /\ OfMonth(now')
<1>. DEFINE post == Post("setdate", f)
<1>1. post[0] = f[0] /\ post[3] = f[3] /\ post[6] = f[6]
  BY SmallStays DEF Post, Names
<1>2. Accepted("setdate", post)
  BY <1>1 DEF Accepted
<1>3. now' = 24 * f[0] + f[3] - (IF f[6] = 1 THEN 1 ELSE 0)
  BY <1>1, <1>2 DEF Handle, SetClock
<1>. QED BY <1>3 DEF OfMonth

LEMMA OtherForms ==
    ASSUME NEW form, form # "setdate", NEW post, Handle(form, post)
    PROVE  now' = now
BY DEF Handle

(* The clock after any form, in part or whole.                              *)
LEMMA PageHandled ==
    ASSUME DateInv, NEW page, DatePage(page), page # NoPage, PageShape(page),
           NEW fields, fields = page.fields \/ fields \in InPart(page.form, page.fields),
           Handle(page.form, Post(page.form, fields))
    PROVE  /\ OfMonth(now')
           /\ page.form = "setdate" =>
                now' = 24 * fields[0] + fields[3] - (IF fields[6] = 1 THEN 1 ELSE 0)
<1>1. CASE page.form = "setdate"
  <2>1. /\ page.fields \in [{0, 3, 6} -> Int] /\ page.fields[0] \in 0..31
        /\ page.fields[3] \in 0..23 /\ page.fields[6] \in 0..1
    BY <1>1, FieldsOfMonth DEF DatePage
  <2>2. /\ fields \in [{0, 3, 6} -> Int] /\ fields[0] \in 0..31
        /\ fields[3] \in 0..23 /\ fields[6] \in 0..1
    BY <1>1, <2>1, DatePart DEF DateInv
  <2>3. Handle("setdate", Post("setdate", fields))
    BY <1>1
  <2>. QED
    BY <2>2, <2>3, DateHandled DEF DateInv
<1>2. CASE page.form # "setdate"
  BY <1>2, OtherForms DEF DateInv
<1>. QED
  BY <1>1, <1>2

LEMMA OutdatedDates ==
    ASSUME DateInv, NEW tab \in Tabs, NEW other \in Tabs
    PROVE  DatePage(Outdated(tab)[other])
<1>1. CASE other = tab \/ Page(other) = NoPage
  BY <1>1 DEF Outdated, DatePage, NoPage
<1>2. CASE other # tab /\ Page(other) # NoPage
  <2>1. Outdated(tab)[other] = [Page(other) EXCEPT !.current = FALSE]
    BY <1>2 DEF Outdated
  <2>2. DatePage([Page(other) EXCEPT !.current = FALSE])
    BY DEF DateInv, DatePage
  <2>. QED
    BY <2>1, <2>2
<1>. QED
  BY <1>1, <1>2

LEMMA DateStep == Inv /\ DateInv /\ [Next]_vars => DateInv'
<1>. SUFFICES ASSUME Inv, DateInv, [Next]_vars PROVE DateInv'
  OBVIOUS
<1>1. ASSUME NEW tab \in Tabs, NEW form \in Forms, NEW id \in Ids(form), Open(tab, form, id)
      PROVE  DateInv'
  <2>1. DatePage(Show(tab, form, id, db))
    BY DateFieldsNow DEF Show, Shown, DatePage, DateInv
  <2>2. \A other \in Tabs :
          Page(other)' = IF other = tab THEN Show(tab, form, id, db) ELSE Page(other)
    BY <1>1 DEF Inv, Open, Page
  <2>3. \A other \in Tabs : DatePage(Page(other)')
    BY <2>1, <2>2 DEF DateInv
  <2>. QED
    BY <1>1, <2>3 DEF Open, DateInv, DatePage, DateFieldsAt
<1>2. ASSUME NEW tab \in Tabs, NEW name \in 0..11, Edit(tab, name) PROVE DateInv'
  <2>1. PICK v \in Offered(Page(tab).form, name) : tabs' = [tabs EXCEPT ![tab].fields[name] = v]
    BY <1>2 DEF Edit
  <2>2. Page(tab).form # "setdate"
    BY <2>1 DEF Offered
  <2>3. Page(tab)' = [Page(tab) EXCEPT !.fields[name] = v]
    BY <2>1 DEF Inv, Page
  <2>4. DatePage(Page(tab)')
    BY <2>2, <2>3 DEF DatePage
  <2>5. \A other \in Tabs : other # tab => Page(other)' = Page(other)
    BY <2>1 DEF Inv, Page
  <2>6. \A other \in Tabs : DatePage(Page(other)')
    BY <2>4, <2>5 DEF DateInv
  <2>. QED
    BY <1>2, <2>6 DEF Edit, DateInv
<1>3. ASSUME NEW tab \in Tabs, Submit(tab) PROVE DateInv'
  <2>1. OfMonth(now')
    BY <1>3, PageHandled DEF Submit, Inv, DateInv
  <2>2. \A other \in Tabs : Page(other)' = Outdated(tab)[other]
    BY <1>3 DEF Submit, Page
  <2>3. \A other \in Tabs : DatePage(Page(other)')
    BY <2>2, OutdatedDates
  <2>. QED
    BY <2>1, <2>3 DEF DateInv
<1>4. ASSUME NEW tab \in Tabs, Page(tab) # NoPage,
             NEW fields \in InPart(Page(tab).form, Page(tab).fields), SubmitCut(tab, fields)
      PROVE  DateInv'
  <2>1. OfMonth(now')
    BY <1>4, PageHandled DEF SubmitCut, Inv, DateInv
  <2>2. \A other \in Tabs :
          Page(other)' = IF other = tab THEN [Page(tab) EXCEPT !.current = FALSE]
                         ELSE Outdated(tab)[other]
    BY <1>4 DEF SubmitCut, Page, Outdated
  <2>3. DatePage([Page(tab) EXCEPT !.current = FALSE])
    BY DEF DateInv, DatePage
  <2>4. \A other \in Tabs : DatePage(Page(other)')
    BY <2>2, <2>3, OutdatedDates
  <2>. QED
    BY <2>1, <2>4 DEF DateInv
<1>5. ASSUME NEW tab \in Tabs, Close(tab) PROVE DateInv'
  <2>1. \A other \in Tabs : Page(other)' = IF other = tab THEN NoPage ELSE Page(other)
    BY <1>5 DEF Inv, Close, Page
  <2>2. \A other \in Tabs : DatePage(Page(other)')
    BY <2>1 DEF DateInv, DatePage, NoPage
  <2>. QED
    BY <1>5, <2>2 DEF Close, DateInv
<1>6. CASE Restart
  BY <1>6 DEF Restart, DateInv, Page
<1>7. CASE HourTurns
  <2>1. now' \in 0..767 /\ now' = now + 1
    BY <1>7, HourAssumption DEF HourTurns
  <2>2. OfMonth(now')
    BY <2>1 DEF OfMonth
  <2>. QED
    BY <1>7, <2>2 DEF HourTurns, DateInv, Page
<1>8. CASE UNCHANGED vars
  BY <1>8 DEF vars, DateInv, Page
<1>. QED
  BY <1>1, <1>2, <1>3, <1>4, <1>5, <1>6, <1>7, <1>8 DEF Next

(* A date form that is read to the end sets the clock to the hour in which  *)
(* it was opened, however long ago that was, one of which nothing is read   *)
(* to the present; each is an hour ahead when that is the last one of       *)
(* summer time.                                                             *)
THEOREM DateFormCorrect == Spec => DateFormSetsTime
<1>. DEFINE Sets ==
       \A tab \in Tabs :
         Page(tab) # NoPage /\ Page(tab).form = "setdate" =>
           /\ Submit(tab) => now' = Page(tab).at + Late(Page(tab).at)
           /\ SubmitCut(tab, DateFields) => now' = now + Late(now)
<1>1. Inv /\ DateInv => Sets
  <2>. SUFFICES ASSUME Inv, DateInv, NEW tab \in Tabs,
                       Page(tab) # NoPage, Page(tab).form = "setdate"
                PROVE  /\ Submit(tab) => now' = Page(tab).at + Late(Page(tab).at)
                       /\ SubmitCut(tab, DateFields) => now' = now + Late(now)
    OBVIOUS
  <2>. DEFINE page == Page(tab)
  <2>1. /\ PageShape(page) /\ DatePage(page) /\ OfMonth(page.at) /\ OfMonth(now)
        /\ page.fields = DateFieldsAt(page.at)
    BY DEF Inv, DateInv, DatePage
  <2>2. ASSUME Submit(tab) PROVE now' = page.at + Late(page.at)
    <3>1. Handle(page.form, Post(page.form, page.fields))
      BY <2>2 DEF Submit
    <3>2. now' = 24 * page.fields[0] + page.fields[3]
                   - (IF page.fields[6] = 1 THEN 1 ELSE 0)
      BY <2>1, <3>1, PageHandled
    <3>. QED
      BY <2>1, <3>2, FieldsOfMonth
  <2>3. ASSUME SubmitCut(tab, DateFields) PROVE now' = now + Late(now)
    <3>1. /\ DateFields \in InPart(page.form, page.fields)
          /\ Handle(page.form, Post(page.form, DateFields))
      BY <2>3 DEF SubmitCut
    <3>2. now' = 24 * DateFields[0] + DateFields[3]
                   - (IF DateFields[6] = 1 THEN 1 ELSE 0)
      BY <2>1, <3>1, PageHandled
    <3>. QED
      BY <2>1, <3>2, FieldsOfMonth, DateFieldsNow
  <2>. QED
    BY <2>2, <2>3
<1>2. Inv /\ DateInv /\ [Next]_vars => [Sets]_vars
  BY <1>1
<1>. QED
  BY <1>2, InitInv, Step, InitDate, DateStep, PTL DEF Spec, DateFormSetsTime
================================================================================
