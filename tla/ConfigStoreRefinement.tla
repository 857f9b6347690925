------------------------- MODULE ConfigStoreRefinement -------------------------
(***************************************************************************)
(* ConfigStore implements ConfigRegister: seen from outside, a write that  *)
(* takes many steps, cell by cell, is one that begins and ends, and what   *)
(* it does not name keeps its content. This holds from the end of an       *)
(* ee_init on (Whole); one that is cut leaves nothing settled.             *)
(***************************************************************************)
EXTENDS ConfigStoreProofs

(* Where a slot lies in the image.                                          *)
Field(slot) ==
    CASE slot[1] = "settings" -> HeaderSize
      [] slot[1] = "channel"  -> ChannelField(slot[2])
      [] slot[1] = "program"  -> ProgramField(slot[2])
Width(slot) ==
    CASE slot[1] = "settings" -> SettingsSize
      [] slot[1] = "channel"  -> ChannelSize
      [] slot[1] = "program"  -> ProgramSize

SettingsRequests == {[slot |-> SettingsSlot, data |-> <<d>>] : d \in Data}

(* What is asked is asked while records are saved, and its slot is dirty.   *)
AskedRight ==
    /\ asked # NotAsked =>
        /\ pc = "save"
        /\ asked \in Requests \cup SettingsRequests
        /\ asked.slot \in dirty
    /\ pc = "save" /\ asked = NotAsked => left = << >>

(* The cell a holds v, or will hold it when what is left is written.        *)
Holds(a, v) ==
    /\ a < ee  => image[a] = v
    /\ a >= ee => left[a - ee + 1] = v

(* A write under way: the cells of its slot below ee hold what was asked    *)
(* for, and what is left are the others.                                    *)
WriteUnderWay ==
    (Whole /\ asked # NotAsked) =>
        /\ ee >= Field(asked.slot)
        /\ ee + Len(left) = Field(asked.slot) + Width(asked.slot)
        /\ \A k \in 1 .. Width(asked.slot) :
            Holds(Field(asked.slot) + k - 1, asked.data[k])

(* The same of the loop that writes the defaults.                           *)
FillUnderWay ==
    pc = "fill" =>
        \A a \in Addresses : Holds(a, FactoryImage[a])

(* While ee_init works, and after it was cut, no slot is settled.           *)
ResetDirty == pc \in {"erase", "fill"} \/ ~ Whole => dirty = Slots

(* A record holds what was asked for, at the place that was asked for.      *)
RowsAsked == Whole => \A i \in 1 .. Len(rows) : rows[i].cells = rows[i].asked.data

Refines == AskedRight /\ WriteUnderWay /\ FillUnderWay /\ ResetDirty /\ RowsAsked
-----------------------------------------------------------------------------
(* Slots in the image.                                                      *)
LEMMA SlotKinds ==
    ASSUME NEW s \in Slots
    PROVE  \/ s = SettingsSlot
           \/ \E c \in ChannelIds : s = <<"channel", c>>
           \/ \E p \in ProgramIds : s = <<"program", p>>
BY DEF Slots

LEMMA SettingsField ==
    Field(SettingsSlot) = HeaderSize /\ Width(SettingsSlot) = SettingsSize
BY DEF Field, Width, SettingsSlot

LEMMA ChannelFieldOf ==
    ASSUME NEW c
    PROVE  Field(<<"channel", c>>) = ChannelField(c) /\ Width(<<"channel", c>>) = ChannelSize
BY DEF Field, Width

LEMMA ProgramFieldOf ==
    ASSUME NEW p
    PROVE  Field(<<"program", p>>) = ProgramField(p) /\ Width(<<"program", p>>) = ProgramSize
BY DEF Field, Width

(* A slot lies behind the header and within the image.                      *)
LEMMA SlotInside ==
    ASSUME NEW s \in Slots
    PROVE  /\ Field(s) \in Nat /\ Width(s) \in 1 .. 3
           /\ Field(s) >= HeaderSize /\ Field(s) + Width(s) <= Size
<1> USE SizeAssumption DEF HeaderSize, SettingsSize, ChannelSize, ProgramSize, Size, Programs,
        Channels, ChannelField, ProgramField, ChannelIds, ProgramIds
<1>1. CASE s = SettingsSlot
    BY <1>1, SettingsField
<1>2. ASSUME NEW c \in ChannelIds, s = <<"channel", c>>
      PROVE  /\ Field(s) \in Nat /\ Width(s) \in 1 .. 3
             /\ Field(s) >= HeaderSize /\ Field(s) + Width(s) <= Size
    BY <1>2, ChannelFieldOf
<1>3. ASSUME NEW p \in ProgramIds, s = <<"program", p>>
      PROVE  /\ Field(s) \in Nat /\ Width(s) \in 1 .. 3
             /\ Field(s) >= HeaderSize /\ Field(s) + Width(s) <= Size
    BY <1>3, ProgramFieldOf
<1> QED BY <1>1, <1>2, <1>3, SlotKinds

(* Two slots do not overlap.                                                *)
LEMMA SlotsApart ==
    ASSUME NEW s \in Slots, NEW t \in Slots, s # t
    PROVE  Field(s) + Width(s) <= Field(t) \/ Field(t) + Width(t) <= Field(s)
<1> DEFINE Apart(f, g) == Field(f) + Width(f) <= Field(g) \/ Field(g) + Width(g) <= Field(f)
<1> USE SizeAssumption DEF HeaderSize, SettingsSize, ChannelSize, ProgramSize, Programs,
        Channels, ChannelField, ProgramField, ChannelIds, ProgramIds
<1>1. ASSUME NEW c \in ChannelIds PROVE Apart(SettingsSlot, <<"channel", c>>)
    BY SettingsField, ChannelFieldOf
<1>2. ASSUME NEW p \in ProgramIds PROVE Apart(SettingsSlot, <<"program", p>>)
    BY SettingsField, ProgramFieldOf
<1>3. ASSUME NEW c \in ChannelIds, NEW p \in ProgramIds
      PROVE  Apart(<<"channel", c>>, <<"program", p>>)
    BY ChannelFieldOf, ProgramFieldOf
<1>4. ASSUME NEW c \in ChannelIds, NEW d \in ChannelIds, c # d
      PROVE  Apart(<<"channel", c>>, <<"channel", d>>)
    BY <1>4, ChannelFieldOf
<1>5. ASSUME NEW p \in ProgramIds, NEW q \in ProgramIds, p # q
      PROVE  Apart(<<"program", p>>, <<"program", q>>)
    BY <1>5, ProgramFieldOf
<1>6. \/ s = SettingsSlot
      \/ \E c \in ChannelIds : s = <<"channel", c>>
      \/ \E p \in ProgramIds : s = <<"program", p>>
    BY SlotKinds
<1>7. \/ t = SettingsSlot
      \/ \E c \in ChannelIds : t = <<"channel", c>>
      \/ \E p \in ProgramIds : t = <<"program", p>>
    BY SlotKinds
<1>8. Apart(s, t) \/ Apart(t, s)
  <2> HIDE DEF Apart, ChannelIds, ProgramIds
  <2> QED BY <1>1, <1>2, <1>3, <1>4, <1>5, <1>6, <1>7
<1> QED BY <1>8

(* What a slot holds depends on its cells alone.                            *)
LEMMA ContentOfCells ==
    ASSUME NEW img, NEW jmg, NEW s \in Slots,
           \A k \in 1 .. Width(s) : img[Field(s) + k - 1] = jmg[Field(s) + k - 1]
    PROVE  Content(img, s) = Content(jmg, s)
<1> USE SizeAssumption DEF HeaderSize, SettingsSize, ChannelSize, ProgramSize, Programs,
        Channels, ChannelField, ProgramField, ChannelIds, ProgramIds
<1> DEFINE f == Field(s)
<1>0. f \in Nat
    BY SlotInside
<1>1. CASE s = SettingsSlot
  <2>1. f = HeaderSize /\ Width(s) = 1
    BY <1>1, SettingsField
  <2>2. img[HeaderSize] = jmg[HeaderSize]
    <3>1. 1 \in 1 .. Width(s) /\ Field(s) + 1 - 1 = HeaderSize
      BY <2>1
    <3> QED BY <3>1
  <2> QED BY <1>1, <2>2 DEF Content, SettingsSlot
<1>2. ASSUME NEW c \in ChannelIds, s = <<"channel", c>>
      PROVE  Content(img, s) = Content(jmg, s)
  <2>1. f = ChannelField(c) /\ Width(s) = 2
    BY <1>2, ChannelFieldOf
  <2>2. img[f] = jmg[f]
    <3>1. 1 \in 1 .. Width(s) /\ Field(s) + 1 - 1 = f
      BY <1>0, <2>1
    <3> QED BY <3>1
  <2>3. img[f + 1] = jmg[f + 1]
    <3>1. 2 \in 1 .. Width(s) /\ Field(s) + 2 - 1 = f + 1
      BY <1>0, <2>1
    <3> QED BY <3>1
  <2> HIDE DEF f, ChannelField
  <2> QED BY <1>2, <2>1, <2>2, <2>3 DEF Content
<1>3. ASSUME NEW p \in ProgramIds, s = <<"program", p>>
      PROVE  Content(img, s) = Content(jmg, s)
  <2>1. f = ProgramField(p) /\ Width(s) = 3
    BY <1>3, ProgramFieldOf
  <2>2. img[f] = jmg[f]
    <3>1. 1 \in 1 .. Width(s) /\ Field(s) + 1 - 1 = f
      BY <1>0, <2>1
    <3> QED BY <3>1
  <2>3. img[f + 1] = jmg[f + 1]
    <3>1. 2 \in 1 .. Width(s) /\ Field(s) + 2 - 1 = f + 1
      BY <1>0, <2>1
    <3> QED BY <3>1
  <2>4. img[f + 2] = jmg[f + 2]
    <3>1. 3 \in 1 .. Width(s) /\ Field(s) + 3 - 1 = f + 2
      BY <1>0, <2>1
    <3> QED BY <3>1
  <2> HIDE DEF f, ProgramField
  <2> QED BY <1>3, <2>1, <2>2, <2>3, <2>4 DEF Content
<1> QED BY <1>1, <1>2, <1>3, SlotKinds
-----------------------------------------------------------------------------
(* Requests: what is asked for a slot is as long as the slot.               *)
LEMMA RequestKinds ==
    ASSUME NEW req \in Requests \cup SettingsRequests
    PROVE  \/ \E d \in Data : req = [slot |-> SettingsSlot, data |-> <<d>>]
           \/ \E c \in ChannelIds, p \in ProgramIds :
                 req = [slot |-> <<"channel", c>>, data |-> <<c, p>>]
           \/ \E p \in ProgramIds, a, b \in Data :
                 req = [slot |-> <<"program", p>>, data |-> <<p, a, b>>]
<1>1. CASE req \in SettingsRequests
    BY <1>1 DEF SettingsRequests
<1>2. CASE req \in ChannelRequests
    BY <1>2 DEF ChannelRequests
<1>3. CASE req \in ProgramRequests
    BY <1>3 DEF ProgramRequests
<1> QED BY <1>1, <1>2, <1>3 DEF Requests

LEMMA AskedSlot ==
    ASSUME NEW req \in Requests \cup SettingsRequests
    PROVE  /\ req.slot \in Slots /\ req # NotAsked
           /\ req = [slot |-> req.slot, data |-> req.data]
<1>1. ASSUME NEW d \in Data, req = [slot |-> SettingsSlot, data |-> <<d>>]
      PROVE  req.slot \in Slots /\ req = [slot |-> req.slot, data |-> req.data]
    BY <1>1 DEF Slots
<1>2. ASSUME NEW c \in ChannelIds, NEW p \in ProgramIds,
             req = [slot |-> <<"channel", c>>, data |-> <<c, p>>]
      PROVE  req.slot \in Slots /\ req = [slot |-> req.slot, data |-> req.data]
    BY <1>2 DEF Slots
<1>3. ASSUME NEW p \in ProgramIds, NEW a \in Data, NEW b \in Data,
             req = [slot |-> <<"program", p>>, data |-> <<p, a, b>>]
      PROVE  req.slot \in Slots /\ req = [slot |-> req.slot, data |-> req.data]
    BY <1>3 DEF Slots
<1>4. req.slot \in Slots /\ req = [slot |-> req.slot, data |-> req.data]
    BY <1>1, <1>2, <1>3, RequestKinds
<1>5. << >> \notin Slots
  <2> SUFFICES ASSUME << >> \in Slots PROVE FALSE
    OBVIOUS
  <2> QED BY SlotKinds DEF SettingsSlot
<1> QED BY <1>4, <1>5 DEF NotAsked

(* A slot whose cells are those of a request holds what is asked.           *)
LEMMA ContentAsked ==
    ASSUME NEW img, NEW req \in Requests \cup SettingsRequests,
           \A k \in 1 .. Width(req.slot) : img[Field(req.slot) + k - 1] = req.data[k]
    PROVE  Content(img, req.slot) = req.data
<1> USE SizeAssumption DEF HeaderSize, SettingsSize, ChannelSize, ProgramSize, Programs,
        Channels, ChannelField, ProgramField, ChannelIds, ProgramIds
<1> DEFINE f == Field(req.slot)
<1>0. f \in Nat
    BY SlotInside, AskedSlot
<1>1. ASSUME NEW d \in Data, req = [slot |-> SettingsSlot, data |-> <<d>>]
      PROVE  Content(img, req.slot) = req.data
  <2>1. f = HeaderSize /\ Width(req.slot) = 1 /\ req.slot = SettingsSlot
    BY <1>1, SettingsField
  <2>2. img[HeaderSize] = d
    <3>1. 1 \in 1 .. Width(req.slot) /\ Field(req.slot) + 1 - 1 = HeaderSize /\ req.data[1] = d
      BY <1>1, <2>1
    <3> QED BY <3>1
  <2> QED BY <1>1, <2>1, <2>2 DEF Content, SettingsSlot
<1>2. ASSUME NEW c \in ChannelIds, NEW p \in ProgramIds,
             req = [slot |-> <<"channel", c>>, data |-> <<c, p>>]
      PROVE  Content(img, req.slot) = req.data
  <2>1. f = ChannelField(c) /\ Width(req.slot) = 2 /\ req.slot = <<"channel", c>>
    BY <1>2, ChannelFieldOf
  <2>2. img[f] = c
    <3>1. 1 \in 1 .. Width(req.slot) /\ Field(req.slot) + 1 - 1 = f /\ req.data[1] = c
      BY <1>0, <1>2, <2>1
    <3> QED BY <3>1
  <2>3. img[f + 1] = p
    <3>1. 2 \in 1 .. Width(req.slot) /\ Field(req.slot) + 2 - 1 = f + 1 /\ req.data[2] = p
      BY <1>0, <1>2, <2>1
    <3> QED BY <3>1
  <2> HIDE DEF f, ChannelField
  <2> QED BY <1>2, <2>1, <2>2, <2>3 DEF Content
<1>3. ASSUME NEW p \in ProgramIds, NEW a \in Data, NEW b \in Data,
             req = [slot |-> <<"program", p>>, data |-> <<p, a, b>>]
      PROVE  Content(img, req.slot) = req.data
  <2>1. f = ProgramField(p) /\ Width(req.slot) = 3 /\ req.slot = <<"program", p>>
    BY <1>3, ProgramFieldOf
  <2>2. img[f] = p
    <3>1. 1 \in 1 .. Width(req.slot) /\ Field(req.slot) + 1 - 1 = f /\ req.data[1] = p
      BY <1>0, <1>3, <2>1
    <3> QED BY <3>1
  <2>3. img[f + 1] = a
    <3>1. 2 \in 1 .. Width(req.slot) /\ Field(req.slot) + 2 - 1 = f + 1 /\ req.data[2] = a
      BY <1>0, <1>3, <2>1
    <3> QED BY <3>1
  <2>4. img[f + 2] = b
    <3>1. 3 \in 1 .. Width(req.slot) /\ Field(req.slot) + 3 - 1 = f + 2 /\ req.data[3] = b
      BY <1>0, <1>3, <2>1
    <3> QED BY <3>1
  <2> HIDE DEF f, ProgramField
  <2> QED BY <1>3, <2>1, <2>2, <2>3, <2>4 DEF Content
<1> QED BY <1>1, <1>2, <1>3, RequestKinds
-----------------------------------------------------------------------------
(* The progress of a write is kept by every step.                           *)
LEMMA InitRefines == Init => Refines
BY SizeIsNat DEF Init, Refines, Whole, AskedRight, WriteUnderWay, FillUnderWay, ResetDirty, RowsAsked

LEMMA StartInitRefines ==
    ASSUME Refines, NEW force, StartInit(force)
    PROVE  Refines'
BY DEF StartInit, Refines, AskedRight, WriteUnderWay, FillUnderWay, ResetDirty, RowsAsked,
    Whole

LEMMA ErasedRefines == Inv /\ Refines /\ Erased => Refines'
<1> SUFFICES ASSUME Inv, Refines, Erased PROVE Refines'
    OBVIOUS
<1>1. FillUnderWay'
  <2>1. \A k \in 1 .. Size : Cells(FactoryImage)[k] = FactoryImage[k - 1]
    BY CellsFacts, FactoryFits
  <2> SUFFICES ASSUME NEW a \in Addresses PROVE Cells(FactoryImage)[a - 0 + 1] = FactoryImage[a]
    BY DEF Erased, FillUnderWay, Holds, Addresses
  <2>2. a + 1 \in 1 .. Size /\ a - 0 + 1 = a + 1 /\ (a + 1) - 1 = a
    BY SizeIsNat DEF Addresses
  <2> QED BY <2>1, <2>2
<1>2. asked = NotAsked
    BY DEF Refines, AskedRight, Erased
<1> QED
    BY <1>1, <1>2 DEF Erased, Refines, AskedRight, WriteUnderWay, ResetDirty, RowsAsked, Whole

LEMMA CellRefines == Inv /\ Refines /\ WriteCell => Refines'
<1> SUFFICES ASSUME Inv, Refines, WriteCell PROVE Refines'
    OBVIOUS
<1>1. /\ Len(left) \in Nat \ {0} /\ Head(left) = left[1] /\ left[1] \in Nat
      /\ Tail(left) \in Seq(Nat) /\ Len(Tail(left)) = Len(left) - 1
      /\ \A k \in 1 .. Len(Tail(left)) : Tail(left)[k] = left[k + 1]
    BY TailFacts DEF Inv, StoreType, WriteCell
<1>2. ee \in Addresses /\ ee \in Nat
    BY <1>1, Layout DEF Inv, StoreType, WriteCell, Addresses
<1>3. /\ image'[ee] = left[1]
      /\ \A a \in Addresses : a # ee => image'[a] = image[a]
      /\ ee' = ee + 1 /\ left' = Tail(left) /\ pc' = pc /\ asked' = asked
    BY <1>1, <1>2 DEF Inv, StoreType, WriteCell
<1>4. ASSUME NEW a \in Addresses, NEW v, Holds(a, v), a < ee + Len(left)
      PROVE  /\ a < ee'  => image'[a] = v
             /\ a >= ee' => left'[a - ee' + 1] = v
  <2>1. a \in Nat
    BY DEF Addresses
  <2>2. CASE a < ee
    <3>1. image'[a] = v
      BY <1>2, <1>3, <1>4, <2>1, <2>2 DEF Holds
    <3>2. ~ (a >= ee')
      BY <1>2, <1>3, <2>1, <2>2
    <3> QED BY <3>1, <3>2
  <2>3. CASE a = ee
    <3>1. a - ee + 1 = 1 /\ a >= ee
      BY <2>1, <2>3
    <3>2. image'[a] = v
      BY <1>3, <1>4, <2>3, <3>1 DEF Holds
    <3>3. ~ (a >= ee')
      BY <1>2, <1>3, <2>3
    <3> QED BY <3>2, <3>3
  <2>4. CASE a > ee
    <3>1. a - ee' + 1 \in 1 .. Len(Tail(left)) /\ (a - ee' + 1) + 1 = a - ee + 1
      BY <1>1, <1>2, <1>3, <1>4, <2>1, <2>4
    <3>2. left[a - ee + 1] = v
      BY <1>2, <1>4, <2>1, <2>4 DEF Holds
    <3>3. left'[a - ee' + 1] = v
      BY <1>1, <1>3, <3>1, <3>2
    <3>4. ~ (a < ee')
      BY <1>2, <1>3, <2>1, <2>4
    <3> QED BY <3>3, <3>4
  <2>5. a < ee \/ a = ee \/ a > ee
    BY <1>2, <2>1
  <2> QED BY <2>2, <2>3, <2>4, <2>5
<1>5. WriteUnderWay'
  <2> SUFFICES ASSUME Whole, asked # NotAsked PROVE WriteUnderWay'
    BY <1>3 DEF WriteUnderWay, WriteCell, Whole, Refines, AskedRight
  <2>1. asked.slot \in Slots
    BY AskedSlot DEF Refines, AskedRight
  <2>2. Field(asked.slot) \in Nat /\ Width(asked.slot) \in 1 .. 3
        /\ Field(asked.slot) + Width(asked.slot) <= Size
    BY <2>1, SlotInside
  <2>3. /\ ee >= Field(asked.slot)
        /\ ee + Len(left) = Field(asked.slot) + Width(asked.slot)
        /\ \A k \in 1 .. Width(asked.slot) : Holds(Field(asked.slot) + k - 1, asked.data[k])
    BY DEF Refines, WriteUnderWay
  <2>4. ASSUME NEW k \in 1 .. Width(asked.slot)
        PROVE  LET a == Field(asked.slot) + k - 1 IN
               /\ a < ee'  => image'[a] = asked.data[k]
               /\ a >= ee' => left'[a - ee' + 1] = asked.data[k]
    <3>1. Field(asked.slot) + k - 1 \in Addresses
      BY <2>2, SizeIsNat DEF Addresses
    <3>2. Holds(Field(asked.slot) + k - 1, asked.data[k])
      BY <2>3
    <3>3. Field(asked.slot) + k - 1 < ee + Len(left)
      BY <2>2, <2>3
    <3> QED BY <1>4, <3>1, <3>2, <3>3
  <2>5. ee + 1 >= Field(asked.slot)
        /\ ee + 1 + Len(Tail(left)) = Field(asked.slot) + Width(asked.slot)
    BY <1>1, <1>2, <2>2, <2>3
  <2> QED BY <1>3, <2>4, <2>5 DEF WriteUnderWay, Holds
<1>6. FillUnderWay'
  <2> SUFFICES ASSUME pc = "fill", NEW a \in Addresses
               PROVE  /\ a < ee'  => image'[a] = FactoryImage[a]
                      /\ a >= ee' => left'[a - ee' + 1] = FactoryImage[a]
    BY <1>3 DEF FillUnderWay, Holds
  <2>1. ee + Len(left) = Size /\ Holds(a, FactoryImage[a])
    BY DEF Inv, FilledFits, Refines, FillUnderWay
  <2>2. a < ee + Len(left)
    BY <2>1, SizeIsNat DEF Addresses
  <2> QED BY <1>4, <2>1, <2>2
<1>7. AskedRight'
    BY DEF Refines, AskedRight, WriteCell
<1>8. pc \in {"erase", "fill"} \/ (pc = "save" /\ Whole' = Whole)
    BY DEF Inv, StoreType, Idle, WriteCell, Whole
<1>9. ResetDirty' /\ RowsAsked'
  <2>1. CASE pc \in {"erase", "fill"}
    <3>1. rows = << >>
      BY <2>1 DEF Inv, RowsRight
    <3> QED BY <2>1, <3>1 DEF WriteCell, Refines, ResetDirty, RowsAsked
  <2>2. CASE pc = "save" /\ Whole' = Whole
    BY <2>2 DEF WriteCell, Refines, ResetDirty, RowsAsked
  <2> QED BY <1>8, <2>1, <2>2
<1> QED
    BY <1>5, <1>6, <1>7, <1>9 DEF Refines

LEMMA ReceiveRefines ==
    ASSUME Inv, Refines, NEW answer \in Answers, Receive(answer)
    PROVE  Refines'
<1>1. PICK n \in 1 .. MaxLines : answer \in [1 .. n -> Requests]
    BY DEF Answers
<1>2. ASSUME Whole
      PROVE  /\ \A c \in ChannelIds : ram[ChannelField(c)] = c
             /\ \A p \in ProgramIds : ram[ProgramField(p)] = p
  <2>1. IdsUpTo(ram, Size)
    BY <1>2, FitIds DEF Inv, RamFits, Receive, Whole
  <2>2. /\ \A c \in ChannelIds : ChannelField(c) < Size
        /\ \A p \in ProgramIds : ProgramField(p) < Size
    BY Layout, SizeIsNat
  <2> QED BY <2>1, <2>2 DEF IdsUpTo
<1>3. ASSUME Whole, NEW i \in 1 .. n PROVE Parsed(answer[i]).cells = Parsed(answer[i]).asked.data
  <2>1. answer[i] \in Requests
    BY <1>1
  <2>2. ASSUME NEW c \in ChannelIds, NEW p \in ProgramIds,
               answer[i] = [slot |-> <<"channel", c>>, data |-> <<c, p>>]
        PROVE  Parsed(answer[i]).cells = Parsed(answer[i]).asked.data
    BY <2>2, <1>2, <1>3 DEF Parsed, ChannelRow
  <2>3. ASSUME NEW p \in ProgramIds, NEW a \in Data, NEW b \in Data,
               answer[i] = [slot |-> <<"program", p>>, data |-> <<p, a, b>>]
        PROVE  Parsed(answer[i]).cells = Parsed(answer[i]).asked.data
    BY <2>3, <1>2, <1>3 DEF Parsed, ProgramRow
  <2> QED BY <2>1, <2>2, <2>3 DEF Requests, ChannelRequests, ProgramRequests
<1>4. rows' = [i \in 1 .. n |-> Parsed(answer[i])]
    BY <1>1 DEF Receive
<1>5. Len(rows') = n
    BY <1>4, BoundAssumption
<1>6. RowsAsked'
    BY <1>3, <1>4, <1>5 DEF RowsAsked, Receive, Whole
<1>7. left = << >>
    BY DEF Inv, Idle, Receive
<1>8. asked = NotAsked
    BY DEF Refines, AskedRight, Receive
<1> QED
    BY <1>6, <1>7, <1>8 DEF Receive, Refines, AskedRight, WriteUnderWay, FillUnderWay, ResetDirty,
        Whole

(* A write begins with all of its slot left to be written.                  *)
LEMMA BeginUnderWay ==
    ASSUME NEW req \in Requests \cup SettingsRequests,
           asked' = req, ee' = Field(req.slot), left' = req.data
    PROVE  WriteUnderWay'
<1>1. Field(req.slot) \in Nat /\ Width(req.slot) \in 1 .. 3
    BY AskedSlot, SlotInside
<1>2. Len(req.data) = Width(req.slot)
  <2>1. ASSUME NEW d \in Data, req = [slot |-> SettingsSlot, data |-> <<d>>]
        PROVE  Len(req.data) = Width(req.slot)
    BY <2>1, SettingsField DEF SettingsSize
  <2>2. ASSUME NEW c \in ChannelIds, NEW p \in ProgramIds,
               req = [slot |-> <<"channel", c>>, data |-> <<c, p>>]
        PROVE  Len(req.data) = Width(req.slot)
    BY <2>2, ChannelFieldOf DEF ChannelSize
  <2>3. ASSUME NEW p \in ProgramIds, NEW a \in Data, NEW b \in Data,
               req = [slot |-> <<"program", p>>, data |-> <<p, a, b>>]
        PROVE  Len(req.data) = Width(req.slot)
    BY <2>3, ProgramFieldOf DEF ProgramSize
  <2> QED BY <2>1, <2>2, <2>3, RequestKinds
<1>3. ASSUME NEW k \in 1 .. Width(req.slot), NEW a, a = Field(req.slot) + k - 1
      PROVE  /\ a < ee'  => image'[a] = req.data[k]
             /\ a >= ee' => left'[a - ee' + 1] = req.data[k]
  <2>1. ~ (a < ee') /\ a - ee' + 1 = k
    BY <1>1, <1>3
  <2> QED BY <2>1
<1>4. ee' >= Field(req.slot) /\ ee' + Len(left') = Field(req.slot) + Width(req.slot)
    BY <1>1, <1>2
<1>5. \A k \in 1 .. Width(req.slot) : Holds(Field(req.slot) + k - 1, req.data[k])'
    BY <1>3 DEF Holds
<1> QED BY <1>4, <1>5 DEF WriteUnderWay, Holds

(* The row that SaveRow takes was asked for.                                *)
LEMMA HeadAsked ==
    ASSUME Inv, SaveRow
    PROVE  Head(rows).asked \in Requests
<1>1. rows \in Seq([asked : Requests, cells : Seq(Nat)]) /\ rows # << >>
    BY DEF Inv, RowsRight, SaveRow
<1>2. Head(rows) \in [asked : Requests, cells : Seq(Nat)]
    BY <1>1, HeadType
<1> QED BY <1>2

(* A record holds what was asked for, and goes where it belongs.            *)
LEMMA RowInPlace ==
    ASSUME Inv, Refines, Whole, SaveRow
    PROVE  /\ WriteAddress(Head(rows)) = Field(Head(rows).asked.slot)
           /\ Head(rows).cells = Head(rows).asked.data
<1> DEFINE row == Head(rows)
<1>1. rows \in Seq([asked : Requests, cells : Seq(Nat)]) /\ rows # << >>
    BY DEF Inv, RowsRight, SaveRow
<1>3. row.cells = row.asked.data
  <2>1. row = rows[1] /\ 1 \in 1 .. Len(rows)
    BY <1>1
  <2> QED BY <2>1 DEF Refines, RowsAsked
<1>4. row.asked \in Requests
    BY HeadAsked
<1> HIDE DEF row
<1> USE SizeAssumption DEF HeaderSize, SettingsSize, ChannelSize, ProgramSize, Programs,
        Channels, ChannelField, ProgramField
<1>5. ASSUME NEW c \in ChannelIds, NEW p \in ProgramIds,
             row.asked = [slot |-> <<"channel", c>>, data |-> <<c, p>>]
      PROVE  WriteAddress(row) = Field(row.asked.slot)
    BY <1>3, <1>5, ChannelFieldOf DEF WriteAddress, ChannelAddress
<1>6. ASSUME NEW p \in ProgramIds, NEW a \in Data, NEW b \in Data,
             row.asked = [slot |-> <<"program", p>>, data |-> <<p, a, b>>]
      PROVE  WriteAddress(row) = Field(row.asked.slot)
    BY <1>3, <1>6, ProgramFieldOf DEF WriteAddress, ProgramAddress
<1>7. WriteAddress(row) = Field(row.asked.slot)
    BY <1>4, <1>5, <1>6 DEF Requests, ChannelRequests, ProgramRequests
<1> QED BY <1>3, <1>7 DEF row

LEMMA SaveRowRefines == Inv /\ Refines /\ SaveRow => Refines'
<1> SUFFICES ASSUME Inv, Refines, SaveRow PROVE Refines'
    OBVIOUS
<1>1. Head(rows).asked \in Requests \cup SettingsRequests
    BY HeadAsked
<1>2. Whole' = Whole
    BY DEF SaveRow, Whole
<1>3. WriteUnderWay'
  <2>1. CASE Whole
    BY <1>1, <2>1, RowInPlace, BeginUnderWay DEF SaveRow
  <2>2. CASE ~ Whole
    BY <1>2, <2>2 DEF WriteUnderWay
  <2> QED BY <2>1, <2>2
<1>4. AskedRight'
    BY <1>1, AskedSlot DEF SaveRow, AskedRight
<1>5. RowsAsked'
  <2>1. rows \in Seq([asked : Requests, cells : Seq(Nat)]) /\ rows # << >>
    BY DEF Inv, RowsRight, SaveRow
  <2>2. \A i \in 1 .. Len(Tail(rows)) : i + 1 \in 1 .. Len(rows) /\ Tail(rows)[i] = rows[i + 1]
    BY <2>1
  <2>3. rows' = Tail(rows)
    BY DEF SaveRow
  <2>4. Whole => \A i \in 1 .. Len(Tail(rows)) : Tail(rows)[i].cells = Tail(rows)[i].asked.data
    BY <2>2 DEF Refines, RowsAsked
  <2> QED BY <1>2, <2>3, <2>4 DEF RowsAsked
<1>6. ResetDirty'
    BY <1>1, <1>2, AskedSlot DEF SaveRow, Refines, ResetDirty
<1> QED
    BY <1>3, <1>4, <1>5, <1>6 DEF SaveRow, Refines, FillUnderWay

LEMMA SettingsRefines ==
    ASSUME Inv, Refines, NEW d \in Data, WriteSettings(d)
    PROVE  Refines'
<1> DEFINE req == [slot |-> SettingsSlot, data |-> <<d>>]
<1>1. req \in Requests \cup SettingsRequests
    BY DEF SettingsRequests
<1>2. asked' = req /\ ee' = Field(req.slot) /\ left' = req.data
    BY SettingsField DEF WriteSettings
<1>3. dirty' = dirty \cup {req.slot}
    BY DEF WriteSettings
<1> HIDE DEF req
<1>4. WriteUnderWay'
    BY <1>1, <1>2, BeginUnderWay
<1>5. AskedRight'
    BY <1>1, <1>2, <1>3, AskedSlot DEF WriteSettings, AskedRight
<1>6. ResetDirty' /\ RowsAsked'
    BY <1>1, <1>3, AskedSlot DEF WriteSettings, Refines, ResetDirty, RowsAsked, Whole
<1> QED
    BY <1>4, <1>5, <1>6 DEF WriteSettings, Refines, FillUnderWay

LEMMA OtherRefines ==
    ASSUME Inv, Refines,
           BootKnown \/ Filled \/ Load \/ Written \/ Reload \/ Crash \/ Watchdog \/ UNCHANGED vars
    PROVE  Refines'
<1> USE DEF Refines, AskedRight, WriteUnderWay, FillUnderWay, ResetDirty, RowsAsked, Holds, Whole
<1>1. CASE BootKnown
    BY <1>1 DEF BootKnown
<1>2. CASE Filled
  <2>1. filled = Size
    BY <1>2 DEF Inv, StoreType, FilledFits, Filled
  <2> QED BY <1>2, <2>1 DEF Filled
<1>3. CASE Load
    BY <1>3 DEF Load
<1>4. CASE Written
    BY <1>4 DEF Written
<1>5. CASE Reload
    BY <1>5 DEF Reload, Saved
<1>6. CASE Crash \/ Watchdog
    BY <1>6 DEF Crash, Watchdog, Restart
<1>7. CASE UNCHANGED vars
    BY <1>7 DEF vars
<1> QED BY <1>1, <1>2, <1>3, <1>4, <1>5, <1>6, <1>7

(* The progress invariant, together with that of the ids.                   *)
THEOREM ProgressKept == Spec => []Refines
<1>1. Inv /\ Refines /\ [Next]_vars => Refines'
  <2> SUFFICES ASSUME Inv, Refines, [Next]_vars PROVE Refines'
    OBVIOUS
  <2>1. CASE BootInit \/ ForceInit
    BY <2>1, StartInitRefines DEF BootInit, ForceInit
  <2>2. CASE WriteCell
    BY <2>2, CellRefines
  <2>3. CASE Erased
    BY <2>3, ErasedRefines
  <2>4. CASE \E answer \in Answers : Receive(answer)
    BY <2>4, ReceiveRefines
  <2>5. CASE SaveRow
    BY <2>5, SaveRowRefines
  <2>6. CASE \E d \in Data : WriteSettings(d)
    BY <2>6, SettingsRefines
  <2>7. CASE BootKnown \/ Filled \/ Load \/ Written \/ Reload \/ Crash \/ Watchdog
             \/ UNCHANGED vars
    BY <2>7, OtherRefines
  <2> QED BY <2>1, <2>2, <2>3, <2>4, <2>5, <2>6, <2>7 DEF Next
<1> QED BY <1>1, InitRefines, StoreInvariant, PTL DEF Spec
-----------------------------------------------------------------------------
(* The value and the request that ConfigRegister sees.                      *)
Value == [s \in Slots |-> IF s \in dirty THEN << >> ELSE Content(image, s)]
Asked == IF Whole THEN asked ELSE NotAsked

(* A step that leaves the clean slots, and what is asked, alone.            *)
LEMMA Stutter ==
    ASSUME dirty' = dirty, Asked' = Asked,
           \A s \in Slots \ dirty : Content(image', s) = Content(image, s)
    PROVE  UNCHANGED Register!vars
<1>1. Value' = Value
    BY DEF Value
<1> QED BY <1>1 DEF Value, Asked, Register!vars, Unsettled

(* A cell that is written belongs to no clean slot.                         *)
LEMMA CellStutters ==
    ASSUME Inv, Refines, WriteCell
    PROVE  UNCHANGED Register!vars
<1>1. /\ Len(left) \in Nat \ {0} /\ left # << >> /\ ee \in Nat
      /\ ee + Len(left) <= Size /\ image \in [Addresses -> Nat]
    BY TailFacts DEF Inv, StoreType, WriteCell
<1>2. \A a \in Addresses : a # ee => image'[a] = image[a]
    BY <1>1 DEF WriteCell
<1>3. ASSUME NEW s \in Slots \ dirty PROVE Content(image', s) = Content(image, s)
  <2>0. Whole
    BY <1>3 DEF Refines, ResetDirty
  <2>1. asked # NotAsked /\ asked.slot \in dirty /\ asked.slot \in Slots
    <3>1. pc \notin {"erase", "fill"}
      BY <1>3 DEF Refines, ResetDirty
    <3>2. pc = "save"
      BY <1>1, <3>1 DEF Inv, StoreType, Idle
    <3>3. asked # NotAsked
      BY <1>1, <3>2 DEF Refines, AskedRight
    <3> QED BY <3>3, AskedSlot DEF Refines, AskedRight
  <2>2. /\ ee >= Field(asked.slot)
        /\ ee + Len(left) = Field(asked.slot) + Width(asked.slot)
    BY <2>0, <2>1 DEF Refines, WriteUnderWay
  <2>3. /\ Field(asked.slot) \in Nat /\ Width(asked.slot) \in 1 .. 3
        /\ Field(s) \in Nat /\ Width(s) \in 1 .. 3 /\ Field(s) + Width(s) <= Size
    BY <2>1, SlotInside
  <2>4. \/ Field(s) + Width(s) <= Field(asked.slot)
        \/ Field(asked.slot) + Width(asked.slot) <= Field(s)
    BY <2>1, SlotsApart
  <2>5. ASSUME NEW k \in 1 .. Width(s)
        PROVE  image'[Field(s) + k - 1] = image[Field(s) + k - 1]
    <3>1. Field(s) + k - 1 \in Addresses
      BY <2>3, SizeIsNat DEF Addresses
    <3>2. Field(s) + k - 1 # ee
      BY <2>2, <2>3, <2>4, <1>1
    <3> QED BY <3>1, <3>2, <1>2
  <2> QED BY <2>5, ContentOfCells
<1>4. Asked' = Asked
    BY <1>1 DEF Inv, StoreType, Idle, Refines, AskedRight, WriteCell, Whole, Asked
<1> QED BY <1>3, <1>4, Stutter DEF WriteCell

(* ee_init begins: no slot is settled.                                      *)
LEMMA InitBegins ==
    ASSUME NEW force, StartInit(force)
    PROVE  Register!BeginReset
<1>1. Value' = [s \in Slots |-> << >>]
    BY DEF StartInit, Value
<1>2. Asked' = NotAsked
    BY DEF StartInit, Asked
<1> QED
    BY <1>1, <1>2 DEF Value, Asked, Register!BeginReset, Register!Nobody, NotAsked, Unsettled

(* ee_init ends: every slot has its default.                                *)
LEMMA InitEnds ==
    ASSUME Inv, Refines, Filled
    PROVE  Register!EndReset
<1>1. dirty = Slots /\ asked = NotAsked
    BY DEF Refines, ResetDirty, AskedRight, Filled
<1>2. \A s \in Slots : Value[s] = << >>
    BY <1>1 DEF Value
<1>3. image = FactoryImage
  <2>1. \A a \in Addresses : Holds(a, FactoryImage[a])
    BY DEF Refines, FillUnderWay, Filled
  <2>2. ee = Size
    BY DEF Inv, StoreType, FilledFits, Filled
  <2>3. \A a \in Addresses : image[a] = FactoryImage[a]
    BY <2>1, <2>2, SizeIsNat DEF Holds, Addresses
  <2>4. image \in [Addresses -> Nat] /\ FactoryImage \in [Addresses -> Nat]
    BY FactoryFits DEF Inv, StoreType
  <2> QED BY <2>3, <2>4
<1>4. Value' = [s \in Slots |-> Content(FactoryImage, s)]
    BY <1>3 DEF Value, Filled
<1>5. Asked' = NotAsked
    BY <1>1 DEF Filled, Asked
<1> QED
    BY <1>2, <1>4, <1>5 DEF Value, Asked, Register!EndReset, Register!Nobody, NotAsked, Unsettled

(* A write begins: its slot is unsettled, the others are not touched.       *)
LEMMA WriteBegins ==
    ASSUME Refines, NEW req \in Requests \cup SettingsRequests,
           asked' = req, dirty' = dirty \cup {req.slot}, UNCHANGED <<image, filled>>
    PROVE  \/ \E s \in Slots, d \in {<<d>> : d \in Data} \cup {r.data : r \in Requests} :
                 Register!Begin(s, d)
           \/ UNCHANGED Register!vars
<1>1. req.slot \in Slots /\ req = [slot |-> req.slot, data |-> req.data]
    BY AskedSlot
<1>2. req.data \in {<<d>> : d \in Data} \cup {r.data : r \in Requests}
    BY DEF SettingsRequests
<1>3. Whole' = Whole
    BY DEF Whole
<1>4. CASE Whole
  <2>1. Value' = [Value EXCEPT ![req.slot] = << >>]
    BY <1>1 DEF Value
  <2>2. Asked' = [slot |-> req.slot, data |-> req.data]
    BY <1>1, <1>3, <1>4 DEF Asked
  <2>3. Register!Begin(req.slot, req.data)
    BY <1>1, <2>1, <2>2 DEF Value, Asked, Register!Begin, Unsettled
  <2> QED BY <1>1, <1>2, <2>3
<1>5. CASE ~ Whole
  <2>1. dirty' = dirty
    BY <1>1, <1>5 DEF Refines, ResetDirty
  <2>2. Asked' = Asked
    BY <1>3, <1>5 DEF Asked
  <2> QED BY <2>1, <2>2, Stutter
<1> QED BY <1>4, <1>5

(* A write ends: its slot holds what was asked for.                         *)
LEMMA WriteEnds ==
    ASSUME Inv, Refines, Whole, Written
    PROVE  Register!End
<1>1. /\ asked # NotAsked /\ left = << >>
      /\ asked \in Requests \cup SettingsRequests /\ asked.slot \in Slots
    BY AskedSlot DEF Refines, AskedRight, Written
<1>2. Content(image, asked.slot) = asked.data
  <2>1. Field(asked.slot) \in Nat /\ Width(asked.slot) \in 1 .. 3
    BY <1>1, SlotInside
  <2>2. ee = Field(asked.slot) + Width(asked.slot)
    BY <1>1, <2>1 DEF Inv, StoreType, Refines, WriteUnderWay
  <2>3. ASSUME NEW k \in 1 .. Width(asked.slot)
        PROVE  image[Field(asked.slot) + k - 1] = asked.data[k]
    <3>1. Holds(Field(asked.slot) + k - 1, asked.data[k])
      BY <1>1 DEF Refines, WriteUnderWay
    <3>2. Field(asked.slot) + k - 1 < ee
      BY <2>1, <2>2
    <3> QED BY <3>1, <3>2 DEF Holds
  <2> QED BY <1>1, <2>3, ContentAsked
<1>3. Value' = [Value EXCEPT ![asked.slot] = asked.data]
    BY <1>1, <1>2 DEF Value, Written
<1>4. Asked = asked /\ Asked' = NotAsked
    BY DEF Written, Whole, Asked
<1> QED
    BY <1>1, <1>3, <1>4 DEF Value, Asked, Register!End, Register!Nobody, NotAsked, Unsettled

(* A restart cuts the write that is under way, if there is one.             *)
LEMMA RestartCuts == Restart => Register!Cut \/ UNCHANGED Register!vars
<1> SUFFICES ASSUME Restart PROVE Register!Cut \/ UNCHANGED Register!vars
    OBVIOUS
<1>1. image' = image /\ dirty' = dirty /\ Asked' = NotAsked
    BY DEF Restart, Asked
<1>2. Value' = Value
    BY <1>1 DEF Value
<1>3. CASE Asked = NotAsked
    BY <1>1, <1>2, <1>3 DEF Value, Asked, Register!vars, Unsettled
<1>4. CASE Asked # NotAsked
    BY <1>1, <1>2, <1>4 DEF Value, Asked, Register!Cut, Register!Nobody, NotAsked, Unsettled
<1> QED BY <1>3, <1>4

(* The store keeps the promise of ConfigRegister: a slot changes by nothing *)
(* but a write that was asked for it, and holds what was asked for when the *)
(* write ends; cut at any cell, it is the only one that suffers. A cut      *)
(* ee_init unsettles them all until another one ends.                       *)
THEOREM PromiseKept == Spec => KeepsPromise
<1>1. Init => Register!Init
    BY DEF Init, Whole, Register!Init, Register!Nobody, NotAsked, Unsettled
<1>2. Inv /\ Refines /\ [Next]_vars => [Register!Next]_(Register!vars)
  <2> SUFFICES ASSUME Inv, Refines, [Next]_vars
               PROVE  Register!Next \/ UNCHANGED Register!vars
    OBVIOUS
  <2>1. CASE BootKnown \/ Erased \/ Load \/ Reload \/ UNCHANGED vars
    BY <2>1, Stutter DEF BootKnown, Erased, Load, Reload, vars, Asked, Whole
  <2>2. CASE \E answer \in Answers : Receive(answer)
    BY <2>2, Stutter DEF Receive, Asked, Whole
  <2>3. CASE BootInit \/ ForceInit
    BY <2>3, InitBegins DEF BootInit, ForceInit, Register!Next
  <2>4. CASE WriteCell
    BY <2>4, CellStutters
  <2>5. CASE Filled
    BY <2>5, InitEnds DEF Register!Next
  <2>6. CASE SaveRow
    <3>1. Head(rows).asked \in Requests \cup SettingsRequests
      BY <2>6, HeadAsked
    <3> QED BY <2>6, <3>1, WriteBegins DEF SaveRow, Register!Next
  <2>7. ASSUME NEW d \in Data, WriteSettings(d)
        PROVE  Register!Next \/ UNCHANGED Register!vars
    <3> DEFINE req == [slot |-> SettingsSlot, data |-> <<d>>]
    <3>1. req \in Requests \cup SettingsRequests
      BY DEF SettingsRequests
    <3>2. asked' = req /\ dirty' = dirty \cup {req.slot} /\ UNCHANGED <<image, filled>>
      BY <2>7 DEF WriteSettings
    <3> HIDE DEF req
    <3> QED BY <3>1, <3>2, WriteBegins DEF Register!Next
  <2>8. CASE Written
    <3>1. CASE Whole
      BY <2>8, <3>1, WriteEnds DEF Register!Next
    <3>2. CASE ~ Whole
      BY <2>8, <3>2, Stutter DEF Written, Asked, Whole
    <3> QED BY <3>1, <3>2
  <2>9. CASE Crash \/ Watchdog
    BY <2>9, RestartCuts DEF Crash, Watchdog, Register!Next
  <2> QED BY <2>1, <2>2, <2>3, <2>4, <2>5, <2>6, <2>7, <2>8, <2>9 DEF Next
<1> QED
    BY <1>1, <1>2, StoreInvariant, ProgressKept, PTL DEF Spec, KeepsPromise, Register!Spec
================================================================================
