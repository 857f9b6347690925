--------------------------- MODULE ConfigStoreProofs ---------------------------
(***************************************************************************)
(* Proofs about ConfigStore, for any number of channels and programs, any  *)
(* number of crashes, at any cell, and any patience of the watchdog.       *)
(***************************************************************************)
EXTENDS ConfigStore, TLAPS

(* The value v may stand at the address a of an image whose first n cells   *)
(* were filled: if an id is kept there, v is it, or 0 behind the n cells.   *)
FitsAt(n, a, v) ==
    /\ \A c \in ChannelIds : a = ChannelField(c) => v = IF a < n THEN c ELSE 0
    /\ \A p \in ProgramIds : a = ProgramField(p) => v = IF a < n THEN p ELSE 0

(* A record fits where its id sends it: it carries its own number, or the   *)
(* 0 of a record that ee_init did not reach.                                *)
RowRight(n, row) ==
    \/ \E c \in ChannelIds, p \in Nat :
          /\ row.asked.slot[1] = "channel" /\ row.cells = <<c, p>>
          /\ FitsAt(n, ChannelField(c), c)
    \/ \E p \in ProgramIds, a, b \in Nat :
          /\ row.asked.slot[1] = "program" /\ row.cells = <<p, a, b>>
          /\ FitsAt(n, ProgramField(p), p)

StoreType ==
    /\ image \in [Addresses -> Nat]
    /\ ram \in [Addresses -> Nat]
    /\ pc \in {"boot", "erase", "fill", "load", "running", "save"}
    /\ forced \in BOOLEAN
    /\ left \in Seq(Nat)
    /\ ee \in Nat
    /\ left # << >> => ee + Len(left) <= Size
    /\ filled \in 0 .. Size

(* Only the three loops that write leave cells to be written.               *)
Idle == pc \in {"boot", "load", "running"} => left = << >>

(* What the writes of records and settings still have to write fits.        *)
LeftFits ==
    pc = "save" => \A k \in 1 .. Len(left) : FitsAt(filled, ee + k - 1, left[k])
LeftAbove == pc = "save" /\ left # << >> => ee >= HeaderSize

(* What the second loop of ee_init has written and what it has to write     *)
(* fits a whole image; the cells it has not reached are erased.             *)
FilledFits ==
    pc = "fill" =>
        /\ ee + Len(left) = Size /\ filled = ee
        /\ \A k \in 1 .. Len(left) : FitsAt(Size, ee + k - 1, left[k])
        /\ \A a \in Addresses : a < ee => FitsAt(Size, a, image[a])
        /\ \A a \in Addresses : a >= ee => image[a] = 0
        /\ ee > 0 => image[0] = Version
        /\ ee = 0 => left # << >> /\ left[1] = Version

(* The first loop takes the version off with its first cell, so that an     *)
(* image that is erased in part is never loaded.                            *)
ErasedFits ==
    pc = "erase" =>
        /\ ee + Len(left) = Size
        /\ \A k \in 1 .. Len(left) : left[k] = 0
        /\ \A a \in Addresses : a < ee => image[a] = 0
        /\ ee > 0 => filled = 0
        /\ ee = 0 => left # << >>
        /\ image[0] = Version => \A a \in Addresses : FitsAt(filled, a, image[a])

RowsRight ==
    /\ rows \in Seq([asked : Requests, cells : Seq(Nat)])
    /\ \A i \in 1 .. Len(rows) : RowRight(filled, rows[i])
    /\ pc # "save" => rows = << >>

ImageFits ==
    /\ (image[0] = Version /\ pc \notin {"erase", "fill"}) =>
          \A a \in Addresses : FitsAt(filled, a, image[a])
    /\ pc \in {"load", "running", "save"} => image[0] = Version
RamFits ==
    pc \in {"running", "save"} => \A a \in Addresses : FitsAt(filled, a, ram[a])

Inv ==
    /\ StoreType
    /\ Idle
    /\ LeftFits
    /\ LeftAbove
    /\ FilledFits
    /\ ErasedFits
    /\ RowsRight
    /\ ImageFits
    /\ RamFits
-----------------------------------------------------------------------------
(* The layout: the header is an address, and every field of a record with   *)
(* a valid number is one.                                                   *)
LEMMA Layout ==
    /\ Size \in Nat /\ 0 \in Addresses /\ HeaderSize \in Addresses
    /\ \A c \in ChannelIds : ChannelField(c) \in 2 .. Size - 2
    /\ \A p \in ProgramIds : ProgramField(p) \in 2 .. Size - 3
    /\ \A c \in ChannelIds, p \in ProgramIds : ChannelField(c) + 1 < ProgramField(p)
BY SizeAssumption DEF Size, Addresses, Programs, Channels, HeaderSize, SettingsSize,
    ChannelSize, ProgramSize, ChannelIds, ProgramIds, ChannelField, ProgramField

LEMMA SizeIsNat == Size \in Nat /\ Size >= 2
BY SizeAssumption DEF Size, Programs, Channels, HeaderSize, SettingsSize, ChannelSize,
    ProgramSize

(* An image every cell of which fits has the ids that ee_init wrote.        *)
LEMMA FitIds ==
    ASSUME NEW img, NEW n, \A a \in Addresses : FitsAt(n, a, img[a])
    PROVE  IdsUpTo(img, n)
<1>1. \A c \in ChannelIds : ChannelField(c) \in Addresses
    BY Layout DEF Addresses
<1>2. \A p \in ProgramIds : ProgramField(p) \in Addresses
    BY Layout DEF Addresses
<1> QED BY <1>1, <1>2 DEF IdsUpTo, FitsAt

(* Of a whole image the filled part fits, and so do the erased cells.       *)
LEMMA FitsPart ==
    ASSUME NEW n \in 0 .. Size, NEW a \in Addresses, NEW v,
           \/ a < n /\ FitsAt(Size, a, v)
           \/ a >= n /\ v = 0
    PROVE  FitsAt(n, a, v)
BY SizeIsNat DEF FitsAt, Addresses

(* The id that a record holds is that of a record which fits.               *)
LEMMA ChannelIdFits ==
    ASSUME NEW n \in Nat, NEW c \in ChannelIds
    PROVE  LET i == IF ChannelField(c) < n THEN c ELSE 0 IN
           i \in ChannelIds /\ FitsAt(n, ChannelField(i), i)
<1>1. \A d \in ChannelIds : ChannelField(d) = ChannelField(c) => d = c
    BY SizeAssumption DEF ChannelIds, ChannelField, ChannelSize, Channels, HeaderSize,
        SettingsSize
<1>2. 0 \in ChannelIds /\ \A d \in ChannelIds : ChannelField(d) = ChannelField(0) => d = 0
    BY SizeAssumption DEF ChannelIds, ChannelField, ChannelSize, Channels, HeaderSize,
        SettingsSize
<1>3. \A d \in ChannelIds, p \in ProgramIds : ChannelField(d) # ProgramField(p)
    BY SizeAssumption DEF ChannelIds, ProgramIds, ChannelField, ProgramField, Programs,
        ChannelSize, ProgramSize, Channels, HeaderSize, SettingsSize
<1>4. CASE ChannelField(c) < n
    BY <1>1, <1>3, <1>4 DEF FitsAt
<1>5. CASE ~ (ChannelField(c) < n)
    BY <1>2, <1>3, <1>5 DEF FitsAt
<1> QED BY <1>4, <1>5

LEMMA ProgramIdFits ==
    ASSUME NEW n \in Nat, NEW p \in ProgramIds
    PROVE  LET i == IF ProgramField(p) < n THEN p ELSE 0 IN
           i \in ProgramIds /\ FitsAt(n, ProgramField(i), i)
<1>1. \A d \in ProgramIds : ProgramField(d) = ProgramField(p) => d = p
    BY SizeAssumption DEF ProgramIds, ProgramField, Programs, ChannelSize, ProgramSize,
        Channels, HeaderSize, SettingsSize
<1>2. 0 \in ProgramIds /\ \A d \in ProgramIds : ProgramField(d) = ProgramField(0) => d = 0
    BY SizeAssumption DEF ProgramIds, ProgramField, Programs, ChannelSize, ProgramSize,
        Channels, HeaderSize, SettingsSize
<1>3. \A c \in ChannelIds, d \in ProgramIds : ProgramField(d) # ChannelField(c)
    BY SizeAssumption DEF ChannelIds, ProgramIds, ChannelField, ProgramField, Programs,
        ChannelSize, ProgramSize, Channels, HeaderSize, SettingsSize
<1>4. CASE ProgramField(p) < n
    BY <1>1, <1>3, <1>4 DEF FitsAt
<1>5. CASE ~ (ProgramField(p) < n)
    BY <1>2, <1>3, <1>5 DEF FitsAt
<1> QED BY <1>4, <1>5

(* The address that ee_wr_channel computes is the place of the record, and  *)
(* a record whose id fits there fits as a whole.                            *)
LEMMA ChannelFits ==
    ASSUME NEW n, NEW c \in ChannelIds, NEW q \in Nat, FitsAt(n, ChannelField(c), c)
    PROVE  /\ ChannelAddress(c) \in 2 .. Size - 2
           /\ FitsAt(n, ChannelAddress(c), c)
           /\ FitsAt(n, ChannelAddress(c) + 1, q)
<1>1. ChannelAddress(c) = ChannelField(c)
    BY SizeAssumption DEF Channels, HeaderSize, SettingsSize, ChannelSize, ChannelIds,
        ChannelField, ChannelAddress
<1>2. FitsAt(n, ChannelAddress(c) + 1, q)
    BY SizeAssumption DEF Size, Programs, Channels, HeaderSize, SettingsSize, ChannelSize,
        ProgramSize, ChannelIds, ProgramIds, ChannelField, ProgramField, ChannelAddress,
        FitsAt
<1> QED BY <1>1, <1>2, Layout

(* The same for ee_wr_program.                                              *)
LEMMA ProgramFits ==
    ASSUME NEW n, NEW p \in ProgramIds, NEW x \in Nat, NEW y \in Nat,
           FitsAt(n, ProgramField(p), p)
    PROVE  /\ ProgramAddress(p) \in 2 .. Size - 3
           /\ FitsAt(n, ProgramAddress(p), p)
           /\ FitsAt(n, ProgramAddress(p) + 1, x)
           /\ FitsAt(n, ProgramAddress(p) + 2, y)
<1>1. ProgramAddress(p) = ProgramField(p)
    BY SizeAssumption DEF Programs, Channels, HeaderSize, SettingsSize, ChannelSize,
        ProgramSize, ProgramIds, ProgramField, ProgramAddress
<1>2. FitsAt(n, ProgramAddress(p) + 1, x) /\ FitsAt(n, ProgramAddress(p) + 2, y)
    BY SizeAssumption DEF Size, Programs, Channels, HeaderSize, SettingsSize, ChannelSize,
        ProgramSize, ChannelIds, ProgramIds, ChannelField, ProgramField, ProgramAddress,
        FitsAt
<1> QED BY <1>1, <1>2, Layout

(* The database that ee_init builds fits as a whole.                        *)
LEMMA FactoryFits ==
    /\ FactoryImage \in [Addresses -> Nat]
    /\ FactoryImage[0] = Version
    /\ \A a \in Addresses : FitsAt(Size, a, FactoryImage[a])
<1>1. ASSUME NEW a \in Addresses PROVE FactoryImage[a] \in Nat
    BY SizeAssumption, VersionAssumption DEF FactoryImage, Addresses, Size, Programs,
        Channels, HeaderSize, SettingsSize, ChannelSize, ProgramSize
<1>2. FactoryImage \in [Addresses -> Nat]
    BY <1>1 DEF FactoryImage
<1>3. FactoryImage[0] = Version
    BY Layout DEF FactoryImage
<1>4. ASSUME NEW a \in Addresses, NEW c \in ChannelIds, a = ChannelField(c)
      PROVE  FactoryImage[a] = c
    BY <1>4, SizeAssumption DEF FactoryImage, Addresses, Size, Programs,
        Channels, HeaderSize, SettingsSize, ChannelSize, ProgramSize, ChannelIds,
        ChannelField
<1>5. ASSUME NEW a \in Addresses, NEW p \in ProgramIds, a = ProgramField(p)
      PROVE  FactoryImage[a] = p
    BY <1>5, SizeAssumption DEF FactoryImage, Addresses, Size, Programs,
        Channels, HeaderSize, SettingsSize, ChannelSize, ProgramSize, ProgramIds,
        ProgramField
<1>6. \A a \in Addresses : a < Size
    BY SizeIsNat DEF Addresses
<1> QED BY <1>2, <1>3, <1>4, <1>5, <1>6 DEF FitsAt

(* The sequence of the cells of an image.                                   *)
LEMMA CellsFacts ==
    ASSUME NEW img \in [Addresses -> Nat]
    PROVE  /\ Cells(img) \in Seq(Nat)
           /\ Len(Cells(img)) = Size
           /\ \A k \in 1 .. Size : Cells(img)[k] = img[k - 1]
BY Layout DEF Cells, Addresses

(* Taking the first of a sequence of numbers.                               *)
LEMMA TailFacts ==
    ASSUME NEW s \in Seq(Nat), s # << >>
    PROVE  /\ Len(s) \in Nat \ {0} /\ Head(s) = s[1] /\ s[1] \in Nat
           /\ Tail(s) \in Seq(Nat) /\ Len(Tail(s)) = Len(s) - 1
           /\ \A k \in 1 .. Len(Tail(s)) : Tail(s)[k] = s[k + 1]
OBVIOUS
-----------------------------------------------------------------------------
LEMMA NoRows ==
    /\ << >> \in Seq([asked : Requests, cells : Seq(Nat)])
    /\ \A n : \A i \in 1 .. Len(<< >>) : RowRight(n, << >>[i])
OBVIOUS

(* A controller with a new EEPROM satisfies the invariant.                  *)
LEMMA InitInv == Init => Inv
<1> SUFFICES ASSUME Init PROVE Inv
    OBVIOUS
<1>1. StoreType
  <2>1. << >> \in Seq(Nat)
    OBVIOUS
  <2>2. 0 \in 0 .. Size
    BY SizeIsNat
  <2>3. 0 \in Nat /\ Blank \in Nat
    BY VersionAssumption
  <2> QED BY <2>1, <2>2, <2>3 DEF Init, StoreType, Nothing
<1>2. image[0] # Version
    BY Layout, VersionAssumption DEF Init
<1>3. pc = "boot" /\ left = << >> /\ rows = << >>
    BY DEF Init
<1>4. Idle /\ LeftFits /\ LeftAbove /\ FilledFits /\ ErasedFits /\ RowsRight /\ RamFits
    BY <1>3, NoRows DEF Idle, LeftFits, LeftAbove, FilledFits, ErasedFits, RowsRight, RamFits
<1>5. ImageFits
    BY <1>2, <1>3 DEF ImageFits
<1> QED
    BY <1>1, <1>4, <1>5 DEF Inv

(* The begin of ee_init, by setup or by the r command.                      *)
LEMMA StartInitInv ==
    ASSUME Inv, NEW force \in BOOLEAN, StartInit(force), pc \in {"boot", "running"}
    PROVE  Inv'
<1>1. Cells(Nothing) \in Seq(Nat) /\ Len(Cells(Nothing)) = Size
    BY CellsFacts DEF Nothing
<1>2. StoreType'
    BY <1>1, Layout DEF Inv, StoreType, StartInit
<1>3. \A k \in 1 .. Len(Cells(Nothing)) : Cells(Nothing)[k] = 0
  <2>1. \A k \in 1 .. Size : k - 1 \in Addresses
    BY Layout DEF Addresses
  <2> QED BY <1>1, <2>1, CellsFacts DEF Nothing
<1>4. Cells(Nothing) # << >>
    BY <1>1, SizeIsNat
<1>5. ErasedFits'
    BY <1>1, <1>3, <1>4, SizeIsNat DEF Inv, StartInit, ErasedFits, ImageFits, Addresses
<1> QED
    BY <1>2, <1>5 DEF Inv, StartInit, Idle, LeftFits, LeftAbove, FilledFits, ErasedFits, RowsRight,
        ImageFits, RamFits

(* The other steps of setup and ee_init that write nothing.                 *)
LEMMA ErasedInv == Inv /\ Erased => Inv'
<1> SUFFICES ASSUME Inv, Erased PROVE Inv'
    OBVIOUS
<1>1. /\ Cells(FactoryImage) \in Seq(Nat)
      /\ Len(Cells(FactoryImage)) = Size
      /\ \A k \in 1 .. Size : Cells(FactoryImage)[k] = FactoryImage[k - 1]
    BY CellsFacts, FactoryFits
<1>2. StoreType'
    BY <1>1, Layout DEF Inv, StoreType, Erased
<1>3. \A k \in 1 .. Size : k - 1 \in Addresses
    BY Layout DEF Addresses
<1>4. \A k \in 1 .. Size : FitsAt(Size, 0 + k - 1, Cells(FactoryImage)[k])
    BY <1>1, <1>3, FactoryFits
<1>5. Cells(FactoryImage)[1] = Version /\ Cells(FactoryImage) # << >>
    BY <1>1, Layout, FactoryFits DEF Addresses
<1>6. ee = Size /\ ee > 0
    BY SizeIsNat DEF Inv, StoreType, ErasedFits, Erased
<1>7. filled = 0 /\ \A a \in Addresses : image[a] = 0
    BY <1>6, SizeIsNat DEF Inv, ErasedFits, Erased, Addresses
<1>8. FilledFits'
    BY <1>1, <1>4, <1>5, <1>7, SizeIsNat DEF Erased, FilledFits, Addresses
<1> QED
    BY <1>2, <1>8 DEF Inv, Erased, Idle, LeftFits, LeftAbove, ErasedFits, RowsRight,
        ImageFits, RamFits

LEMMA FilledInv == Inv /\ Filled => Inv'
<1> SUFFICES ASSUME Inv, Filled PROVE Inv'
    OBVIOUS
<1>1. StoreType'
    BY DEF Inv, StoreType, Filled, Nothing
<1>2. ee = Size /\ filled = Size
    BY DEF Inv, StoreType, FilledFits, Filled
<1>3. image[0] = Version /\ \A a \in Addresses : FitsAt(filled, a, image[a])
    BY <1>2, SizeIsNat DEF Inv, FilledFits, Filled, Addresses
<1>4. ImageFits'
    BY <1>3 DEF Filled, ImageFits
<1>5. RowsRight'
    BY DEF Inv, Filled, RowsRight
<1> QED
    BY <1>1, <1>4, <1>5 DEF Inv, Filled, Idle, LeftFits, LeftAbove, FilledFits, ErasedFits, RamFits

LEMMA BootKnownInv == Inv /\ BootKnown => Inv'
BY DEF Inv, BootKnown, StoreType, Idle, LeftFits, LeftAbove, FilledFits, ErasedFits, RowsRight,
    ImageFits, RamFits

LEMMA LoadInv == Inv /\ Load => Inv'
BY DEF Inv, Load, StoreType, Idle, LeftFits, LeftAbove, FilledFits, ErasedFits, RowsRight,
    ImageFits, RamFits

(* One cell more: it fits where it is written, and no other cell changes.   *)
LEMMA WriteCellInv == Inv /\ WriteCell => Inv'
<1> SUFFICES ASSUME Inv, WriteCell PROVE Inv'
    OBVIOUS
<1>1. /\ Len(left) \in Nat \ {0} /\ Head(left) = left[1] /\ left[1] \in Nat
      /\ Tail(left) \in Seq(Nat) /\ Len(Tail(left)) = Len(left) - 1
      /\ \A k \in 1 .. Len(Tail(left)) : Tail(left)[k] = left[k + 1]
    BY TailFacts DEF Inv, StoreType, WriteCell
<1>2. ee \in Addresses /\ ee \in Nat
    BY <1>1, Layout DEF Inv, StoreType, WriteCell, Addresses
<1>3. /\ image' \in [Addresses -> Nat]
      /\ image'[ee] = left[1]
      /\ \A a \in Addresses : a # ee => image'[a] = image[a]
    BY <1>1, <1>2 DEF Inv, StoreType, WriteCell
<1>4. /\ pc \in {"erase", "fill", "save"}
      /\ ee' = ee + 1 /\ left' = Tail(left) /\ UNCHANGED <<ram, pc, forced, rows>>
    BY DEF Inv, StoreType, Idle, WriteCell
<1>5. filled' \in 0 .. Size
    BY <1>2, SizeIsNat DEF Inv, StoreType, WriteCell, Addresses
<1>6. StoreType'
  <2>1. left # << >> /\ ee + Len(left) <= Size
    BY DEF Inv, StoreType, WriteCell
  <2>2. ee' \in Nat /\ ee' + Len(left') <= Size
    BY <1>1, <1>2, <1>4, <2>1, SizeIsNat
  <2>3. left' \in Seq(Nat)
    BY <1>1, <1>4
  <2> QED BY <1>3, <1>4, <1>5, <2>2, <2>3 DEF Inv, StoreType
<1>7. \A k \in 1 .. Len(Tail(left)) : k + 1 \in 1 .. Len(left) /\ ee + (k + 1) - 1 = ee + 1 + k - 1
    BY <1>1, <1>2
<1>8. 1 \in 1 .. Len(left) /\ ee + 1 - 1 = ee
    BY <1>1, <1>2
<1>9. CASE pc = "save"
  <2>1. filled' = filled
    BY <1>9 DEF WriteCell
  <2>2. \A k \in 1 .. Len(left) : FitsAt(filled, ee + k - 1, left[k])
    BY <1>9 DEF Inv, LeftFits
  <2>3. \A k \in 1 .. Len(Tail(left)) : FitsAt(filled, ee + 1 + k - 1, Tail(left)[k])
    <3> TAKE k \in 1 .. Len(Tail(left))
    <3>1. FitsAt(filled, ee + (k + 1) - 1, left[k + 1])
      BY <1>7, <2>2
    <3> QED BY <1>1, <1>7, <3>1
  <2>4. LeftFits'
    BY <1>4, <2>1, <2>3 DEF LeftFits
  <2>5. FitsAt(filled, ee, left[1])
    <3>1. FitsAt(filled, ee + 1 - 1, left[1])
      BY <1>8, <2>2
    <3> QED BY <1>8, <3>1
  <2>6. image'[0] = image[0]
    BY <1>2, <1>3, <1>9, Layout DEF Inv, LeftAbove, WriteCell, HeaderSize
  <2>7. image[0] = Version /\ \A a \in Addresses : FitsAt(filled, a, image[a])
    BY <1>9 DEF Inv, ImageFits
  <2>8. \A a \in Addresses : FitsAt(filled, a, image'[a])
    BY <1>3, <2>5, <2>7
  <2>9. ImageFits'
    BY <1>4, <2>1, <2>6, <2>7, <2>8 DEF ImageFits
  <2> QED
    BY <1>2, <1>4, <1>6, <1>9, <2>1, <2>4, <2>9 DEF Inv, Idle, LeftAbove, FilledFits, ErasedFits,
        RowsRight, RamFits, HeaderSize
<1>10. CASE pc = "fill"
  <2>1. filled' = ee + 1
    BY <1>10 DEF WriteCell
  <2>2. /\ ee + Len(left) = Size
        /\ \A k \in 1 .. Len(left) : FitsAt(Size, ee + k - 1, left[k])
        /\ \A a \in Addresses : a < ee => FitsAt(Size, a, image[a])
        /\ \A a \in Addresses : a >= ee => image[a] = 0
    BY <1>10 DEF Inv, FilledFits
  <2>3. ee + 1 + Len(Tail(left)) = Size
    BY <1>1, <1>2, <2>2
  <2>4. \A k \in 1 .. Len(Tail(left)) : FitsAt(Size, ee + 1 + k - 1, Tail(left)[k])
    <3> TAKE k \in 1 .. Len(Tail(left))
    <3>1. FitsAt(Size, ee + (k + 1) - 1, left[k + 1])
      BY <1>7, <2>2
    <3> QED BY <1>1, <1>7, <3>1
  <2>5. FitsAt(Size, ee, left[1])
    <3>1. FitsAt(Size, ee + 1 - 1, left[1])
      BY <1>8, <2>2
    <3> QED BY <1>8, <3>1
  <2>6. ASSUME NEW a \in Addresses
        PROVE  /\ a < ee + 1 => FitsAt(Size, a, image'[a])
               /\ a >= ee + 1 => image'[a] = 0
    <3>1. a \in Nat
      BY DEF Addresses
    <3>2. CASE a = ee
      BY <1>2, <1>3, <2>5, <3>2
    <3>3. CASE a < ee
      BY <1>2, <1>3, <2>2, <3>1, <3>3
    <3>4. CASE a > ee
      BY <1>2, <1>3, <2>2, <3>1, <3>4
    <3> QED BY <1>2, <3>1, <3>2, <3>3, <3>4
  <2>7. image'[0] = Version
    <3>1. CASE ee = 0
      <4>1. left[1] = Version
        BY <1>10, <3>1 DEF Inv, FilledFits
      <4> QED BY <4>1, <3>1, <1>3
    <3>2. CASE ee # 0
      BY <1>2, <1>3, <1>10, <3>2, Layout DEF Inv, FilledFits
    <3> QED BY <3>1, <3>2
  <2>8. ee + 1 # 0
    BY <1>2
  <2>9. FilledFits'
    BY <1>4, <2>1, <2>3, <2>4, <2>6, <2>7, <2>8 DEF FilledFits
  <2>10. RowsRight'
    BY <1>4, <1>10, NoRows DEF Inv, RowsRight
  <2> QED
    BY <1>4, <1>6, <1>10, <2>9, <2>10 DEF Inv, Idle, LeftFits, LeftAbove, ErasedFits,
        ImageFits, RamFits
<1>11. CASE pc = "erase"
  <2>1. filled' = 0
    BY <1>11 DEF WriteCell
  <2>2. /\ ee + Len(left) = Size
        /\ \A k \in 1 .. Len(left) : left[k] = 0
        /\ \A a \in Addresses : a < ee => image[a] = 0
    BY <1>11 DEF Inv, ErasedFits
  <2>3. ee + 1 + Len(Tail(left)) = Size
    BY <1>1, <1>2, <2>2
  <2>4. \A k \in 1 .. Len(Tail(left)) : Tail(left)[k] = 0
    BY <1>1, <1>7, <2>2
  <2>5. ASSUME NEW a \in Addresses, a < ee + 1 PROVE image'[a] = 0
    <3>1. left[1] = 0
      BY <1>8, <2>2
    <3>2. a = ee \/ a < ee
      BY <1>2, <2>5 DEF Addresses
    <3> QED BY <1>2, <1>3, <2>2, <3>1, <3>2 DEF Addresses
  <2>6. image'[0] # Version /\ ee + 1 # 0
    BY <1>2, <2>5, Layout, VersionAssumption
  <2>7. ErasedFits'
    BY <1>4, <2>1, <2>3, <2>4, <2>5, <2>6 DEF ErasedFits
  <2>8. RowsRight'
    BY <1>4, <1>11, NoRows DEF Inv, RowsRight
  <2> QED
    BY <1>4, <1>6, <1>11, <2>7, <2>8 DEF Inv, Idle, LeftFits, LeftAbove, FilledFits,
        ImageFits, RamFits
<1> QED BY <1>4, <1>9, <1>10, <1>11

(* A sync: the records are built from the ids in RAM.                       *)
LEMMA ReceiveInv ==
    ASSUME Inv, NEW answer \in Answers, Receive(answer)
    PROVE  Inv'
<1>1. PICK n \in 1 .. MaxLines : answer \in [1 .. n -> Requests]
    BY DEF Answers
<1>2. ASSUME NEW i \in 1 .. n
      PROVE  Parsed(answer[i]) \in [asked : Requests, cells : Seq(Nat)]
             /\ RowRight(filled, Parsed(answer[i]))
  <2> DEFINE req == answer[i]
  <2>1. req \in Requests
    BY <1>1
  <2>2. \A a \in Addresses : FitsAt(filled, a, ram[a])
    BY DEF Inv, RamFits, Receive
  <2>3. IdsUpTo(ram, filled) /\ filled \in Nat
    BY <2>2, FitIds, SizeIsNat DEF Inv, StoreType
  <2>4. CASE \E c \in ChannelIds, p \in ProgramIds :
               req = [slot |-> <<"channel", c>>, data |-> <<c, p>>]
    <3>1. PICK c \in ChannelIds, p \in ProgramIds :
               req = [slot |-> <<"channel", c>>, data |-> <<c, p>>]
      BY <2>4
    <3> DEFINE id == ram[ChannelField(c)]
    <3>2. req.slot[1] = "channel" /\ req.slot[2] = c /\ req.data[2] = p
      BY <3>1
    <3>3. Parsed(req) = [asked |-> req, cells |-> <<id, p>>]
      BY <3>2 DEF Parsed, ChannelRow
    <3>4. id \in ChannelIds /\ FitsAt(filled, ChannelField(id), id)
      <4>1. id = IF ChannelField(c) < filled THEN c ELSE 0
        BY <2>3 DEF IdsUpTo
      <4> QED BY <2>3, <4>1, ChannelIdFits
    <3> HIDE DEF id
    <3>5. id \in Nat /\ p \in Nat
      BY <3>4, SizeAssumption DEF ChannelIds, ProgramIds
    <3>6. <<id, p>> \in Seq(Nat)
      BY <3>5
    <3> QED BY <2>1, <3>2, <3>3, <3>4, <3>5, <3>6 DEF RowRight
  <2>5. CASE \E p \in ProgramIds, a, b \in Data :
               req = [slot |-> <<"program", p>>, data |-> <<p, a, b>>]
    <3>1. PICK p \in ProgramIds, a \in Data, b \in Data :
               req = [slot |-> <<"program", p>>, data |-> <<p, a, b>>]
      BY <2>5
    <3> DEFINE id == ram[ProgramField(p)]
    <3>2. /\ req.slot[1] = "program" /\ req.slot[2] = p
          /\ req.data[2] = a /\ req.data[3] = b
      BY <3>1
    <3>3. Parsed(req) = [asked |-> req, cells |-> <<id, a, b>>]
      BY <3>2 DEF Parsed, ProgramRow
    <3>4. id \in ProgramIds /\ FitsAt(filled, ProgramField(id), id)
      <4>1. id = IF ProgramField(p) < filled THEN p ELSE 0
        BY <2>3 DEF IdsUpTo
      <4> QED BY <2>3, <4>1, ProgramIdFits
    <3> HIDE DEF id
    <3>5. id \in Nat /\ a \in Nat /\ b \in Nat
      BY <3>4, SizeAssumption, DataAssumption DEF ProgramIds
    <3>6. <<id, a, b>> \in Seq(Nat)
      BY <3>5
    <3> QED BY <2>1, <3>2, <3>3, <3>4, <3>5, <3>6 DEF RowRight
  <2>6. \/ \E c \in ChannelIds, p \in ProgramIds :
               req = [slot |-> <<"channel", c>>, data |-> <<c, p>>]
        \/ \E p \in ProgramIds, a, b \in Data :
               req = [slot |-> <<"program", p>>, data |-> <<p, a, b>>]
    <3> HIDE DEF req
    <3>1. CASE req \in ChannelRequests
      BY <3>1 DEF ChannelRequests
    <3>2. CASE req \in ProgramRequests
      BY <3>2 DEF ProgramRequests
    <3> QED BY <2>1, <3>1, <3>2 DEF Requests
  <2> QED BY <2>4, <2>5, <2>6
<1>3. rows' = [i \in 1 .. n |-> Parsed(answer[i])]
    BY <1>1 DEF Receive
<1>4. n \in Nat
    BY BoundAssumption
<1>5. rows' \in Seq([asked : Requests, cells : Seq(Nat)]) /\ Len(rows') = n
    BY <1>2, <1>3, <1>4
<1>6. RowsRight'
    BY <1>2, <1>3, <1>5 DEF RowsRight, Receive
<1>7. StoreType'
    BY DEF Inv, StoreType, Receive
<1>8. left = << >>
    BY DEF Inv, Idle, Receive
<1> QED
    BY <1>6, <1>7, <1>8 DEF Inv, Receive, Idle, LeftFits, LeftAbove, FilledFits, ErasedFits,
        ImageFits, RamFits

(* The next record is sent to its place.                                    *)
LEMMA SaveRowInv == Inv /\ SaveRow => Inv'
<1> SUFFICES ASSUME Inv, SaveRow PROVE Inv'
    OBVIOUS
<1> DEFINE row == Head(rows)
<1>1. /\ rows \in Seq([asked : Requests, cells : Seq(Nat)]) /\ rows # << >>
      /\ \A i \in 1 .. Len(rows) : RowRight(filled, rows[i])
    BY DEF Inv, RowsRight, SaveRow
<1>2. /\ Tail(rows) \in Seq([asked : Requests, cells : Seq(Nat)])
      /\ row = rows[1] /\ 1 \in 1 .. Len(rows)
      /\ \A i \in 1 .. Len(Tail(rows)) : i + 1 \in 1 .. Len(rows)
                                         /\ Tail(rows)[i] = rows[i + 1]
    BY <1>1
<1>3. RowRight(filled, row)
    BY <1>1, <1>2
<1>4. RowsRight'
    BY <1>1, <1>2 DEF RowsRight, SaveRow
<1>5. /\ ee' = WriteAddress(row) /\ left' = row.cells
      /\ pc = "save" /\ UNCHANGED <<image, ram, pc, forced, filled>>
    BY DEF SaveRow
<1>6. /\ ee' \in Nat /\ ee' >= HeaderSize /\ left' \in Seq(Nat)
      /\ ee' + Len(left') <= Size
      /\ \A k \in 1 .. Len(left') : FitsAt(filled, ee' + k - 1, left'[k])
  <2>1. CASE \E c \in ChannelIds, p \in Nat :
               /\ row.asked.slot[1] = "channel" /\ row.cells = <<c, p>>
               /\ FitsAt(filled, ChannelField(c), c)
    <3>1. PICK c \in ChannelIds, p \in Nat :
               /\ row.asked.slot[1] = "channel" /\ row.cells = <<c, p>>
               /\ FitsAt(filled, ChannelField(c), c)
      BY <2>1
    <3>2. ee' = ChannelAddress(c)
      BY <1>5, <3>1 DEF WriteAddress
    <3>3. c \in Nat
      BY SizeAssumption DEF ChannelIds
    <3> DEFINE s == <<c, p>>
    <3>4. left' = s
      BY <1>5, <3>1
    <3>5. /\ s \in Seq(Nat) /\ Len(s) = 2
          /\ s[1] = c /\ s[2] = p
      BY <3>3
    <3> HIDE DEF s
    <3> DEFINE a0 == ChannelAddress(c)
    <3>6. /\ a0 \in 2 .. Size - 2
          /\ FitsAt(filled, a0, c)
          /\ FitsAt(filled, a0 + 1, p)
      BY <3>1, ChannelFits
    <3> HIDE DEF a0
    <3>7. a0 \in Nat /\ a0 >= 2 /\ a0 + 2 <= Size
      BY <3>6, SizeIsNat
    <3>8. \A k \in 1 .. Len(s) : FitsAt(filled, a0 + k - 1, s[k])
      <4> SUFFICES ASSUME NEW k \in 1 .. Len(s) PROVE FitsAt(filled, a0 + k - 1, s[k])
        OBVIOUS
      <4>1. CASE k = 1
        <5>1. a0 + k - 1 = a0
          BY <3>7, <4>1
        <5> QED BY <5>1, <3>5, <3>6, <4>1
      <4>2. CASE k = 2
        <5>1. a0 + k - 1 = a0 + 1
          BY <3>7, <4>2
        <5> QED BY <5>1, <3>5, <3>6, <4>2
      <4> QED BY <3>5, <4>1, <4>2
    <3>9. ee' = a0
      BY <3>2 DEF a0
    <3> QED BY <3>4, <3>5, <3>7, <3>8, <3>9 DEF HeaderSize
  <2>2. CASE \E p \in ProgramIds, a, b \in Nat :
               /\ row.asked.slot[1] = "program" /\ row.cells = <<p, a, b>>
               /\ FitsAt(filled, ProgramField(p), p)
    <3>1. PICK p \in ProgramIds, a \in Nat, b \in Nat :
               /\ row.asked.slot[1] = "program" /\ row.cells = <<p, a, b>>
               /\ FitsAt(filled, ProgramField(p), p)
      BY <2>2
    <3>2. ee' = ProgramAddress(p)
      BY <1>5, <3>1 DEF WriteAddress
    <3>3. p \in Nat
      BY SizeAssumption DEF ProgramIds
    <3> DEFINE s == <<p, a, b>>
    <3>4. left' = s
      BY <1>5, <3>1
    <3>5. /\ s \in Seq(Nat) /\ Len(s) = 3
          /\ s[1] = p /\ s[2] = a /\ s[3] = b
      BY <3>3
    <3> HIDE DEF s
    <3> DEFINE a0 == ProgramAddress(p)
    <3>6. /\ a0 \in 2 .. Size - 3
          /\ FitsAt(filled, a0, p)
          /\ FitsAt(filled, a0 + 1, a)
          /\ FitsAt(filled, a0 + 2, b)
      BY <3>1, ProgramFits
    <3> HIDE DEF a0
    <3>7. a0 \in Nat /\ a0 >= 2 /\ a0 + 3 <= Size
      BY <3>6, SizeIsNat
    <3>8. \A k \in 1 .. Len(s) : FitsAt(filled, a0 + k - 1, s[k])
      <4> SUFFICES ASSUME NEW k \in 1 .. Len(s) PROVE FitsAt(filled, a0 + k - 1, s[k])
        OBVIOUS
      <4>1. CASE k = 1
        <5>1. a0 + k - 1 = a0
          BY <3>7, <4>1
        <5> QED BY <5>1, <3>5, <3>6, <4>1
      <4>2. CASE k = 2
        <5>1. a0 + k - 1 = a0 + 1
          BY <3>7, <4>2
        <5> QED BY <5>1, <3>5, <3>6, <4>2
      <4>3. CASE k = 3
        <5>1. a0 + k - 1 = a0 + 2
          BY <3>7, <4>3
        <5> QED BY <5>1, <3>5, <3>6, <4>3
      <4> QED BY <3>5, <4>1, <4>2, <4>3
    <3>9. ee' = a0
      BY <3>2 DEF a0
    <3> QED BY <3>4, <3>5, <3>7, <3>8, <3>9 DEF HeaderSize
  <2> QED BY <1>3, <2>1, <2>2 DEF RowRight
<1>7. StoreType'
    BY <1>5, <1>6 DEF Inv, StoreType
<1> QED
    BY <1>4, <1>5, <1>6, <1>7 DEF Inv, Idle, LeftFits, LeftAbove, FilledFits, ErasedFits,
        ImageFits, RamFits

(* The settings have no id.                                                 *)
LEMMA WriteSettingsInv ==
    ASSUME Inv, NEW d \in Data, WriteSettings(d)
    PROVE  Inv'
<1>1. d \in Nat
    BY DataAssumption
<1>2. <<d>> \in Seq(Nat) /\ Len(<<d>>) = 1
    BY <1>1
<1>3. FitsAt(filled, HeaderSize, d)
    BY Layout DEF FitsAt, HeaderSize
<1>4. \A k \in 1 .. Len(<<d>>) : FitsAt(filled, HeaderSize + k - 1, <<d>>[k])
    BY <1>2, <1>3 DEF HeaderSize
<1>5. StoreType'
    BY <1>2, Layout DEF Inv, StoreType, WriteSettings, HeaderSize, Addresses
<1>6. LeftFits'
    BY <1>4 DEF WriteSettings, LeftFits
<1>7. LeftAbove'
    BY DEF WriteSettings, LeftAbove, HeaderSize
<1>8. RowsRight'
    BY DEF Inv, WriteSettings, RowsRight
<1> QED
    BY <1>5, <1>6, <1>7, <1>8 DEF Inv, WriteSettings, Idle, FilledFits, ErasedFits, ImageFits, RamFits

LEMMA WrittenInv == Inv /\ Written => Inv'
BY DEF Inv, Written, StoreType, Idle, LeftFits, LeftAbove, FilledFits, ErasedFits, RowsRight,
    ImageFits, RamFits

LEMMA ReloadInv == Inv /\ Reload => Inv'
BY DEF Inv, Reload, Saved, StoreType, Idle, LeftFits, LeftAbove, FilledFits, ErasedFits, RowsRight,
    ImageFits, RamFits

(* A restart, at any cell, leaves an image that has no version, or one that *)
(* fits as far as it was filled.                                            *)
LEMMA RestartInv == Inv /\ Restart => Inv'
<1> SUFFICES ASSUME Inv, Restart PROVE Inv'
    OBVIOUS
<1>1. << >> \in Seq(Nat)
    OBVIOUS
<1>2. StoreType'
    BY <1>1 DEF Inv, StoreType, Restart, Nothing
<1>3. pc' = "boot" /\ image' = image /\ filled' = filled
    BY DEF Restart
<1>4. image[0] = Version => \A a \in Addresses : FitsAt(filled, a, image[a])
  <2>1. CASE pc = "fill"
    <3>1. filled = ee /\ filled \in 0 .. Size
      BY <2>1 DEF Inv, StoreType, FilledFits
    <3>2. ASSUME NEW a \in Addresses PROVE FitsAt(filled, a, image[a])
      <4>1. a < ee \/ a >= ee
        BY <3>1, SizeIsNat DEF Addresses
      <4>2. \/ a < filled /\ FitsAt(Size, a, image[a])
            \/ a >= filled /\ image[a] = 0
        BY <2>1, <3>1, <4>1 DEF Inv, FilledFits
      <4> QED BY <3>1, <4>2, FitsPart
    <3> QED BY <3>2
  <2>2. CASE pc # "fill"
    BY <2>2 DEF Inv, ImageFits, ErasedFits
  <2> QED BY <2>1, <2>2
<1>5. ImageFits'
    BY <1>3, <1>4 DEF ImageFits
<1>6. RowsRight'
    BY NoRows DEF Restart, RowsRight
<1> QED
    BY <1>2, <1>3, <1>5, <1>6 DEF Inv, Restart, Idle, LeftFits, LeftAbove, FilledFits, ErasedFits, RamFits
-----------------------------------------------------------------------------
(* The invariant holds at every step, wherever the writes are cut.          *)
THEOREM StoreInvariant == Spec => []Inv
<1>1. Init => Inv
    BY InitInv
<1>2. Inv /\ [Next]_vars => Inv'
  <2> SUFFICES ASSUME Inv, [Next]_vars PROVE Inv'
    OBVIOUS
  <2>1. CASE BootKnown
    BY <2>1, BootKnownInv
  <2>2. CASE BootInit
    BY <2>2, StartInitInv DEF BootInit
  <2>3. CASE ForceInit
    BY <2>3, StartInitInv DEF ForceInit
  <2>4. CASE WriteCell
    BY <2>4, WriteCellInv
  <2>5. CASE Erased
    BY <2>5, ErasedInv
  <2>6. CASE Filled
    BY <2>6, FilledInv
  <2>7. CASE Load
    BY <2>7, LoadInv
  <2>8. CASE \E answer \in Answers : Receive(answer)
    BY <2>8, ReceiveInv
  <2>9. CASE SaveRow
    BY <2>9, SaveRowInv
  <2>10. CASE \E d \in Data : WriteSettings(d)
    BY <2>10, WriteSettingsInv
  <2>11. CASE Written
    BY <2>11, WrittenInv
  <2>12. CASE Reload
    BY <2>12, ReloadInv
  <2>13. CASE Crash \/ Watchdog
    BY <2>13, RestartInv DEF Crash, Watchdog
  <2>14. CASE UNCHANGED vars
    BY <2>14 DEF vars, Inv, StoreType, Idle, LeftFits, LeftAbove, FilledFits, ErasedFits,
        RowsRight, ImageFits, RamFits
  <2> QED
    BY <2>1, <2>2, <2>3, <2>4, <2>5, <2>6, <2>7, <2>8, <2>9, <2>10, <2>11, <2>12,
        <2>13, <2>14 DEF Next
<1> QED BY <1>1, <1>2, PTL DEF Spec

(* Every record keeps the id that ee_init left in it, in the EEPROM and in  *)
(* RAM: its own number, or 0 where ee_init was cut before it.               *)
THEOREM IdsStayIntact == Spec => []IdsIntact
<1>1. Inv => IdsIntact
  <2> SUFFICES ASSUME Inv PROVE IdsIntact
    OBVIOUS
  <2>1. (image[0] = Version /\ pc \notin {"erase", "fill"}) => IdsUpTo(image, filled)
    BY FitIds DEF Inv, ImageFits
  <2>2. pc \in {"running", "save"} => IdsUpTo(ram, filled)
    BY FitIds DEF Inv, RamFits
  <2> QED BY <2>1, <2>2 DEF IdsIntact
<1> QED BY <1>1, StoreInvariant, PTL

LEMMA HeadType ==
    ASSUME NEW T, NEW s \in Seq(T), s # << >>
    PROVE  Head(s) \in T
OBVIOUS

LEMMA RequestSlot == \A req \in Requests : req.slot \in Slots
<1> SUFFICES ASSUME NEW req \in Requests PROVE req.slot \in Slots
    OBVIOUS
<1>1. CASE req \in ChannelRequests
    BY <1>1 DEF ChannelRequests, Slots
<1>2. CASE req \in ProgramRequests
    BY <1>2 DEF ProgramRequests, Slots
<1> QED BY <1>1, <1>2 DEF Requests

(* The type invariant: no write reaches beyond the end of the database.     *)
THEOREM TypeCorrect == Spec => []TypeOK
<1> DEFINE History == crashes \in 0 .. MaxCrashes /\ dirty \subseteq Slots
<1>1. Init => History
    BY BoundAssumption DEF Init
<1>2. Inv /\ History /\ [Next]_vars => History'
  <2> SUFFICES ASSUME Inv, History, [Next]_vars PROVE History'
    OBVIOUS
  <2>1. CASE SaveRow
    <3>1. rows \in Seq([asked : Requests, cells : Seq(Nat)]) /\ rows # << >>
      BY <2>1 DEF Inv, RowsRight, SaveRow
    <3>2. Head(rows) \in [asked : Requests, cells : Seq(Nat)]
      BY <3>1, HeadType
    <3>3. Head(rows).asked \in Requests
      BY <3>2
    <3> QED BY <2>1, <3>3, RequestSlot DEF SaveRow
  <2>2. CASE Crash \/ Watchdog
    BY <2>2, BoundAssumption DEF Crash, Watchdog, Restart
  <2>3. CASE BootInit \/ ForceInit
    BY <2>3 DEF BootInit, ForceInit, StartInit
  <2>4. CASE \E answer \in Answers : Receive(answer)
    BY <2>4 DEF Receive
  <2>5. CASE \E d \in Data : WriteSettings(d)
    BY <2>5 DEF WriteSettings, Slots
  <2>6. CASE BootKnown \/ WriteCell \/ Erased \/ Filled \/ Load \/ Written \/ Reload
             \/ UNCHANGED vars
    BY <2>6 DEF BootKnown, WriteCell, Erased, Filled, Load, Written, Reload, vars
  <2> QED BY <2>1, <2>2, <2>3, <2>4, <2>5, <2>6 DEF Next
<1>3. Inv /\ History => TypeOK
    BY DEF Inv, StoreType, TypeOK
<1> QED BY <1>1, <1>2, <1>3, StoreInvariant, PTL DEF Spec

(* db is what the EEPROM holds whenever the controller runs, crashes in      *)
(* ee_init or not: who writes a cell has left the running state before, and *)
(* comes back through a reload.                                             *)
THEOREM CoherentCorrect == Spec => []Coherent
<1> DEFINE Both == Idle /\ Coherent
<1>1. Init => Both
    BY DEF Init, Idle, Coherent
<1>2. Both /\ [Next]_vars => Both'
  <2> SUFFICES ASSUME Both, [Next]_vars PROVE Both'
    OBVIOUS
  <2> USE DEF Idle, Coherent
  <2>1. CASE BootKnown \/ BootInit \/ ForceInit \/ Load
    BY <2>1 DEF BootKnown, BootInit, ForceInit, StartInit, Load
  <2>2. CASE WriteCell
    BY <2>2 DEF WriteCell
  <2>3. CASE Erased \/ Filled \/ Crash \/ Watchdog
    BY <2>3 DEF Erased, Filled, Crash, Watchdog, Restart
  <2>4. CASE \E answer \in Answers : Receive(answer)
    BY <2>4 DEF Receive
  <2>5. CASE \E d \in Data : WriteSettings(d)
    BY <2>5 DEF WriteSettings
  <2>6. CASE SaveRow \/ Written \/ Reload \/ UNCHANGED vars
    BY <2>6 DEF SaveRow, Written, Reload, Saved, vars
  <2> QED BY <2>1, <2>2, <2>3, <2>4, <2>5, <2>6 DEF Next
<1> QED BY <1>1, <1>2, PTL DEF Spec
===============================================================================
