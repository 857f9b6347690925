----------------------------- MODULE ConsoleProofs -----------------------------
(* Theorems about the serial console, for any lines, sizes and syncs.       *)
EXTENDS Console, TLAPS

(* Without a sync, index and the writes stay within parameter[] but for the *)
(* cell of the end mark.                                                    *)
InBounds == syncs = 0 => index <= MaxBytes /\ reach <= MaxBytes

(* There is an end mark: the parsers stop.                                  *)
Ends == \E n \in 0..IndexSpan - 1 : IsEnd(n)

Inv == TypeOK /\ CommandAsTyped /\ InBounds /\ Ends /\ LineAsTyped /\ NothingForeign

LEMMA EmptySequence == ASSUME NEW S PROVE <<>> \in Seq(S) /\ Len(<<>>) = 0 /\ DOMAIN <<>> = {}
OBVIOUS

LEMMA AppendFacts ==
    ASSUME NEW S, NEW s \in Seq(S), NEW e \in S
    PROVE  /\ Append(s, e) \in Seq(S)
           /\ Len(s) \in Nat
           /\ Len(Append(s, e)) = Len(s) + 1
           /\ \A k \in 1..Len(s) : Append(s, e)[k] = s[k]
           /\ Append(s, e)[Len(s) + 1] = e
           /\ DOMAIN s = 1..Len(s)
           /\ DOMAIN Append(s, e) = 1..Len(s) + 1
OBVIOUS

LEMMA LinesAreText == \A l \in Lines : l.text \in Seq(Byte \ {0})
BY LinesAssumption DEF LineShape

(* What a CHOOSE over the end marks finds.                                  *)
LEMMA EndMarkIs ==
    ASSUME parameter \in [0..IndexSpan - 1 -> Byte],
           NEW n \in 0..IndexSpan - 1, IsEnd(n)
    PROVE  EndMark = n
<1>0. IndexSpan \in Nat
  BY SizeAssumption
<1>1. EndMark \in 0..IndexSpan - 1 /\ IsEnd(EndMark)
  BY DEF EndMark
<1>2. ASSUME NEW m \in 0..IndexSpan - 1, IsEnd(m) PROVE m = n
  <2>1. ~(m < n) /\ ~(n < m)
    BY <1>0, <1>2 DEF IsEnd
  <2>. QED BY <1>0, <2>1
<1>. QED BY <1>1, <1>2

LEMMA BlanksShape ==
    /\ 0 \in 0..IndexSpan - 1
    /\ Blanks \in [0..IndexSpan - 1 -> Byte] /\ Blanks \in [0..IndexSpan - 1 -> Nat]
    /\ Blanks[0] = 0
BY SizeAssumption DEF Blanks, Byte

(* A line of which nothing has arrived.                                     *)
Fresh ==
    /\ typed = <<>> /\ command = 0 /\ parametermode = FALSE /\ index = 0
    /\ parameter \in [0..IndexSpan - 1 -> Byte] /\ parameter[0] = 0
    /\ origin = Blanks /\ syncs = 0 /\ forgotten = FALSE /\ reach = 0

(* The part of the invariant that a character at hand can disturb.          *)
LineInv ==
    /\ command \in Byte /\ parametermode \in BOOLEAN
    /\ index \in 0..IndexSpan - 1 /\ parameter \in [0..IndexSpan - 1 -> Byte]
    /\ typed \in Seq(Byte \ {0, CR}) /\ syncs \in 0..MaxSyncs
    /\ forgotten \in BOOLEAN /\ reach \in 0..IndexSpan - 1
    /\ origin \in [0..IndexSpan - 1 -> Nat]
    /\ CommandAsTyped /\ InBounds /\ Ends /\ LineAsTyped /\ NothingForeign

LEMMA FreshHolds == Fresh => LineInv
<1>. SUFFICES ASSUME Fresh PROVE LineInv
  OBVIOUS
<1>1. Len(typed) = 0 /\ DOMAIN typed = {} /\ typed \in Seq(Byte \ {0, CR})
  BY EmptySequence DEF Fresh
<1>2. CommandAsTyped
  <2>1. 0 \in 0..Len(typed) /\ EndsWord(typed, 0)
    BY <1>1 DEF EndsWord
  <2>. QED BY <1>1, <2>1 DEF CommandAsTyped, Fresh
<1>3. InBounds
  BY SizeAssumption DEF InBounds, Fresh
<1>4. 0 \in 0..IndexSpan - 1 /\ IsEnd(0)
  BY BlanksShape DEF IsEnd, Fresh
<1>5. EndMark = 0
  BY <1>4, EndMarkIs DEF Fresh
<1>6. ParameterPlaces = {} /\ Holds(0)
  BY <1>1 DEF ParameterPlaces, Holds
<1>7. LineAsTyped /\ NothingForeign
  BY <1>5, <1>6, SizeAssumption DEF LineAsTyped, NothingForeign, Fresh
<1>8. 0 \in 0..MaxSyncs /\ 0 \in Byte
  BY SizeAssumption DEF Byte
<1>9. Ends
  BY <1>4 DEF Ends
<1>10. /\ command \in Byte /\ parametermode \in BOOLEAN /\ index \in 0..IndexSpan - 1
       /\ syncs \in 0..MaxSyncs /\ forgotten \in BOOLEAN /\ reach \in 0..IndexSpan - 1
  BY <1>8, BlanksShape DEF Fresh
<1>11. origin \in [0..IndexSpan - 1 -> Nat] /\ parameter \in [0..IndexSpan - 1 -> Byte]
  BY BlanksShape DEF Fresh
<1>. QED BY <1>1, <1>2, <1>3, <1>7, <1>9, <1>10, <1>11 DEF LineInv

LEMMA FreshHoldsNext == Fresh' => LineInv'
BY FreshHolds, PTL

LEMMA InitHolds == Init => Inv
<1>. SUFFICES ASSUME Init PROVE Inv
  OBVIOUS
<1>1. Fresh
  BY BlanksShape DEF Init, Fresh
<1>2. /\ line \in Lines /\ rest \in Seq(Byte \ {0}) /\ settings \in SettingsShape
      /\ clock \in Clocks /\ lines \in 0..MaxLines
  BY LinesAreText, SizeAssumption DEF Init, Clocks
<1>. QED BY <1>1, <1>2, FreshHolds DEF LineInv, Inv, TypeOK

(* The character at hand and what is left.                                  *)
LEMMA Arrives ==
    ASSUME rest \in Seq(Byte \ {0}), rest # <<>>
    PROVE  Head(rest) \in Byte \ {0} /\ Tail(rest) \in Seq(Byte \ {0})
OBVIOUS

(* A word that has ended, or a longer word.                                 *)
LEMMA WordStays ==
    ASSUME NEW s, NEW t, Len(s) \in Nat, Len(t) = Len(s) + 1,
           \A k \in 1..Len(s) : t[k] = s[k],
           NEW n \in 0..Len(s), EndsWord(s, n),
           n = Len(s) => t[n + 1] = Blank
    PROVE  n \in 0..Len(t) /\ EndsWord(t, n) /\ (n # 0 => t[n] = s[n])
<1>1. n \in 0..Len(t) /\ (n # 0 => t[n] = s[n])
  OBVIOUS
<1>2. \A k \in 1..n : t[k] # Blank
  BY DEF EndsWord
<1>3. t[n + 1] = Blank
  <2>1. CASE n = Len(s)
    BY <2>1
  <2>2. CASE n # Len(s)
    <3>1. n + 1 \in 1..Len(s) /\ s[n + 1] = Blank
      BY <2>2 DEF EndsWord
    <3>. QED BY <3>1
  <2>. QED BY <2>1, <2>2
<1>. QED BY <1>1, <1>2, <1>3 DEF EndsWord

LEMMA WordGrows ==
    ASSUME NEW t, Len(t) \in Nat, \A k \in 1..Len(t) : t[k] # Blank
    PROVE  Len(t) \in 0..Len(t) /\ EndsWord(t, Len(t))
BY DEF EndsWord

(* Collecting a character keeps the command the last letter of the word.    *)
LEMMA CollectKeeps ==
    ASSUME Inv, NEW ch \in Byte \ {0, CR}, Collect(ch)
    PROVE  CommandAsTyped'
<1>. SUFFICES ASSUME ~forgotten' PROVE CommandAsTyped'
  BY DEF CommandAsTyped
<1>1. ~forgotten
  BY DEF Collect, Forget, Store
<1>. DEFINE s == typed
            t == Append(typed, ch)
<1>2. typed' = t
  BY DEF Collect
<1>3. /\ Len(s) \in Nat
      /\ Len(t) = Len(s) + 1
      /\ \A k \in 1..Len(s) : t[k] = s[k]
      /\ t[Len(s) + 1] = ch
      /\ DOMAIN s = 1..Len(s)
      /\ DOMAIN t = 1..Len(s) + 1
  BY AppendFacts DEF Inv, TypeOK
<1>4. parametermode <=> \E k \in DOMAIN s : s[k] = Blank
  BY <1>1 DEF Inv, CommandAsTyped
<1>5. PICK n \in 0..Len(s) :
        EndsWord(s, n) /\ command = IF n = 0 THEN 0 ELSE s[n]
  BY <1>1 DEF Inv, CommandAsTyped
<1>6. ASSUME parametermode' <=> \E k \in DOMAIN t : t[k] = Blank,
             NEW m \in 0..Len(t), EndsWord(t, m),
             command' = IF m = 0 THEN 0 ELSE t[m]
      PROVE  CommandAsTyped'
  BY <1>2, <1>6 DEF CommandAsTyped
<1>. HIDE DEF t, s
<1>7. CASE ch = Blank
  <2>1. parametermode' = TRUE /\ command' = command
    BY <1>7 DEF Collect
  <2>2. \E k \in DOMAIN t : t[k] = Blank
    BY <1>3, <1>7
  <2>3. n \in 0..Len(t) /\ EndsWord(t, n) /\ (n # 0 => t[n] = s[n])
    BY <1>3, <1>5, <1>7, WordStays
  <2>. QED BY <1>5, <1>6, <2>1, <2>2, <2>3
<1>8. CASE ch # Blank /\ parametermode
  <2>1. parametermode' = parametermode /\ command' = command
    BY <1>1, <1>8 DEF Collect, Forget, Store
  <2>2. \E k \in DOMAIN t : t[k] = Blank
    BY <1>3, <1>4, <1>8
  <2>3. n # Len(s)
    BY <1>3, <1>4, <1>5, <1>8 DEF EndsWord
  <2>4. n \in 0..Len(t) /\ EndsWord(t, n) /\ (n # 0 => t[n] = s[n])
    BY <1>3, <1>5, <2>3, WordStays
  <2>. QED BY <1>5, <1>6, <1>8, <2>1, <2>2, <2>4
<1>9. CASE ch # Blank /\ ~parametermode
  <2>1. parametermode' = parametermode /\ command' = ch
    BY <1>9 DEF Collect
  <2>2. \A k \in 1..Len(t) : t[k] # Blank
    BY <1>3, <1>4, <1>9
  <2>3. Len(t) \in 0..Len(t) /\ EndsWord(t, Len(t))
    BY <1>3, <2>2, WordGrows
  <2>4. command' = IF Len(t) = 0 THEN 0 ELSE t[Len(t)]
    BY <1>3, <2>1
  <2>5. parametermode' <=> \E k \in DOMAIN t : t[k] = Blank
    BY <1>3, <1>9, <2>1, <2>2
  <2>. QED BY <1>6, <2>3, <2>4, <2>5
<1>. QED BY <1>7, <1>8, <1>9

(* The end mark is the only write that leaves the array.                    *)
LEMMA CollectInBounds ==
    ASSUME Inv, NEW ch \in Byte \ {0, CR}, Collect(ch)
    PROVE  InBounds'
<1>0. MaxBytes \in Nat /\ IndexSpan \in Nat /\ MaxBytes < IndexSpan - 1 /\ index \in Nat
      /\ reach \in Nat
  BY SizeAssumption DEF Inv, TypeOK
<1>1. CASE Forget
  BY <1>0, <1>1 DEF Inv, InBounds, Forget
<1>2. CASE Store(ch) /\ index # MaxBytes
  <2>. SUFFICES ASSUME syncs' = 0 PROVE index' <= MaxBytes /\ reach' <= MaxBytes
    BY DEF InBounds
  <2>1. index < MaxBytes /\ reach <= MaxBytes
    BY <1>0, <1>2 DEF Inv, InBounds, Store
  <2>2. (index + 1) % IndexSpan = index + 1
    BY <1>0, <2>1
  <2>. QED BY <1>0, <1>2, <2>1, <2>2 DEF Store
<1>3. CASE UNCHANGED <<index, reach, syncs>>
  BY <1>3 DEF Inv, InBounds
<1>. QED BY <1>1, <1>2, <1>3 DEF Collect

LEMMA CollectTypes ==
    ASSUME Inv, NEW ch \in Byte \ {0, CR}, Collect(ch)
    PROVE  /\ command' \in Byte /\ parametermode' \in BOOLEAN
           /\ index' \in 0..IndexSpan - 1 /\ parameter' \in [0..IndexSpan - 1 -> Byte]
           /\ typed' \in Seq(Byte \ {0, CR}) /\ syncs' \in 0..MaxSyncs
           /\ forgotten' \in BOOLEAN /\ reach' \in 0..IndexSpan - 1
           /\ origin' \in [0..IndexSpan - 1 -> Nat]
<1>0. IndexSpan \in Nat /\ 0 \in Byte /\ 0 \in 0..IndexSpan - 1 /\ ch \in Byte
  BY SizeAssumption DEF Byte
<1>1. typed' \in Seq(Byte \ {0, CR}) /\ Len(typed) + 1 \in Nat
  BY AppendFacts DEF Collect, Inv, TypeOK
<1>2. CASE Forget
  BY <1>0, <1>1, <1>2 DEF Forget, Inv, TypeOK
<1>3. CASE Store(ch)
  <2>1. (index + 1) % IndexSpan \in 0..IndexSpan - 1
    BY <1>0 DEF Inv, TypeOK
  <2>. QED BY <1>0, <1>1, <1>3, <2>1 DEF Store, Inv, TypeOK
<1>4. CASE UNCHANGED <<index, parameter, syncs, forgotten, reach, origin>>
           /\ command' \in {command, ch} /\ parametermode' \in {parametermode, TRUE}
  BY <1>0, <1>1, <1>4 DEF Inv, TypeOK
<1>. QED BY <1>2, <1>3, <1>4 DEF Collect

-----------------------------------------------------------------------------
(* The parameter grows by the character at hand, if it belongs to it.       *)
LEMMA PlacesGrow ==
    ASSUME Inv, ~forgotten, NEW ch \in Byte \ {0, CR}, typed' = Append(typed, ch)
    PROVE  /\ \A p \in ParameterPlaces : p \in 1..Len(typed) /\ typed'[p] = typed[p]
           /\ ch # Blank /\ parametermode
                => ParameterPlaces' = ParameterPlaces \union {Len(typed) + 1}
           /\ ch = Blank \/ ~parametermode => ParameterPlaces' = ParameterPlaces
           /\ typed'[Len(typed) + 1] = ch
           /\ Len(typed) \in Nat
<1>1. /\ Len(typed) \in Nat
      /\ \A k \in 1..Len(typed) : typed'[k] = typed[k]
      /\ typed'[Len(typed) + 1] = ch
      /\ DOMAIN typed = 1..Len(typed)
      /\ DOMAIN typed' = 1..Len(typed) + 1
  BY AppendFacts DEF Inv, TypeOK
<1>2. parametermode <=> \E k \in 1..Len(typed) : typed[k] = Blank
  BY <1>1 DEF Inv, CommandAsTyped
<1>3. ASSUME NEW p \in 1..Len(typed) PROVE p \in ParameterPlaces' <=> p \in ParameterPlaces
  <2>1. \A q \in 1..p - 1 : q \in 1..Len(typed)
    BY <1>1
  <2>. QED BY <1>1, <2>1 DEF ParameterPlaces
<1>4. Len(typed) + 1 \in ParameterPlaces' <=> ch # Blank /\ parametermode
  <2>1. 1..(Len(typed) + 1) - 1 = 1..Len(typed) /\ Len(typed) + 1 \in 1..Len(typed) + 1
    BY <1>1
  <2>. QED BY <1>1, <1>2, <2>1 DEF ParameterPlaces
<1>5. ParameterPlaces \subseteq 1..Len(typed) /\ ParameterPlaces' \subseteq 1..Len(typed) + 1
  BY <1>1 DEF ParameterPlaces
<1>6. 1..Len(typed) + 1 = 1..Len(typed) \union {Len(typed) + 1}
  BY <1>1
<1>. QED BY <1>1, <1>3, <1>4, <1>5, <1>6

(* A character that is not stored leaves the text as it was.                *)
LEMMA SkipKeeps ==
    ASSUME Inv, NEW ch \in Byte \ {0, CR}, typed' = Append(typed, ch),
           ch = Blank \/ ~parametermode,
           UNCHANGED <<index, parameter, syncs, forgotten, reach, origin>>
    PROVE  Ends' /\ LineAsTyped' /\ NothingForeign'
<1>1. Ends' /\ EndMark' = EndMark
  BY DEF Inv, Ends, IsEnd, EndMark
<1>. SUFFICES ASSUME ~forgotten PROVE LineAsTyped' /\ NothingForeign'
  BY <1>1 DEF LineAsTyped, NothingForeign
<1>2. ParameterPlaces' = ParameterPlaces /\ \A p \in ParameterPlaces : typed'[p] = typed[p]
  BY PlacesGrow
<1>3. Holds(index) => Holds(index)'
  BY <1>2 DEF Holds
<1>4. Holds(EndMark) => Holds(EndMark)'
  BY <1>1, <1>2 DEF Holds
<1>. QED BY <1>1, <1>2, <1>3, <1>4 DEF Inv, LineAsTyped, NothingForeign

LEMMA Wraps ==
    ASSUME NEW s \in Nat, s > 1, NEW i \in 0..s - 1
    PROVE  (i = s - 1 => (i + 1) % s = 0) /\ (i # s - 1 => (i + 1) % s = i + 1)
OBVIOUS

(* A character that is stored: the text ends behind it, or where it ended   *)
(* before, or, when index has come round, it is empty.                      *)
LEMMA StoreKeeps ==
    ASSUME Inv, NEW ch \in Byte \ {0, CR}, typed' = Append(typed, ch),
           ch # Blank, parametermode, index # MaxBytes, Store(ch)
    PROVE  Ends' /\ LineAsTyped' /\ NothingForeign'
<1>0. IndexSpan \in Nat /\ IndexSpan > 1 /\ MaxBytes \in Nat /\ MaxBytes < IndexSpan - 1
  BY SizeAssumption
<1>i. PICK i, here, next : i = index /\ here = Len(typed) + 1 /\ next = (index + 1) % IndexSpan
  OBVIOUS
<1>1. /\ i \in 0..IndexSpan - 1 /\ index = i /\ index \in 0..IndexSpan - 1 /\ parameter \in [0..IndexSpan - 1 -> Byte]
      /\ origin \in [0..IndexSpan - 1 -> Nat]
  BY <1>i DEF Inv, TypeOK
<1>2. /\ parameter' = [parameter EXCEPT ![i] = ch, ![next] = 0]
      /\ origin' = [origin EXCEPT ![i] = here, ![next] = 0]
      /\ index' = next /\ UNCHANGED <<syncs, forgotten>>
  BY <1>i DEF Store
<1>3. ch \in Byte /\ 0 \in Byte
  BY DEF Byte
<1>4. PICK n \in 0..IndexSpan - 1 : IsEnd(n)
  BY DEF Inv, Ends
<1>5. EndMark = n
  BY <1>1, <1>4, EndMarkIs
<1>6. /\ i = IndexSpan - 1 => next = 0
      /\ i # IndexSpan - 1 => next = i + 1
  BY <1>0, <1>1, <1>i, Wraps
<1>7. ASSUME ~forgotten
      PROVE  /\ \A p \in ParameterPlaces : p \in 1..Len(typed) /\ typed'[p] = typed[p]
             /\ ParameterPlaces' = ParameterPlaces \union {here}
             /\ typed'[here] = ch
             /\ Len(typed) \in Nat
  <2>. HIDE DEF Inv
  <2>. QED BY <1>7, <1>i, PlacesGrow
<1>8. ASSUME ~forgotten, NEW m \in 0..i, next = i + 1, Holds(m)
      PROVE  Holds(m)'
  <2>1. \A k \in 0..m - 1 : origin'[k] = origin[k] /\ parameter'[k] = parameter[k]
    BY <1>0, <1>1, <1>2, <1>8
  <2>2. \A k \in 0..m - 1 : \A j \in 0..k - 1 : j \in 0..m - 1
    BY <1>1
  <2>. QED BY <1>7, <1>8, <2>1, <2>2 DEF Holds
<1>9. ASSUME ~forgotten, next = i + 1, Holds(i)
      PROVE  Holds(next)'
  <2>1. Holds(i)'
    BY <1>1, <1>8, <1>9
  <2>2. origin'[i] = here /\ parameter'[i] = ch
    BY <1>0, <1>1, <1>2, <1>9
  <2>3. \A j \in 0..i - 1 : origin'[j] = origin[j] /\ origin[j] < here
    <3>1. \A j \in 0..i - 1 : origin'[j] = origin[j]
      BY <1>0, <1>1, <1>2, <1>9
    <3>2. \A j \in 0..i - 1 : origin[j] \in 1..Len(typed)
      BY <1>7, <1>9 DEF Holds
    <3>. QED BY <1>i, <1>7, <1>9, <3>1, <3>2
  <2>4. \A k \in 0..next - 1 : k \in 0..i - 1 \/ k = i
    BY <1>1, <1>9
  <2>. QED BY <1>7, <1>9, <2>1, <2>2, <2>3, <2>4 DEF Holds
<1>10. ASSUME NEW m \in 0..IndexSpan - 1, IsEnd(m)'
       PROVE  Ends' /\ EndMark' = m
  <2>1. \A k \in 0..IndexSpan - 1 : IsEnd(k)' => k = m
    BY <1>0, <1>10 DEF IsEnd
  <2>. QED BY <1>10, <2>1 DEF Ends, EndMark
<1>14. Collect(ch)
  BY DEF Collect
<1>11. CASE i = IndexSpan - 1
  <2>1. parameter'[0] = 0 /\ next = 0
    BY <1>0, <1>1, <1>2, <1>6, <1>11
  <2>2. IsEnd(0)' /\ 0 \in 0..IndexSpan - 1
    BY <1>0, <2>1 DEF IsEnd
  <2>3. Ends' /\ EndMark' = 0
    BY <1>10, <2>2
  <2>4. NothingForeign'
    BY <2>3 DEF NothingForeign, Holds
  <2>5. ~(syncs' = 0)
    BY <1>0, <1>1, <1>2, <1>11 DEF Inv, InBounds
  <2>. QED BY <2>3, <2>4, <2>5 DEF LineAsTyped
<1>12. CASE i # IndexSpan - 1 /\ n < i
  <2>1. parameter'[n] = 0 /\ \A k \in 0..n - 1 : parameter'[k] = parameter[k]
    BY <1>0, <1>1, <1>2, <1>4, <1>6, <1>12 DEF IsEnd
  <2>2. IsEnd(n)'
    BY <1>4, <2>1 DEF IsEnd
  <2>3. Ends' /\ EndMark' = n
    BY <1>10, <2>2
  <2>4. ~forgotten => Holds(n)'
    BY <1>1, <1>5, <1>6, <1>8, <1>12 DEF Inv, NothingForeign
  <2>5. NothingForeign'
    BY <1>2, <2>3, <2>4 DEF NothingForeign, Holds, ParameterPlaces
  <2>6. syncs' = 0 => forgotten'
    BY <1>1, <1>2, <1>4, <1>5, <1>12 DEF Inv, LineAsTyped
  <2>. QED BY <2>3, <2>5, <2>6 DEF LineAsTyped
<1>13. CASE i # IndexSpan - 1 /\ i <= n
  <2>0. next = i + 1 /\ next \in 0..IndexSpan - 1
    BY <1>0, <1>1, <1>6, <1>13
  <2>1. /\ parameter'[next] = 0 /\ parameter'[i] = ch
        /\ \A k \in 0..i - 1 : parameter'[k] = parameter[k]
    BY <1>0, <1>1, <1>2, <2>0
  <2>2. \A k \in 0..i - 1 : k \in 0..n - 1
    BY <1>1, <1>13
  <2>3. IsEnd(next)'
    <3>1. \A k \in 0..next - 1 : k \in 0..i - 1 \/ k = i
      BY <1>1, <2>0
    <3>. QED BY <1>4, <2>1, <2>2, <3>1 DEF IsEnd
  <2>4. Ends' /\ EndMark' = next
    BY <1>10, <2>0, <2>3
  <2>5. ASSUME ~forgotten PROVE Holds(next)'
    <3>1. Holds(n)
      BY <1>5, <2>5 DEF Inv, NothingForeign
    <3>2. Holds(i)
      BY <2>2, <3>1 DEF Holds
    <3>. QED BY <1>9, <2>0, <2>5, <3>2
  <2>6. NothingForeign'
    BY <1>2, <2>4, <2>5 DEF NothingForeign, Holds, ParameterPlaces
  <2>7. ASSUME ~forgotten, syncs = 0
        PROVE  \A p \in ParameterPlaces' : \E k \in 0..next - 1 : origin'[k] = p
    <3>1. \A p \in ParameterPlaces : \E k \in 0..i - 1 : origin[k] = p
      BY <1>1, <2>7 DEF Inv, LineAsTyped
    <3>2. \A k \in 0..i - 1 : k \in 0..next - 1 /\ origin'[k] = origin[k]
      BY <1>0, <1>1, <1>2, <2>0
    <3>3. i \in 0..next - 1 /\ origin'[i] = here
      BY <1>0, <1>1, <1>2, <2>0
    <3>. QED BY <1>7, <2>7, <3>1, <3>2, <3>3
  <2>8. syncs' = 0 => reach' <= MaxBytes
    BY CollectInBounds, <1>14 DEF InBounds
  <2>. QED BY <1>2, <2>4, <2>5, <2>6, <2>7, <2>8 DEF LineAsTyped, Holds, ParameterPlaces
<1>. QED BY <1>0, <1>1, <1>4, <1>11, <1>12, <1>13

(* What Forget drops is dropped: nothing more is said of the line.          *)
LEMMA ForgetKeeps ==
    ASSUME Inv, Forget
    PROVE  Ends' /\ LineAsTyped' /\ NothingForeign'
<1>1. parameter'[0] = 0 /\ 0 \in 0..IndexSpan - 1
  BY SizeAssumption DEF Inv, TypeOK, Forget
<1>2. IsEnd(0)'
  BY <1>1 DEF IsEnd
<1>. QED BY <1>1, <1>2 DEF Forget, Ends, LineAsTyped, NothingForeign

LEMMA TypeHolds == Inv /\ Type => Inv'
<1>. SUFFICES ASSUME Inv, Type PROVE Inv'
  OBVIOUS
<1>1. Head(rest) \in Byte \ {0, CR} /\ Tail(rest) \in Seq(Byte \ {0})
  BY Arrives DEF Type, Inv, TypeOK
<1>. PICK ch \in Byte \ {0, CR} : ch = Head(rest)
  BY <1>1
<1>2. Collect(ch) /\ rest' = Tail(rest) /\ UNCHANGED <<line, settings, clock, lines>>
  BY DEF Type
<1>3. CommandAsTyped' /\ InBounds'
  BY <1>2, CollectKeeps, CollectInBounds
<1>4. TypeOK'
  BY <1>1, <1>2, CollectTypes DEF Inv, TypeOK
<1>5. Ends' /\ LineAsTyped' /\ NothingForeign'
  BY <1>2, SkipKeeps, StoreKeeps, ForgetKeeps DEF Collect, Inv, TypeOK
<1>. QED BY <1>3, <1>4, <1>5 DEF Inv

(* The parameter is gone, and with it what a sync did to the line.          *)
LEMMA PromptHolds ==
    ASSUME Inv, Prompt, parameter' \in [0..IndexSpan - 1 -> Byte], parameter'[0] = 0,
           line' \in Lines, rest' \in Seq(Byte \ {0}), settings' \in SettingsShape,
           clock' \in Clocks, lines' \in 0..MaxLines
    PROVE  Inv'
<1>1. Fresh'
  BY DEF Prompt, Fresh, Blanks
<1>2. LineInv'
  BY <1>1, FreshHoldsNext
<1>. QED BY <1>2 DEF LineInv, Inv, TypeOK

LEMMA ExecuteHolds == Inv /\ Execute => Inv'
<1>. SUFFICES ASSUME Inv, Execute PROVE Inv'
  OBVIOUS
<1>1. settings' \in SettingsShape
  <2>1. CASE command = Letter.i /\ ParameterText # <<>> /\ SetAddress(ParameterText)
    <3>1. ASSUME NEW v, IsAddress(v)
          PROVE [settings EXCEPT !.ip = [k \in 1..4 |-> v[k]],
                                 !.gw = [k \in 1..4 |-> v[k + 3]]] \in SettingsShape
      <4>1. \A k \in 1..4 : v[k] \in 0..255 /\ v[k + 3] \in 0..255
        BY <3>1 DEF IsAddress
      <4>2. [k \in 1..4 |-> v[k]] \in Octets /\ [k \in 1..4 |-> v[k + 3]] \in Octets
        BY <4>1 DEF Octets
      <4>. HIDE DEF Octets
      <4>. QED BY <4>2 DEF SettingsShape, Inv, TypeOK
    <3>. QED BY <2>1, <3>1 DEF SetAddress, Inv, TypeOK
  <2>2. CASE command = Letter.a /\ SetAir(ParameterText)
    BY <2>2 DEF SetAir, SettingsShape, Inv, TypeOK
  <2>3. CASE UNCHANGED settings
    BY <2>3 DEF Inv, TypeOK
  <2>. QED BY <2>1, <2>2, <2>3 DEF Execute
<1>2. clock' \in Clocks
  <2>1. CASE SetDate(ParameterText)
    BY <2>1 DEF SetDate, IsDate, Clocks, Inv, TypeOK
  <2>2. CASE SetTime(ParameterText)
    BY <2>2 DEF SetTime, IsTime, Clocks, Inv, TypeOK
  <2>3. CASE UNCHANGED clock
    BY <2>3 DEF Inv, TypeOK
  <2>. QED BY <2>1, <2>2, <2>3 DEF Execute
<1>3. parameter' \in [0..IndexSpan - 1 -> Byte] /\ parameter'[0] = 0
  BY SizeAssumption DEF Execute, Inv, TypeOK, Byte
<1>4. line' \in Lines /\ rest' \in Seq(Byte \ {0}) /\ lines' \in 0..MaxLines
  <2>1. line' \in Lines /\ rest' = line'.text
    BY DEF Execute, NextLine
  <2>2. lines' \in 0..MaxLines
    BY SizeAssumption DEF Execute, NextLine, Inv, TypeOK
  <2>. QED BY <2>1, <2>2, LinesAreText
<1>. QED BY <1>1, <1>2, <1>3, <1>4, PromptHolds DEF Execute

LEMMA StepHolds == Inv /\ [Next]_vars => Inv'
<1>. SUFFICES ASSUME Inv, [Next]_vars PROVE Inv'
  OBVIOUS
<1>1. CASE Type
  BY <1>1, TypeHolds
<1>2. CASE Execute
  BY <1>2, ExecuteHolds
<1>3. CASE ResetCommand
  <2>1. Prompt /\ line' \in Lines /\ rest' \in Seq(Byte \ {0})
    BY <1>3, LinesAreText DEF ResetCommand
  <2>2. settings' \in SettingsShape /\ clock' \in Clocks /\ lines' \in 0..MaxLines
    BY <1>3, SizeAssumption DEF ResetCommand, Inv, TypeOK
  <2>3. parameter' = Blanks
    BY <1>3 DEF ResetCommand
  <2>. QED BY <2>1, <2>2, <2>3, PromptHolds, BlanksShape
<1>4. CASE Restart
  <2>1. Prompt /\ parameter' = Blanks /\ UNCHANGED <<line, rest, settings, clock>>
    BY <1>4 DEF Restart
  <2>2. line' \in Lines /\ rest' \in Seq(Byte \ {0}) /\ settings' \in SettingsShape
        /\ clock' \in Clocks
    BY <2>1 DEF Inv, TypeOK
  <2>3. lines' \in 0..MaxLines
    BY <1>4, SizeAssumption DEF Restart
  <2>. QED BY <2>1, <2>2, <2>3, PromptHolds, BlanksShape
<1>5. ASSUME NEW n \in SyncIndexes, Sync(n) PROVE Inv'
  <2>1. TypeOK'
    BY <1>5, SizeAssumption DEF Sync, Inv, TypeOK
  <2>2. CommandAsTyped'
    BY <1>5 DEF Sync, Inv, CommandAsTyped, EndsWord
  <2>3. syncs' # 0
    BY <1>5, SizeAssumption DEF Sync, Inv, TypeOK
  <2>4. Ends' /\ EndMark' = EndMark
    BY <1>5 DEF Sync, Inv, Ends, IsEnd, EndMark
  <2>5. NothingForeign'
    BY <1>5, <2>4 DEF Sync, Inv, NothingForeign, Holds, ParameterPlaces
  <2>. QED BY <2>1, <2>2, <2>3, <2>4, <2>5 DEF Inv, InBounds, LineAsTyped
<1>6. CASE UNCHANGED vars
  <2>1. TypeOK' /\ CommandAsTyped' /\ InBounds'
    BY <1>6 DEF vars, shell, history, Inv, TypeOK, CommandAsTyped, EndsWord, InBounds
  <2>2. Ends' /\ EndMark' = EndMark
    BY <1>6 DEF vars, shell, Inv, Ends, IsEnd, EndMark
  <2>3. LineAsTyped' /\ NothingForeign'
    BY <1>6, <2>2 DEF vars, shell, history, Inv, LineAsTyped, NothingForeign, Holds,
                      ParameterPlaces
  <2>. QED BY <2>1, <2>2, <2>3 DEF Inv
<1>. QED BY <1>1, <1>2, <1>3, <1>4, <1>5, <1>6 DEF Next

LEMMA Invariance == Spec => []Inv
BY InitHolds, StepHolds, PTL DEF Spec

(* The type invariant: whatever the parsers make of a parameter, only dates *)
(* and times that exist reach the clock, only octets the settings, and no   *)
(* write of the shell leaves the memory that index reaches.                 *)
THEOREM TypeCorrect == Spec => []TypeOK
<1>1. Inv => TypeOK
  BY DEF Inv
<1>. QED BY Invariance, <1>1, PTL

(* Whatever syncs and restarts fall into a line of check_shell, the command *)
(* is the last letter of its first word, unless the line was too long.      *)
THEOREM CommandCorrect == Spec => []CommandAsTyped
<1>1. Inv => CommandAsTyped
  BY DEF Inv
<1>. QED BY Invariance, <1>1, PTL

(* Without a sync the parameter is what was typed behind the first blank,   *)
(* without its blanks, for lines of any length and any size of parameter[]. *)
THEOREM LineCorrect == Spec => []LineAsTyped
<1>1. Inv => LineAsTyped
  BY DEF Inv
<1>. QED BY Invariance, <1>1, PTL

(* Wherever syncs leave index, what check_command is given is a part of the *)
(* line, in its order: nothing of an earlier line comes back.               *)
THEOREM NothingForeignCorrect == Spec => []NothingForeign
<1>1. Inv => NothingForeign
  BY DEF Inv
<1>. QED BY Invariance, <1>1, PTL

(* A line without a sync writes at most one cell behind parameter[], for    *)
(* any length of the line and of the array.                                 *)
THEOREM StaysInBounds == Spec => []InBounds
<1>1. Inv => InBounds
  BY DEF Inv
<1>. QED BY Invariance, <1>1, PTL

-----------------------------------------------------------------------------
(* The word that a text gives to its command, what is behind the first      *)
(* blank without the blanks, by the places it is read from.                 *)
Places(text) == {p \in DOMAIN text : text[p] # Blank /\ \E q \in 1..p - 1 : text[q] = Blank}
Ascending(n, place) == \A k \in 1..n : \A j \in 1..k - 1 : place[j] < place[k]
IsWord(word, text) ==
    \E n \in Nat : \E place \in [1..n -> Places(text)] :
        /\ Ascending(n, place)
        /\ \A p \in Places(text) : \E k \in 1..n : place[k] = p
        /\ word = [k \in 1..n |-> text[place[k]]]
TooLong(text) ==
    \E place \in [1..MaxBytes + 1 -> Places(text)] : Ascending(MaxBytes + 1, place)

(* A line that fits means what the parsers read from its own word.          *)
Reads(order, what, right, v) ==
    IF right THEN order = [what |-> what, values |-> Three(v)]
    ELSE order.what \notin {"date", "time"}
Means(order, letter, word) ==
    /\ letter = Letter.d =>
         LET v == Numbers(word, {Dot}) IN Reads(order, "date", IsDate(v), v)
    /\ letter = Letter.t =>
         LET v == Numbers(word, {Colon}) IN Reads(order, "time", IsTime(v), v)
    /\ letter \notin {Letter.d, Letter.t} => order.what \notin {"date", "time"}
PlainLines ==
    \A l \in Lines, text \in Seq(Byte \ {0, CR}) :
        l.text = Append(text, CR) =>
            /\ ~TooLong(text)
            /\ \A word : \A n \in 0..Len(text) :
                 IsWord(word, text) /\ EndsWord(text, n)
                   => Means(l.means, IF n = 0 THEN 0 ELSE text[n], word)

LEMMA PlacesOfTyped == ParameterPlaces = Places(typed)
BY DEF ParameterPlaces, Places

LEMMA PlacesOfTypedNext == ParameterPlaces' = Places(typed')
BY DEF ParameterPlaces, Places

(* Without a sync only a line that is too long is dropped.                  *)
DroppedLong == forgotten /\ syncs = 0 => TooLong(typed)

LEMMA LongStays ==
    ASSUME NEW s \in Seq(Byte \ {0, CR}), NEW ch \in Byte \ {0, CR}, TooLong(s)
    PROVE  TooLong(Append(s, ch))
<1>1. Places(s) \subseteq Places(Append(s, ch))
  <2>1. /\ Len(s) \in Nat
        /\ \A k \in 1..Len(s) : Append(s, ch)[k] = s[k]
        /\ DOMAIN s = 1..Len(s)
        /\ DOMAIN Append(s, ch) = 1..Len(s) + 1
    BY AppendFacts
  <2>2. \A p \in 1..Len(s) : \A q \in 1..p - 1 : q \in 1..Len(s)
    BY <2>1
  <2>. QED  BY <2>1, <2>2 DEF Places
<1>. QED  BY <1>1 DEF TooLong

LEMMA DropKept == Inv /\ DroppedLong /\ [Next]_vars => DroppedLong'
<1>. SUFFICES ASSUME Inv, DroppedLong, [Next]_vars PROVE DroppedLong'
  OBVIOUS
<1>1. CASE Type
  <2>1. Head(rest) \in Byte \ {0, CR}
    BY <1>1, Arrives DEF Type, Inv, TypeOK
  <2>. PICK ch \in Byte \ {0, CR} : ch = Head(rest)
    BY <2>1
  <2>2. Collect(ch) /\ typed' = Append(typed, ch) /\ typed \in Seq(Byte \ {0, CR})
    BY <1>1 DEF Type, Collect, Inv, TypeOK
  <2>. SUFFICES ASSUME forgotten', syncs' = 0 PROVE TooLong(typed')
    BY DEF DroppedLong
  <2>3. syncs = 0
    BY <2>2 DEF Collect, Forget, Store
  <2>4. CASE forgotten
    BY <2>2, <2>3, <2>4, LongStays DEF DroppedLong
  <2>5. CASE ~forgotten
    <3>1. ch # Blank /\ parametermode /\ index = MaxBytes
      BY <2>2, <2>5 DEF Collect, Store
    <3>2. /\ ParameterPlaces' = ParameterPlaces \union {Len(typed) + 1}
          /\ \A p \in ParameterPlaces : p \in 1..Len(typed)
          /\ Len(typed) \in Nat
      <4>. HIDE DEF Inv
      <4>. QED  BY <2>2, <2>5, <3>1, PlacesGrow
    <3>3. Holds(MaxBytes) /\ MaxBytes \in Nat
      BY <2>3, <2>5, <3>1, SizeAssumption DEF Inv, LineAsTyped
    <3>. DEFINE place == [k \in 1..MaxBytes + 1 |->
                            IF k <= MaxBytes THEN origin[k - 1] ELSE Len(typed) + 1]
    <3>4. \A k \in 1..MaxBytes : place[k] = origin[k - 1] /\ k - 1 \in 0..MaxBytes - 1
      BY <3>3
    <3>5. \A k \in 1..MaxBytes : place[k] \in ParameterPlaces
      BY <3>3, <3>4 DEF Holds
    <3>6. place[MaxBytes + 1] = Len(typed) + 1
      BY <3>3
    <3>7. place \in [1..MaxBytes + 1 -> ParameterPlaces']
      <4>1. \A k \in 1..MaxBytes + 1 : k \in 1..MaxBytes \/ k = MaxBytes + 1
        BY <3>3
      <4>2. \A k \in 1..MaxBytes + 1 : place[k] \in ParameterPlaces'
        BY <3>2, <3>5, <3>6, <4>1
      <4>. QED  BY <4>2
    <3>8. Ascending(MaxBytes + 1, place)
      <4>. SUFFICES ASSUME NEW k \in 1..MaxBytes + 1, NEW j \in 1..k - 1
                    PROVE  place[j] < place[k]
        BY DEF Ascending
      <4>1. j \in 1..MaxBytes /\ j - 1 \in 0..(k - 1) - 1
        BY <3>3
      <4>. HIDE DEF place
      <4>2. CASE k <= MaxBytes
        BY <3>3, <3>4, <4>1, <4>2 DEF Holds
      <4>3. CASE k = MaxBytes + 1
        BY <3>2, <3>5, <3>6, <4>1, <4>3
      <4>. QED  BY <3>3, <4>2, <4>3
    <3>. QED
      BY <3>7, <3>8, PlacesOfTypedNext DEF TooLong
  <2>. QED  BY <2>4, <2>5
<1>2. CASE Execute \/ ResetCommand \/ Restart
  BY <1>2 DEF Execute, ResetCommand, Restart, Prompt, DroppedLong
<1>3. ASSUME NEW n \in SyncIndexes, Sync(n) PROVE DroppedLong'
  BY <1>3, SizeAssumption DEF Sync, Inv, TypeOK, DroppedLong
<1>4. CASE UNCHANGED vars
  BY <1>4 DEF vars, history, DroppedLong, TooLong, Places
<1>. QED
  BY <1>1, <1>2, <1>3, <1>4 DEF Next

(* What a command is given, when no sync fell into its line.                *)
LEMMA GivenWord ==
    ASSUME Inv, DroppedLong, syncs = 0, ~TooLong(typed)
    PROVE  /\ IsWord(ParameterText, typed)
           /\ \E n \in 0..Len(typed) :
                EndsWord(typed, n) /\ command = IF n = 0 THEN 0 ELSE typed[n]
<1>1. ~forgotten
  BY DEF DroppedLong
<1>2. /\ Holds(index) /\ EndMark = index /\ index \in Nat
      /\ \A p \in ParameterPlaces : \E k \in 0..index - 1 : origin[k] = p
  BY <1>1, SizeAssumption DEF Inv, LineAsTyped, TypeOK
<1>. DEFINE place == [k \in 1..index |-> origin[k - 1]]
<1>3. \A k \in 1..index : k - 1 \in 0..index - 1
  BY <1>2
<1>4. place \in [1..index -> ParameterPlaces]
  BY <1>2, <1>3 DEF Holds
<1>5. Ascending(index, place)
  <2>. SUFFICES ASSUME NEW k \in 1..index, NEW j \in 1..k - 1
                PROVE  origin[j - 1] < origin[k - 1]
    BY <1>2 DEF Ascending
  <2>1. k - 1 \in 0..index - 1 /\ j - 1 \in 0..(k - 1) - 1
    BY <1>2
  <2>. QED  BY <1>2, <2>1 DEF Holds
<1>6. \A p \in ParameterPlaces : \E k \in 1..index : place[k] = p
  <2>. SUFFICES ASSUME NEW p \in ParameterPlaces PROVE \E k \in 1..index : place[k] = p
    OBVIOUS
  <2>1. PICK k \in 0..index - 1 : origin[k] = p
    BY <1>2
  <2>2. k + 1 \in 1..index /\ (k + 1) - 1 = k
    BY <1>2
  <2>3. place[k + 1] = p
    BY <2>1, <2>2
  <2>. QED  BY <2>2, <2>3
<1>7. ParameterText = [k \in 1..index |-> typed[place[k]]]
  <2>1. \A k \in 1..index : parameter[k - 1] = typed[place[k]]
    BY <1>2, <1>3 DEF Holds
  <2>. HIDE DEF place
  <2>. QED  BY <1>2, <2>1 DEF ParameterText
<1>8. IsWord(ParameterText, typed)
  <2>. HIDE DEF place
  <2>. QED  BY <1>2, <1>4, <1>5, <1>6, <1>7, PlacesOfTyped DEF IsWord
<1>. QED
  BY <1>1, <1>8 DEF Inv, CommandAsTyped

(* A line that is typed without a sync or a restart sets date and time as   *)
(* its own text says, and no other line touches them: whatever lines, syncs *)
(* and restarts came before, the parsers of sh_setdate and sh_settime read  *)
(* this text and nothing else.                                              *)
THEOREM ClockObeysCorrect ==
    ASSUME PlainLines
    PROVE  Spec => ClockObeys
<1>1. ASSUME Inv, DroppedLong, Execute \/ ResetCommand, AsTyped
      PROVE  Obeyed(line.means)
  <2>1. line \in Lines /\ line.text = Append(typed, CR) /\ typed \in Seq(Byte \ {0, CR})
        /\ syncs = 0
    BY <1>1 DEF AsTyped, Inv, TypeOK
  <2>2. ~TooLong(typed)
    BY <2>1 DEF PlainLines
  <2>3. PICK n \in 0..Len(typed) :
          EndsWord(typed, n) /\ command = IF n = 0 THEN 0 ELSE typed[n]
    BY <1>1, <2>1, <2>2, GivenWord
  <2>. DEFINE word == ParameterText
  <2>4. IsWord(word, typed)
    BY <1>1, <2>1, <2>2, GivenWord
  <2>5. Means(line.means, command, word)
    <3>. HIDE DEF word
    <3>. QED  BY <2>1, <2>3, <2>4 DEF PlainLines
  <2>. HIDE DEF word
  <2>6. ASSUME line.means.what \notin {"date", "time"}, clock' = clock
        PROVE  Obeyed(line.means)
    BY <2>6 DEF Obeyed
  <2>7. CASE Execute /\ command = Letter.d
    <3>1. SetDate(word)
      BY <2>7 DEF Execute, Letter, word
    <3>2. PICK v : v = Numbers(word, {Dot})
      OBVIOUS
    <3>3. Reads(line.means, "date", IsDate(v), v)
      BY <2>5, <2>7, <3>2 DEF Means
    <3>4. CASE IsDate(v)
      BY <3>1, <3>2, <3>3, <3>4 DEF SetDate, Reads, Obeyed
    <3>5. CASE ~IsDate(v)
      BY <2>6, <3>1, <3>2, <3>3, <3>5 DEF SetDate, Reads
    <3>. QED  BY <3>4, <3>5
  <2>8. CASE Execute /\ command = Letter.t
    <3>1. SetTime(word)
      BY <2>8 DEF Execute, Letter, word
    <3>2. PICK v : v = Numbers(word, {Colon})
      OBVIOUS
    <3>3. Reads(line.means, "time", IsTime(v), v)
      BY <2>5, <2>8, <3>2 DEF Means
    <3>4. CASE IsTime(v)
      BY <3>1, <3>2, <3>3, <3>4 DEF SetTime, Reads, Obeyed
    <3>5. CASE ~IsTime(v)
      BY <2>6, <3>1, <3>2, <3>3, <3>5 DEF SetTime, Reads
    <3>. QED  BY <3>4, <3>5
  <2>9. CASE command \notin {Letter.d, Letter.t}
    <3>1. line.means.what \notin {"date", "time"}
      BY <2>5, <2>9 DEF Means
    <3>2. clock' = clock
      BY <1>1, <2>9 DEF Execute, ResetCommand, SetAir, SetAddress
    <3>. QED  BY <2>6, <3>1, <3>2
  <2>10. ResetCommand => command \notin {Letter.d, Letter.t}
    BY DEF ResetCommand, Letter
  <2>. QED  BY <1>1, <2>7, <2>8, <2>9, <2>10
<1>2. Init => DroppedLong
  BY DEF Init, DroppedLong
<1>3. Spec => []DroppedLong
  BY <1>2, DropKept, Invariance, PTL DEF Spec
<1>4. Inv /\ DroppedLong /\ [Next]_vars
        => [(Execute \/ ResetCommand) /\ AsTyped => Obeyed(line.means)]_vars
  BY <1>1
<1>. QED
  BY <1>3, <1>4, Invariance, PTL DEF Spec, ClockObeys
=============================================================================
