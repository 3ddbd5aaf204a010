---------------------- MODULE GatoCentralManagerProofs ----------------------
(***************************************************************************)
(* Proofs about GatoCentralManager, for all devices, advertising data,     *)
(* filters and bounds.                                                     *)
(***************************************************************************)
EXTENDS GatoCentralManager, GatoUUIDProofs, TLAPS

-----------------------------------------------------------------------------
(***************************************************************************)
(* Scanning is whole, with flags that are flags.  What handles reports     *)
(* leaves the device alone; the rest is one lemma per call.                *)
(***************************************************************************)
ScanInv ==
    /\ hci \in BOOLEAN /\ notifier \in BOOLEAN /\ scanEnabled \in BOOLEAN
    /\ ScanIsWhole

LEMMA ScanInvInit == Init => ScanInv
BY DEF Init, ScanInv, ScanIsWhole

LEMMA StopKeepsScanInv == ScanInv /\ StopScan => ScanInv'
BY DEF ScanInv, ScanIsWhole, StopScan

LEMMA StartKeepsScanInv ==
    ASSUME NEW uuids, ScanInv, ScanForPeripheralsWithServices(uuids)
    PROVE  ScanInv'
<1>1. CASE OpenFails
  BY <1>1 DEF ScanInv, ScanIsWhole, OpenFails
<1>2. CASE SetupFails(uuids)
  BY <1>2 DEF ScanInv, ScanIsWhole, SetupFails
<1>3. CASE ScanStarts(uuids)
  BY <1>3 DEF ScanInv, ScanIsWhole, ScanStarts
<1>4. QED
  BY <1>1, <1>2, <1>3 DEF ScanForPeripheralsWithServices

LEMMA ScanInvOfDevice == ScanInv /\ UNCHANGED device => ScanInv'
BY DEF ScanInv, ScanIsWhole, device

LEMMA StepKeepsScanInv == ScanInv /\ [Next]_vars => ScanInv'
<1> SUFFICES ASSUME ScanInv, [Next]_vars PROVE ScanInv'
  OBVIOUS
<1>1. CASE \E uuids \in Filters : ScanForPeripheralsWithServices(uuids)
  BY <1>1, StartKeepsScanInv
<1>2. CASE StopScan
  BY <1>2, StopKeepsScanInv
<1>3. CASE \E addr \in AppAddress : GetPeripheral(addr)
  BY <1>3, ScanInvOfDevice DEF GetPeripheral
<1>4. CASE ReadNotify
  BY <1>4, ScanInvOfDevice DEF ReadNotify
<1>5. CASE ParseField
  BY <1>5, ScanInvOfDevice DEF ParseField
<1>6. CASE FilterReport
  BY <1>6, ScanInvOfDevice DEF FilterReport
<1>7. CASE SlotReturns
  BY <1>7, ScanInvOfDevice DEF SlotReturns
<1>8. CASE \E event \in UNION {[1..n -> Report] : n \in 0..2} : ControllerReports(event)
  BY <1>8, ScanInvOfDevice DEF ControllerReports
<1>9. CASE \E bd \in BD, uuid \in Discoverable : DiscoverService(bd, uuid)
  BY <1>9, ScanInvOfDevice DEF DiscoverService
<1>10. CASE UNCHANGED vars
  BY <1>10, ScanInvOfDevice DEF vars
<1>11. QED
  BY <1>1, <1>2, <1>3, <1>4, <1>5, <1>6, <1>7, <1>8, <1>9, <1>10 DEF Next

(***************************************************************************)
(* Whatever fails while a scan starts, and whatever is called from a slot, *)
(* an open HCI device is listened to and the controller scans, and nobody  *)
(* listens to one that is closed.                                          *)
(***************************************************************************)
THEOREM ScanStaysWhole == Spec => []ScanIsWhole
<1>1. Init => ScanInv
  BY ScanInvInit
<1>2. ScanInv /\ [Next]_vars => ScanInv'
  BY StepKeepsScanInv
<1>3. ScanInv => ScanIsWhole
  BY DEF ScanInv
<1>4. QED
  BY <1>1, <1>2, <1>3, PTL DEF Spec

-----------------------------------------------------------------------------
(***************************************************************************)
(* Fields: where their values lie, and what the data begins with.          *)
(***************************************************************************)
\* A field that can be told apart, as AdvertisementAssumption has them.
Legible(field) ==
    LET size == UuidSize(field.type)
    IN  /\ size = 0 => field.uuids = <<>>
        /\ \A j \in DOMAIN field.uuids : HasSpelling(field.uuids[j], size)
        /\ Len(FieldValue(field)) < 255

LEMMA AdvertisementLegible ==
    ASSUME NEW ad \in Advertisement
    PROVE  /\ ad.fields \in Seq(Field) /\ ad.tail \in Seq(Byte)
           /\ \A i \in 1..Len(ad.fields) : ad.fields[i] \in Field /\ Legible(ad.fields[i])
           /\ ad.tail = <<>> \/ ad.tail[1] = 0 \/ ad.tail[1] >= Len(ad.tail)
<1>1. ad.fields \in Seq(Field) /\ ad.tail \in Seq(Byte)
  BY AdvertisementAssumption, Zenon
<1>2. ad.tail = <<>> \/ ad.tail[1] = 0 \/ ad.tail[1] >= Len(ad.tail)
  BY AdvertisementAssumption, Zenon
<1>3. \A i \in DOMAIN ad.fields : Legible(ad.fields[i])
  BY AdvertisementAssumption, Zenon DEF Legible
<1>4. DOMAIN ad.fields = 1..Len(ad.fields) /\ \A i \in 1..Len(ad.fields) : ad.fields[i] \in Field
  BY <1>1
<1>5. QED
  BY <1>1, <1>2, <1>3, <1>4, Zenon

LEMMA UuidSizes ==
    ASSUME NEW type
    PROVE  /\ UuidSize(type) \in {0, 2, 4, 16}
           /\ type \in {ShortName, CompleteName} => UuidSize(type) = 0
<1>1. CASE type \in {2, 3}
  BY <1>1 DEF UuidSize, ShortName, CompleteName
<1>2. CASE type \in {4, 5}
  BY <1>2 DEF UuidSize, ShortName, CompleteName
<1>3. CASE type \in {6, 7}
  BY <1>3 DEF UuidSize, ShortName, CompleteName
<1>4. CASE type \notin {2, 3} /\ type \notin {4, 5} /\ type \notin {6, 7}
  BY <1>4 DEF UuidSize, ShortName, CompleteName
<1>5. QED
  BY <1>1, <1>2, <1>3, <1>4

\* The items of a list.
Spellings(field) ==
    [i \in DOMAIN field.uuids |-> Spelled(field.uuids[i], UuidSize(field.type))]

LEMMA SpellingsType ==
    ASSUME NEW field \in Field, Legible(field)
    PROVE  /\ field.type \in Byte /\ field.uuids \in Seq(UUID) /\ field.bytes \in Seq(Byte)
           /\ Spellings(field) \in Seq(Seq(Byte))
           /\ Len(Spellings(field)) = Len(field.uuids)
           /\ UuidSize(field.type) # 0 =>
                \A i \in 1..Len(field.uuids) :
                    /\ field.uuids[i] \in UUID
                    /\ Spellings(field)[i] = Spelled(field.uuids[i], UuidSize(field.type))
                    /\ Len(Spellings(field)[i]) = UuidSize(field.type)
<1>1. field.type \in Byte /\ field.uuids \in Seq(UUID) /\ field.bytes \in Seq(Byte)
  BY DEF Field
<1>2. DOMAIN field.uuids = 1..Len(field.uuids) /\ Len(field.uuids) \in Nat
      /\ \A i \in 1..Len(field.uuids) : field.uuids[i] \in UUID
  BY <1>1
<1>3. CASE UuidSize(field.type) = 0
  <2>1. field.uuids = <<>>
    BY <1>3 DEF Legible
  <2>2. Spellings(field) = <<>>
    BY <2>1 DEF Spellings
  <2>3. QED
    BY <1>1, <1>3, <2>1, <2>2
<1>4. CASE UuidSize(field.type) # 0
  <2> DEFINE size == UuidSize(field.type)
  <2>1. size \in {2, 4, 16}
    BY <1>4, UuidSizes
  <2> HIDE DEF size
  <2>2. \A i \in 1..Len(field.uuids) :
            Spelled(field.uuids[i], size) \in Seq(Byte) /\ Len(Spelled(field.uuids[i], size)) = size
    BY <1>2, <2>1, SpelledType
  <2>3. Spellings(field) = [i \in 1..Len(field.uuids) |-> Spelled(field.uuids[i], size)]
    BY <1>2 DEF Spellings, size
  <2>4. Spellings(field) \in [1..Len(field.uuids) -> Seq(Byte)]
    BY <2>2, <2>3
  <2>5. Spellings(field) \in Seq(Seq(Byte)) /\ Len(Spellings(field)) = Len(field.uuids)
    BY <1>2, <2>4, SeqDef, LenProperties
  <2>6. \A i \in 1..Len(field.uuids) :
            Spellings(field)[i] = Spelled(field.uuids[i], size)
    BY <2>3
  <2>7. QED
    BY <1>1, <1>2, <2>2, <2>5, <2>6 DEF size
<1>5. QED
  BY <1>3, <1>4

LEMMA FieldType ==
    ASSUME NEW field \in Field, Legible(field)
    PROVE  /\ FieldValue(field) = FlattenSeq(Spellings(field)) \o field.bytes
           /\ FlattenSeq(Spellings(field)) \in Seq(Byte)
           /\ FieldValue(field) \in Seq(Byte) /\ Len(FieldValue(field)) < 255
           /\ FieldBytes(field) \in Seq(Byte)
           /\ Len(FieldBytes(field)) = Len(FieldValue(field)) + 2
           /\ UuidSize(field.type) = 0 => FieldValue(field) = field.bytes
<1>1. /\ field.type \in Byte /\ field.bytes \in Seq(Byte)
      /\ Spellings(field) \in Seq(Seq(Byte))
  BY SpellingsType
<1>2. FieldValue(field) = FlattenSeq(Spellings(field)) \o field.bytes
  BY Zenon DEF FieldValue, Spellings
<1>3. FlattenSeq(Spellings(field)) \in Seq(Byte)
  BY <1>1, FlattenType
<1>4. FieldValue(field) \in Seq(Byte)
  BY <1>1, <1>2, <1>3, ConcatProperties, Zenon
<1>5. Len(FieldValue(field)) < 255
  BY DEF Legible
<1>6. <<Len(FieldValue(field)) + 1, field.type>> \in Seq(Byte)
      /\ Len(<<Len(FieldValue(field)) + 1, field.type>>) = 2
  <2> DEFINE v == FieldValue(field)
  <2>1. v \in Seq(Byte) /\ Len(v) < 255
    BY <1>4, <1>5
  <2> HIDE DEF v
  <2>2. Len(v) \in Nat
    BY <2>1, LenProperties
  <2>3. Len(v) + 1 \in Byte
    <3>1. \A n \in Nat : n < 255 => n + 1 \in Byte
      BY DEF Byte
    <3>2. QED
      BY <2>1, <2>2, <3>1, Zenon
  <2>4. field.type \in Byte
    BY <1>1
  <2>5. <<Len(v) + 1, field.type>> \in Seq(Byte) /\ Len(<<Len(v) + 1, field.type>>) = 2
    BY <2>3, <2>4
  <2>6. QED
    BY <2>5 DEF v
<1>7. FieldBytes(field) \in Seq(Byte) /\ Len(FieldBytes(field)) = 2 + Len(FieldValue(field))
  BY <1>4, <1>6, ConcatProperties, Zenon DEF FieldBytes
<1>8. ASSUME UuidSize(field.type) = 0 PROVE FieldValue(field) = field.bytes
  <2>1. field.uuids = <<>>
    BY <1>8 DEF Legible
  <2>2. Spellings(field) = <<>>
    BY <2>1 DEF Spellings
  <2>3. FieldValue(field) = <<>> \o field.bytes
    BY <1>2, <2>2, FlattenNothing, Zenon
  <2>4. QED
    BY <1>1, <2>3, ConcatEmptySeq
<1>9. Len(FieldBytes(field)) = Len(FieldValue(field)) + 2
  BY <1>4, <1>7
<1>10. QED
  BY <1>2, <1>3, <1>4, <1>5, <1>7, <1>8, <1>9, Zenon

(***************************************************************************)
(* What a field looks like from the front of the data.                     *)
(***************************************************************************)
InFront(value, type, rest, d) ==
    /\ d \in Seq(Byte) /\ Len(d) = (Len(value) + 2) + Len(rest)
    /\ d # <<>> /\ d[1] = Len(value) + 1 /\ d[2] = type
    /\ \A p \in 1..Len(value) : d[2 + p] = value[p]
    /\ \A p \in 1..Len(rest) : d[(Len(value) + 2) + p] = rest[p]

LEMMA FrontOfData ==
    ASSUME NEW value \in Seq(Byte), NEW type \in Byte, NEW rest \in Seq(Byte),
           Len(value) < 255
    PROVE  InFront(value, type, rest, (<<Len(value) + 1, type>> \o value) \o rest)
<1> DEFINE h == <<Len(value) + 1, type>>
           d == (h \o value) \o rest
<1>1. Len(value) \in Nat /\ Len(rest) \in Nat
  BY LenProperties
<1>2. h \in Seq(Byte) /\ Len(h) = 2 /\ h[1] = Len(value) + 1 /\ h[2] = type
  <2>1. \A n \in Nat : n < 255 => n + 1 \in Byte
    BY DEF Byte
  <2>2. Len(value) + 1 \in Byte
    BY <1>1, <2>1, Zenon
  <2>3. QED
    BY <2>2
<1> HIDE DEF h
<1>4. /\ h \o value \in Seq(Byte) /\ Len(h \o value) = Len(h) + Len(value)
      /\ \A i \in 1..(Len(h) + Len(value)) :
            (h \o value)[i] = IF i <= Len(h) THEN h[i] ELSE value[i - Len(h)]
  BY <1>2, ConcatProperties, Zenon
<1> DEFINE hv == h \o value
<1>5. /\ hv \in Seq(Byte) /\ Len(hv) = 2 + Len(value)
      /\ hv[1] = h[1] /\ hv[2] = h[2] /\ \A p \in 1..Len(value) : hv[2 + p] = value[p]
  BY <1>1, <1>2, <1>4
<1>6. d = hv \o rest
  OBVIOUS
<1> HIDE DEF hv, d
<1>7. /\ hv \o rest \in Seq(Byte) /\ Len(hv \o rest) = Len(hv) + Len(rest)
      /\ \A i \in 1..(Len(hv) + Len(rest)) :
            (hv \o rest)[i] = IF i <= Len(hv) THEN hv[i] ELSE rest[i - Len(hv)]
  <2>1. hv \in Seq(Byte)
    BY <1>5
  <2>2. QED
    BY <2>1, ConcatProperties, Zenon
<1>8. /\ d \in Seq(Byte) /\ Len(d) = (Len(value) + 2) + Len(rest)
      /\ \A i \in 1..(Len(value) + 2) : d[i] = hv[i]
      /\ \A p \in 1..Len(rest) : d[(Len(value) + 2) + p] = rest[p]
  <2>1. d \in Seq(Byte) /\ Len(d) = Len(hv) + Len(rest)
        /\ \A i \in 1..(Len(hv) + Len(rest)) :
            d[i] = IF i <= Len(hv) THEN hv[i] ELSE rest[i - Len(hv)]
    BY <1>6, <1>7, Zenon
  <2>2. QED
    BY ONLY <1>1, <1>5, <2>1
<1>9. d[1] = Len(value) + 1 /\ d[2] = type /\ \A p \in 1..Len(value) : d[2 + p] = value[p]
  <2>1. 1 \in 1..(Len(value) + 2) /\ 2 \in 1..(Len(value) + 2)
        /\ \A p \in 1..Len(value) : 2 + p \in 1..(Len(value) + 2)
    BY <1>1
  <2>2. QED
    BY <1>2, <1>5, <1>8, <2>1, Zenon
<1>10. d # <<>>
  <2>1. Len(d) # 0
    BY <1>1, <1>8
  <2>2. QED
    BY <2>1
<1>11. QED
  BY <1>8, <1>9, <1>10, Zenon DEF InFront, d, h

LEMMA FrontOfDataCut ==
    ASSUME NEW value \in Seq(Byte), NEW rest \in Seq(Byte), NEW d \in Seq(Byte),
           Len(d) = (Len(value) + 2) + Len(rest),
           \A p \in 1..Len(value) : d[2 + p] = value[p],
           \A p \in 1..Len(rest) : d[(Len(value) + 2) + p] = rest[p]
    PROVE  /\ SubSeq(d, 3, Len(value) + 2) = value
           /\ SubSeq(d, Len(value) + 3, Len(d)) = rest
<1>1. Len(value) \in Nat /\ Len(rest) \in Nat
  BY LenProperties
<1>2. /\ SubSeq(d, 3, Len(value) + 2) \in Seq(Byte)
      /\ Len(SubSeq(d, 3, Len(value) + 2)) = Len(value)
      /\ \A p \in 1..Len(value) : SubSeq(d, 3, Len(value) + 2)[p] = d[2 + p]
  BY <1>1
<1>3. /\ SubSeq(d, Len(value) + 3, Len(d)) \in Seq(Byte)
      /\ Len(SubSeq(d, Len(value) + 3, Len(d))) = Len(rest)
      /\ \A p \in 1..Len(rest) :
            SubSeq(d, Len(value) + 3, Len(d))[p] = d[(Len(value) + 2) + p]
  BY <1>1
<1>4. SubSeq(d, 3, Len(value) + 2) = value
  BY <1>2, SeqEqual
<1>5. SubSeq(d, Len(value) + 3, Len(d)) = rest
  BY <1>3, SeqEqual
<1>6. QED
  BY <1>4, <1>5

-----------------------------------------------------------------------------
(***************************************************************************)
(* The data of which the first k fields have been parsed.                  *)
(***************************************************************************)
FieldsFrom(ad, k) == [i \in 1..(Len(ad.fields) - k) |-> FieldBytes(ad.fields[k + i])]

Rest(ad, k) == FlattenSeq(FieldsFrom(ad, k)) \o ad.tail

LEMMA RestType ==
    ASSUME NEW ad \in Advertisement, NEW k \in 0..Len(ad.fields)
    PROVE  /\ FieldsFrom(ad, k) \in Seq(Seq(Byte))
           /\ Len(FieldsFrom(ad, k)) = Len(ad.fields) - k
           /\ FlattenSeq(FieldsFrom(ad, k)) \in Seq(Byte)
           /\ Rest(ad, k) \in Seq(Byte)
<1>1. /\ ad.fields \in Seq(Field) /\ ad.tail \in Seq(Byte)
      /\ \A i \in 1..Len(ad.fields) : ad.fields[i] \in Field /\ Legible(ad.fields[i])
  BY AdvertisementLegible
<1>2. \A i \in 1..Len(ad.fields) : FieldBytes(ad.fields[i]) \in Seq(Byte)
  BY <1>1, FieldType
<1>3. Len(ad.fields) \in Nat
  BY <1>1, LenProperties
<1>4. \A i \in 1..(Len(ad.fields) - k) : k + i \in 1..Len(ad.fields)
  BY <1>3
<1>5. FieldsFrom(ad, k) \in [1..(Len(ad.fields) - k) -> Seq(Byte)]
  BY <1>2, <1>4 DEF FieldsFrom
<1>6. Len(ad.fields) - k \in Nat
  BY <1>3
<1>7. FieldsFrom(ad, k) \in Seq(Seq(Byte)) /\ Len(FieldsFrom(ad, k)) = Len(ad.fields) - k
  BY <1>5, <1>6, SeqDef, LenProperties
<1>8. FlattenSeq(FieldsFrom(ad, k)) \in Seq(Byte)
  BY <1>7, FlattenType
<1>9. Rest(ad, k) \in Seq(Byte)
  BY <1>1, <1>8, ConcatProperties, Zenon DEF Rest
<1>10. QED
  BY <1>7, <1>8, <1>9

LEMMA NothingParsed ==
    ASSUME NEW ad \in Advertisement
    PROVE  Rest(ad, 0) = Eir(ad)
<1>1. ad.fields \in Seq(Field)
  BY AdvertisementLegible
<1>2. DOMAIN ad.fields = 1..(Len(ad.fields) - 0) /\ \A i \in DOMAIN ad.fields : 0 + i = i
  BY <1>1
<1>3. FieldsFrom(ad, 0) = [i \in DOMAIN ad.fields |-> FieldBytes(ad.fields[i])]
  BY <1>2 DEF FieldsFrom
<1>4. QED
  BY <1>3, Zenon DEF Rest, Eir

LEMMA AllParsed ==
    ASSUME NEW ad \in Advertisement
    PROVE  Rest(ad, Len(ad.fields)) = ad.tail
<1>1. ad.fields \in Seq(Field) /\ ad.tail \in Seq(Byte)
  BY AdvertisementLegible
<1>2. Len(ad.fields) \in 0..Len(ad.fields) /\ Len(ad.fields) - Len(ad.fields) = 0
  BY <1>1
<1>3. FieldsFrom(ad, Len(ad.fields)) = <<>>
  <2>1. FieldsFrom(ad, Len(ad.fields)) \in Seq(Seq(Byte))
        /\ Len(FieldsFrom(ad, Len(ad.fields))) = 0
    BY <1>2, RestType
  <2>2. QED
    BY <2>1
<1>4. Rest(ad, Len(ad.fields)) = <<>> \o ad.tail
  BY <1>3, FlattenNothing, Zenon DEF Rest
<1>5. QED
  BY <1>1, <1>4, ConcatEmptySeq

LEMMA OneFieldParsed ==
    ASSUME NEW ad \in Advertisement, NEW k \in 0..Len(ad.fields), k < Len(ad.fields)
    PROVE  Rest(ad, k) = FieldBytes(ad.fields[k + 1]) \o Rest(ad, k + 1)
<1> DEFINE s == FieldsFrom(ad, k)
           t == FieldsFrom(ad, k + 1)
           n == Len(ad.fields) - (k + 1)
<1>1. /\ ad.fields \in Seq(Field) /\ ad.tail \in Seq(Byte)
      /\ Len(ad.fields) \in Nat
  BY AdvertisementLegible, LenProperties
<1>2. k + 1 \in 0..Len(ad.fields) /\ n \in Nat /\ Len(ad.fields) - k = n + 1
  BY <1>1
<1>3. s \in Seq(Seq(Byte)) /\ Len(s) = n + 1 /\ t \in Seq(Seq(Byte)) /\ Len(t) = n
  BY <1>2, RestType
<1>4. \A i \in 1..n : /\ i \in 1..(Len(ad.fields) - (k + 1)) /\ i + 1 \in 1..(Len(ad.fields) - k)
                      /\ k + (i + 1) = (k + 1) + i
  BY <1>1
<1>5. \A i \in 1..n : t[i] = s[i + 1]
  BY <1>4, Zenon DEF FieldsFrom
<1>6. s[1] = FieldBytes(ad.fields[k + 1])
  BY <1>1 DEF FieldsFrom
<1>7. s[1] \in Seq(Byte) /\ FlattenSeq(t) \in Seq(Byte)
  <2>1. 1 \in 1..Len(s)
    BY <1>2, <1>3
  <2>2. QED
    BY <1>2, <1>3, <2>1, RestType, ElementOfSeq
<1> HIDE DEF s, t, n
<1>8. FlattenSeq(s) = s[1] \o FlattenSeq(t)
  BY <1>2, <1>3, <1>5, FlattenFirst
<1>9. (s[1] \o FlattenSeq(t)) \o ad.tail = s[1] \o (FlattenSeq(t) \o ad.tail)
  <2>1. \A x, y, z \in Seq(Byte) : (x \o y) \o z = x \o (y \o z)
    BY ConcatenationAssociates
  <2>2. s[1] \in Seq(Byte) /\ FlattenSeq(t) \in Seq(Byte) /\ ad.tail \in Seq(Byte)
    BY <1>1, <1>7
  <2>3. QED
    BY ONLY <2>1, <2>2, Zenon
<1>10. QED
  BY <1>6, <1>8, <1>9, Zenon DEF Rest, s, t

\* The field is the first of the data, and the rest follows it.
Ahead(field, rest) ==
    /\ data \in Seq(Byte) /\ AtField
    /\ item_len = Len(FieldValue(field)) + 1 /\ data[2] = field.type
    /\ Len(FieldValue(field)) + 2 <= Len(data)
    /\ \A p \in 1..Len(FieldValue(field)) : data[2 + p] = FieldValue(field)[p]
    /\ SubSeq(data, 3, item_len + 1) = FieldValue(field)
    /\ SubSeq(data, item_len + 2, Len(data)) = rest

LEMMA FieldAhead ==
    ASSUME NEW ad \in Advertisement, NEW k \in 0..Len(ad.fields), k < Len(ad.fields),
           data = Rest(ad, k), NEW field, field = ad.fields[k + 1]
    PROVE  /\ k + 1 \in 0..Len(ad.fields) /\ k + 1 \in 1..Len(ad.fields)
           /\ field \in Field /\ Legible(field)
           /\ Ahead(field, Rest(ad, k + 1))
<1> DEFINE value == FieldValue(field)
           rest == Rest(ad, k + 1)
<1>1. /\ k + 1 \in 0..Len(ad.fields) /\ k + 1 \in 1..Len(ad.fields)
  BY AdvertisementLegible, LenProperties
<1>2. field \in Field /\ Legible(field)
  BY <1>1, AdvertisementLegible
<1>3. field.type \in Byte
  BY <1>2 DEF Field
<1>4. value \in Seq(Byte) /\ Len(value) < 255 /\ Len(value) \in Nat
  BY <1>2, FieldType, LenProperties
<1>5. rest \in Seq(Byte) /\ Len(rest) \in Nat
  BY <1>1, RestType, LenProperties
<1>6. data = (<<Len(value) + 1, field.type>> \o value) \o rest
  <2>1. data = FieldBytes(field) \o rest
    BY OneFieldParsed, Zenon
  <2>2. QED
    BY <2>1, Zenon DEF FieldBytes
<1> HIDE DEF value, rest
<1>7. /\ data \in Seq(Byte) /\ Len(data) = (Len(value) + 2) + Len(rest)
      /\ data # <<>> /\ data[1] = Len(value) + 1 /\ data[2] = field.type
      /\ \A p \in 1..Len(value) : data[2 + p] = value[p]
      /\ \A p \in 1..Len(rest) : data[(Len(value) + 2) + p] = rest[p]
  <2>1. value \in Seq(Byte) /\ field.type \in Byte /\ rest \in Seq(Byte) /\ Len(value) < 255
    BY <1>3, <1>4, <1>5
  <2>2. InFront(value, field.type, rest, (<<Len(value) + 1, field.type>> \o value) \o rest)
    BY <2>1, FrontOfData, Zenon
  <2>3. InFront(value, field.type, rest, data)
    BY <1>6, <2>2, Zenon
  <2>4. QED
    BY <2>3, Zenon DEF InFront
<1>8. /\ SubSeq(data, 3, Len(value) + 2) = value
      /\ SubSeq(data, Len(value) + 3, Len(data)) = rest
  BY <1>4, <1>5, <1>7, FrontOfDataCut, Zenon
<1>9. data[1] + 1 = Len(value) + 2 /\ data[1] + 2 = Len(value) + 3
      /\ data[1] > 0 /\ data[1] < Len(data) /\ Len(value) + 2 <= Len(data)
  BY ONLY <1>4, <1>5, <1>7
<1>10. AtField
  BY ONLY <1>7, <1>9, Zenon DEF AtField, item_len
<1>11. QED
  BY <1>1, <1>2, <1>7, <1>8, <1>9, <1>10, Zenon DEF Ahead, item_len, value, rest

LEMMA NoFieldAhead ==
    ASSUME NEW ad \in Advertisement, NEW k \in 0..Len(ad.fields), ~ (k < Len(ad.fields)),
           data = Rest(ad, k)
    PROVE  k = Len(ad.fields) /\ ~ AtField
<1>1. k = Len(ad.fields)
  BY AdvertisementLegible, LenProperties
<1>2. data = ad.tail
  BY <1>1, AllParsed, Zenon
<1>3. ad.tail \in Seq(Byte) /\ (ad.tail = <<>> \/ ad.tail[1] = 0 \/ ad.tail[1] >= Len(ad.tail))
  BY AdvertisementLegible, Zenon
<1>4. ASSUME data # <<>> PROVE data[1] \in Nat /\ Len(data) \in Nat
  <2>1. data \in Seq(Byte) /\ data # <<>>
    BY <1>2, <1>3, <1>4, Zenon
  <2>2. Len(data) \in Nat /\ data[1] \in Byte
    BY <2>1
  <2>3. \A n \in Byte : n \in Nat
    BY DEF Byte
  <2>4. QED
    BY <2>2, <2>3
<1>5. QED
  BY <1>1, <1>2, <1>3, <1>4 DEF AtField, item_len

-----------------------------------------------------------------------------
(***************************************************************************)
(* A list of services.                                                     *)
(***************************************************************************)
ItemAt(w, size, i) == bytearray_to_gatouuid(SubSeq(w, 3 + size * i, 2 + size * (i + 1)))

LEMMA ItemBounds ==
    ASSUME NEW size \in {2, 4, 16}, NEW len \in Nat, NEW i \in Nat, size * i < len
    PROVE  /\ size * i \in Nat /\ size * (i + 1) = size * i + size
           /\ 2 + size * (i + 1) <= 2 + len + 15
BY SMT

LEMMA ItemType ==
    ASSUME NEW size \in {2, 4, 16}, NEW len \in Nat, NEW i \in Nat, size * i < len,
           NEW w \in Seq(Byte), 2 + len + 15 <= Len(w)
    PROVE  /\ SubSeq(w, 3 + size * i, 2 + size * (i + 1)) \in Seq(Byte)
           /\ Len(SubSeq(w, 3 + size * i, 2 + size * (i + 1))) = size
           /\ \A p \in 1..size :
                SubSeq(w, 3 + size * i, 2 + size * (i + 1))[p] = w[2 + (size * i + p)]
           /\ ItemAt(w, size, i) \in UUID
<1>1. PICK q \in Nat : q = size * i
  BY ItemBounds, Zenon
<1>2. size * (i + 1) = q + size /\ 2 + (q + size) <= 2 + len + 15
  BY <1>1, ItemBounds, Zenon
<1>3. size \in Nat /\ size # 0 /\ Len(w) \in Nat
  BY LenProperties
<1>4. /\ SubSeq(w, 3 + q, 2 + (q + size)) \in Seq(Byte)
      /\ Len(SubSeq(w, 3 + q, 2 + (q + size))) = size
      /\ \A p \in 1..size : SubSeq(w, 3 + q, 2 + (q + size))[p] = w[2 + (q + p)]
  <2>1. 2 + (q + size) <= Len(w)
    BY ONLY <1>2, <1>3, len \in Nat, 2 + len + 15 <= Len(w), q \in Nat
  <2>2. QED
    BY ONLY <2>1, <1>3, w \in Seq(Byte), q \in Nat
<1>5. bytearray_to_gatouuid(SubSeq(w, 3 + q, 2 + (q + size))) \in UUID
  <2>1. Len(SubSeq(w, 3 + q, 2 + (q + size))) \in {2, 4, 16}
    BY <1>4
  <2>2. QED
    BY <1>4, <2>1, ReadUuidType
<1>6. QED
  BY <1>1, <1>2, <1>4, <1>5, Zenon DEF ItemAt

Listed(field) == {field.uuids[j] : j \in DOMAIN field.uuids}

LEMMA BeyondData ==
    ASSUME NEW beyond \in Beyond, data \in Seq(Byte)
    PROVE  /\ data \o beyond \in Seq(Byte) /\ Len(data \o beyond) = Len(data) + 15
           /\ \A i \in 1..Len(data) : (data \o beyond)[i] = data[i]
<1>1. beyond \in [1..15 -> Byte]
  BY ScanAssumption
<1>2. beyond \in Seq(Byte) /\ Len(beyond) = 15
  <2>1. beyond \in Seq(Byte)
    BY <1>1, SeqDef
  <2>2. QED
    BY <1>1, <2>1, LenProperties
<1>3. Len(data) \in Nat
  BY LenProperties
<1>4. /\ data \o beyond \in Seq(Byte) /\ Len(data \o beyond) = Len(data) + Len(beyond)
      /\ \A i \in 1..(Len(data) + Len(beyond)) :
            (data \o beyond)[i] = IF i <= Len(data) THEN data[i] ELSE beyond[i - Len(data)]
  BY <1>2, ConcatProperties, Zenon
<1> DEFINE w == data \o beyond
<1> HIDE DEF w
<1>5. w \in Seq(Byte) /\ Len(w) = Len(data) + 15 /\ \A i \in 1..Len(data) : w[i] = data[i]
  BY <1>2, <1>3, <1>4 DEF w
<1>6. QED
  BY <1>5 DEF w

\* The items of a list as they are in its value.
HoldsItems(value, field, size, m) ==
    /\ m \in Nat /\ value \in Seq(Byte)
    /\ Len(value) = size * m + Len(field.bytes)
    /\ \A i \in 1..m : \A k \in 1..size :
          value[size * (i - 1) + k] = Spelled(field.uuids[i], size)[k]

LEMMA ListValue ==
    ASSUME NEW field \in Field, Legible(field),
           NEW size \in {2, 4, 16}, size = UuidSize(field.type),
           NEW m, m = Len(field.uuids)
    PROVE  HoldsItems(FieldValue(field), field, size, m)
<1> DEFINE flat == FlattenSeq(Spellings(field))
           value == FieldValue(field)
<1>1. /\ Spellings(field) \in Seq(Seq(Byte)) /\ Len(Spellings(field)) = m
      /\ field.uuids \in Seq(UUID) /\ field.bytes \in Seq(Byte)
      /\ \A i \in 1..m : /\ Spellings(field)[i] = Spelled(field.uuids[i], size)
                         /\ Len(Spellings(field)[i]) = size
  <2>1. UuidSize(field.type) # 0
    OBVIOUS
  <2>2. \A i \in 1..Len(field.uuids) :
            /\ field.uuids[i] \in UUID
            /\ Spellings(field)[i] = Spelled(field.uuids[i], UuidSize(field.type))
            /\ Len(Spellings(field)[i]) = UuidSize(field.type)
    BY <2>1, SpellingsType, Zenon
  <2>3. /\ Spellings(field) \in Seq(Seq(Byte)) /\ Len(Spellings(field)) = Len(field.uuids)
        /\ field.uuids \in Seq(UUID) /\ field.bytes \in Seq(Byte)
    BY SpellingsType, Zenon
  <2>4. QED
    BY <2>2, <2>3, Zenon
<1>2. m \in Nat
  BY <1>1, LenProperties
<1>3. Itemised(flat, Spellings(field), size, m)
  <2>1. size \in Nat \ {0}
    OBVIOUS
  <2>2. QED
    BY <1>1, <2>1, FlattenItems
<1>4. Len(flat) = size * m
      /\ \A i \in 1..m : \A k \in 1..size : flat[size * (i - 1) + k] = Spelled(field.uuids[i], size)[k]
  BY <1>1, <1>3, Zenon DEF Itemised
<1>5. flat \in Seq(Byte) /\ value = flat \o field.bytes
  BY FieldType
<1> HIDE DEF flat, value
<1>6. /\ flat \o field.bytes \in Seq(Byte)
      /\ Len(flat \o field.bytes) = Len(flat) + Len(field.bytes)
      /\ \A i \in 1..(Len(flat) + Len(field.bytes)) :
            (flat \o field.bytes)[i] = IF i <= Len(flat) THEN flat[i] ELSE field.bytes[i - Len(flat)]
  <2>1. flat \in Seq(Byte) /\ field.bytes \in Seq(Byte)
    BY <1>1, <1>5
  <2>2. QED
    BY <2>1, ConcatProperties, Zenon
<1>7. /\ value \in Seq(Byte) /\ Len(value) = Len(flat) + Len(field.bytes)
      /\ \A i \in 1..(Len(flat) + Len(field.bytes)) :
            value[i] = IF i <= Len(flat) THEN flat[i] ELSE field.bytes[i - Len(flat)]
  BY <1>5, <1>6, Zenon
<1>8. Len(flat) \in Nat /\ Len(field.bytes) \in Nat
  BY <1>1, <1>5, LenProperties
<1>9. \A i \in 1..Len(flat) : value[i] = flat[i]
  BY ONLY <1>7, <1>8
<1>10. ASSUME NEW i \in 1..m, NEW k \in 1..size
       PROVE  value[size * (i - 1) + k] = Spelled(field.uuids[i], size)[k]
  <2>1. size \in Nat \ {0}
    OBVIOUS
  <2>2. size * (i - 1) + k \in 1..Len(flat)
    BY <1>2, <1>4, <2>1, PlaceOfItem, Zenon
  <2>3. QED
    BY <1>4, <1>9, <2>2, Zenon
<1>11. Len(value) = size * m + Len(field.bytes)
  BY <1>4, <1>7, Zenon
<1>12. QED
  BY <1>2, <1>7, <1>10, <1>11, Zenon DEF HoldsItems, value

LEMMA ItemCount ==
    ASSUME NEW size \in {2, 4, 16}, NEW m \in Nat, NEW more \in Nat
    PROVE  /\ \A i \in 1..m : i - 1 \in 0..(size * m + more) /\ size * (i - 1) < size * m + more
           /\ more = 0 => \A i \in Nat : size * i < size * m + more => i + 1 \in 1..m
<1>1. CASE size = 2
  BY <1>1
<1>2. CASE size = 4
  BY <1>2
<1>3. CASE size = 16
  BY <1>3
<1>4. QED
  BY <1>1, <1>2, <1>3

LEMMA ItemRead ==
    ASSUME NEW u \in UUID, NEW size \in {2, 4, 16}, HasSpelling(u, size),
           NEW ba \in Seq(Byte), Len(ba) = size, \A p \in 1..size : ba[p] = Spelled(u, size)[p]
    PROVE  bytearray_to_gatouuid(ba) = u
<1>1. Spelled(u, size) \in Seq(Byte) /\ Len(Spelled(u, size)) = size
  BY SpelledType
<1>2. ba = Spelled(u, size)
  BY <1>1, SeqEqual
<1>3. QED
  BY <1>2, SpellingsAreRead

\* The services found in a list.
ReadAs(field, found) ==
    /\ found \subseteq UUID
    /\ Listed(field) \subseteq found
    /\ field.bytes = <<>> => found \subseteq Listed(field)

LEMMA ListRead ==
    ASSUME NEW field \in Field, Legible(field), UuidSize(field.type) # 0,
           NEW beyond \in Beyond, data \in Seq(Byte),
           Len(FieldValue(field)) + 2 <= Len(data),
           \A p \in 1..Len(FieldValue(field)) : data[2 + p] = FieldValue(field)[p],
           NEW found, found = parseEIRUUIDs(UuidSize(field.type), Len(FieldValue(field)), beyond)
    PROVE  ReadAs(field, found)
<1> DEFINE value == FieldValue(field)
           len == Len(value)
           w == data \o beyond
<1>1. PICK size \in {2, 4, 16} : size = UuidSize(field.type)
  <2>1. UuidSize(field.type) \in {0, 2, 4, 16}
    BY UuidSizes, Zenon
  <2>2. UuidSize(field.type) \in {2, 4, 16}
    BY ONLY <2>1, UuidSize(field.type) # 0
  <2>3. QED
    BY <2>2, Zenon
<1>2. PICK m : m = Len(field.uuids)
  OBVIOUS
<1>3. /\ m \in Nat /\ value \in Seq(Byte) /\ len = size * m + Len(field.bytes)
      /\ \A i \in 1..m : \A k \in 1..size :
            value[size * (i - 1) + k] = Spelled(field.uuids[i], size)[k]
  <2>1. HoldsItems(FieldValue(field), field, size, m)
    BY <1>1, <1>2, ListValue
  <2>2. QED
    BY <2>1, Zenon DEF HoldsItems
<1>4. /\ field.uuids \in Seq(UUID) /\ field.bytes \in Seq(Byte)
      /\ DOMAIN field.uuids = 1..m
      /\ \A i \in 1..m : field.uuids[i] \in UUID /\ HasSpelling(field.uuids[i], size)
  <2>1. field.uuids \in Seq(UUID) /\ field.bytes \in Seq(Byte)
    BY SpellingsType
  <2>2. DOMAIN field.uuids = 1..m /\ \A i \in 1..m : field.uuids[i] \in UUID
    BY <1>2, <2>1
  <2>3. \A i \in DOMAIN field.uuids : HasSpelling(field.uuids[i], size)
    BY <1>1 DEF Legible
  <2>4. QED
    BY <2>1, <2>2, <2>3
<1>5. len \in Nat /\ Len(data) \in Nat /\ Len(field.bytes) \in Nat
  BY <1>3, <1>4, LenProperties
<1>6. /\ w \in Seq(Byte) /\ Len(w) = Len(data) + 15
      /\ \A i \in 1..Len(data) : w[i] = data[i]
  BY BeyondData
<1>7. 2 + len + 15 <= Len(w) /\ \A p \in 1..len : w[2 + p] = value[p]
  <2>1. len + 2 <= Len(data) /\ \A p \in 1..len : data[2 + p] = value[p]
    OBVIOUS
  <2>2. QED
    BY ONLY <1>5, <1>6, <2>1
<1>8. found = {ItemAt(w, size, i) : i \in {j \in 0..len : size * j < len}}
  BY <1>1 DEF parseEIRUUIDs, ItemAt
<1> HIDE DEF value, len, w
<1>9. ASSUME NEW i \in {j \in 0..len : size * j < len} PROVE ItemAt(w, size, i) \in UUID
  BY <1>5, <1>6, <1>7, ItemType
<1>10. ASSUME NEW i \in 1..m
       PROVE  /\ i - 1 \in {j \in 0..len : size * j < len}
              /\ ItemAt(w, size, i - 1) = field.uuids[i]
  <2>1. i - 1 \in 0..len /\ size * (i - 1) < len
    BY <1>3, <1>5, ItemCount, Zenon
  <2> DEFINE q == i - 1
             ba == SubSeq(w, 3 + size * q, 2 + size * (q + 1))
  <2>2. q \in Nat /\ size * q < len
    BY <2>1
  <2>3. /\ ba \in Seq(Byte) /\ Len(ba) = size
        /\ \A p \in 1..size : ba[p] = w[2 + (size * q + p)]
    BY <1>5, <1>6, <1>7, <2>2, ItemType
  <2>4. ASSUME NEW p \in 1..size PROVE ba[p] = Spelled(field.uuids[i], size)[p]
    <3>1. size * q + p \in 1..len
      <4>1. size * q + p \in 1..(size * m)
        BY <1>3, PlaceOfItem
      <4>2. 1..(size * m) \subseteq 1..len
        <5>1. PICK all \in Nat : all = size * m
          <6>1. size \in Nat \ {0}
            OBVIOUS
          <6>2. QED
            BY <1>3, <6>1, OneItemMore, Zenon
        <5>2. len = all + Len(field.bytes)
          BY <1>3, <5>1, Zenon
        <5>3. 1..all \subseteq 1..len
          BY ONLY <1>5, <5>2, all \in Nat
        <5>4. QED
          BY <5>1, <5>3, Zenon
      <4>3. QED
        BY <4>1, <4>2
    <3>2. w[2 + (size * q + p)] = value[size * q + p]
      BY <1>7, <3>1
    <3>3. QED
      BY <1>3, <2>3, <3>2, Zenon
  <2> HIDE DEF ba
  <2>5. bytearray_to_gatouuid(ba) = field.uuids[i]
    BY <1>4, <2>3, <2>4, ItemRead
  <2>6. QED
    BY <2>1, <2>5, Zenon DEF ItemAt, ba
<1>11. found \subseteq UUID
  BY <1>8, <1>9
<1>12. Listed(field) \subseteq found
  BY <1>4, <1>8, <1>10 DEF Listed
<1>13. ASSUME field.bytes = <<>> PROVE found \subseteq Listed(field)
  <2>1. Len(field.bytes) = 0
    BY <1>13
  <2>2. \A i \in Nat : size * i < len => i + 1 \in 1..m
    BY <1>3, <1>5, <2>1, ItemCount, Zenon
  <2>3. ASSUME NEW i \in {j \in 0..len : size * j < len}
        PROVE  ItemAt(w, size, i) \in Listed(field)
    <3>1. i \in Nat /\ i + 1 \in 1..m /\ (i + 1) - 1 = i
      BY <1>5, <2>2
    <3>2. ItemAt(w, size, i) = field.uuids[i + 1]
      BY <1>10, <3>1, Zenon
    <3>3. QED
      BY <1>4, <3>1, <3>2 DEF Listed
  <2>4. QED
    BY <1>8, <2>3
<1>14. QED
  BY <1>11, <1>12, <1>13 DEF ReadAs

-----------------------------------------------------------------------------
(***************************************************************************)
(* What a peripheral knows after a number of fields, and what one more     *)
(* field adds to it: one lemma per alternative of ParseField.              *)
(***************************************************************************)
Names(fields) == IF Complete(fields) # {} THEN Complete(fields) ELSE Named(fields)

Latest(i, fields) == i \in Names(fields) /\ \A j \in Names(fields) : j <= i

\* What a peripheral that has parsed these fields, and on which these services
\* have been discovered, says of itself.
Knows(peripheral, fields, found) ==
    /\ ServicesIn(fields) \cup found \subseteq peripheral.service_uuids
    /\ WholeLists(fields) => peripheral.service_uuids \subseteq ServicesIn(fields) \cup found
    /\ peripheral.complete_name <=> Complete(fields) # {}
    /\ \A i : Latest(i, fields) => peripheral.name = fields[i].bytes

LEMMA OneFieldMore ==
    ASSUME NEW fields \in Seq(Field), NEW field \in Field,
           NEW n, n = Len(fields), NEW more, more = Append(fields, field)
    PROVE  /\ n \in Nat /\ more \in Seq(Field)
           /\ DOMAIN fields = 1..n /\ DOMAIN more = 1..(n + 1)
           /\ \A i \in 1..n : more[i] = fields[i] /\ i \in 1..(n + 1) /\ i < n + 1
           /\ more[n + 1] = field /\ n + 1 \in 1..(n + 1)
           /\ \A i \in 1..(n + 1) : i \in 1..n \/ i = n + 1
<1>1. n \in Nat /\ DOMAIN fields = 1..n
  BY LenProperties
<1>2. /\ more \in Seq(Field) /\ Len(more) = n + 1 /\ more[n + 1] = field
      /\ \A i \in 1..n : more[i] = fields[i]
  BY AppendProperties
<1>3. DOMAIN more = 1..(n + 1)
  BY <1>2, LenProperties
<1>4. QED
  BY <1>1, <1>2, <1>3

LEMMA OneFieldMoreListed ==
    ASSUME NEW fields \in Seq(Field), NEW field \in Field,
           NEW more, more = Append(fields, field)
    PROVE  /\ ServicesIn(more) = ServicesIn(fields) \cup Listed(field)
           /\ WholeLists(more) <=>
                WholeLists(fields) /\ (UuidSize(field.type) # 0 => field.bytes = <<>>)
<1>1. PICK n : n = Len(fields)
  OBVIOUS
<1>2. /\ n \in Nat /\ more \in Seq(Field)
      /\ DOMAIN fields = 1..n /\ DOMAIN more = 1..(n + 1)
      /\ \A i \in 1..n : more[i] = fields[i] /\ i \in 1..(n + 1) /\ i < n + 1
      /\ more[n + 1] = field /\ n + 1 \in 1..(n + 1)
      /\ \A i \in 1..(n + 1) : i \in 1..n \/ i = n + 1
  BY <1>1, OneFieldMore
<1>3. ServicesIn(more) = UNION {Listed(more[i]) : i \in DOMAIN more}
      /\ ServicesIn(fields) = UNION {Listed(fields[i]) : i \in DOMAIN fields}
  BY Zenon DEF ServicesIn, Listed
<1>4. ASSUME NEW u PROVE u \in ServicesIn(more) <=> u \in ServicesIn(fields) \/ u \in Listed(field)
  <2>1. u \in ServicesIn(more) <=> \E i \in 1..(n + 1) : u \in Listed(more[i])
    BY <1>2, <1>3
  <2>2. u \in ServicesIn(fields) <=> \E i \in 1..n : u \in Listed(fields[i])
    BY <1>2, <1>3
  <2>3. QED
    BY <1>2, <2>1, <2>2, Zenon
<1>5. ServicesIn(more) = ServicesIn(fields) \cup Listed(field)
  BY <1>4
<1>6. WholeLists(more) <=>
        WholeLists(fields) /\ (UuidSize(field.type) # 0 => field.bytes = <<>>)
  BY <1>2, Zenon DEF WholeLists
<1>7. QED
  BY <1>5, <1>6

LEMMA OneFieldMoreNamed ==
    ASSUME NEW fields \in Seq(Field), NEW field \in Field,
           NEW more, more = Append(fields, field)
    PROVE  /\ Complete(more) = Complete(fields)
                \cup IF field.type = CompleteName THEN {Len(fields) + 1} ELSE {}
           /\ Named(more) = Named(fields)
                \cup IF field.type \in {ShortName, CompleteName} THEN {Len(fields) + 1} ELSE {}
           /\ \A i \in Named(fields) : i < Len(fields) + 1 /\ more[i] = fields[i]
           /\ Complete(fields) \subseteq Named(fields)
           /\ more[Len(fields) + 1] = field /\ Len(fields) + 1 \in Nat
           /\ Named(fields) \subseteq Nat
<1>1. PICK n : n = Len(fields)
  OBVIOUS
<1>2. /\ n \in Nat /\ more \in Seq(Field)
      /\ DOMAIN fields = 1..n /\ DOMAIN more = 1..(n + 1)
      /\ \A i \in 1..n : more[i] = fields[i] /\ i \in 1..(n + 1) /\ i < n + 1
      /\ more[n + 1] = field /\ n + 1 \in 1..(n + 1)
      /\ \A i \in 1..(n + 1) : i \in 1..n \/ i = n + 1
  BY <1>1, OneFieldMore
<1>3. ASSUME NEW i PROVE i \in Complete(more) <=>
            i \in Complete(fields) \/ (field.type = CompleteName /\ i = n + 1)
  BY <1>2, Zenon DEF Complete
<1>4. ASSUME NEW i PROVE i \in Named(more) <=>
            i \in Named(fields) \/ (field.type \in {ShortName, CompleteName} /\ i = n + 1)
  BY <1>2, Zenon DEF Named
<1>5. Complete(more) = Complete(fields)
            \cup IF field.type = CompleteName THEN {n + 1} ELSE {}
  BY <1>3
<1>6. Named(more) = Named(fields)
            \cup IF field.type \in {ShortName, CompleteName} THEN {n + 1} ELSE {}
  BY <1>4
<1>7. Named(fields) \subseteq 1..n /\ Complete(fields) \subseteq Named(fields)
  BY <1>2, Zenon DEF Named, Complete
<1>8. Named(fields) \subseteq Nat /\ n + 1 \in Nat
  BY <1>2, <1>7
<1>9. \A i \in Named(fields) : i < n + 1 /\ more[i] = fields[i]
  BY <1>2, <1>7
<1>10. QED
  BY <1>1, <1>2, <1>5, <1>6, <1>7, <1>8, <1>9, Zenon

-----------------------------------------------------------------------------
LEMMA KnowsList ==
    ASSUME NEW fields \in Seq(Field), NEW field \in Field, UuidSize(field.type) # 0,
           NEW also, NEW p, Knows(p, fields, also),
           NEW found, Listed(field) \subseteq found,
           field.bytes = <<>> => found \subseteq Listed(field),
           NEW q, q.service_uuids = p.service_uuids \cup found,
           q.complete_name = p.complete_name, q.name = p.name
    PROVE  Knows(q, Append(fields, field), also)
<1> DEFINE more == Append(fields, field)
<1>1. field.type \notin {ShortName, CompleteName}
  BY UuidSizes
<1>2. field.type # CompleteName
  BY <1>1
<1>3. /\ Complete(more) = Complete(fields) /\ Named(more) = Named(fields)
      /\ \A i \in Named(fields) : more[i] = fields[i]
  <2>1. /\ Complete(more) = Complete(fields)
                \cup IF field.type = CompleteName THEN {Len(fields) + 1} ELSE {}
        /\ Named(more) = Named(fields)
                \cup IF field.type \in {ShortName, CompleteName} THEN {Len(fields) + 1} ELSE {}
        /\ \A i \in Named(fields) : i < Len(fields) + 1 /\ more[i] = fields[i]
        /\ Complete(fields) \subseteq Named(fields)
        /\ more[Len(fields) + 1] = field /\ Len(fields) + 1 \in Nat
        /\ Named(fields) \subseteq Nat
    BY OneFieldMoreNamed, Zenon
  <2> HIDE DEF more
  <2>2. QED
    BY <2>1, <1>1, <1>2
<1>5. Complete(fields) \subseteq Named(fields)
  BY OneFieldMoreNamed, Zenon
<1>6. /\ ServicesIn(more) = ServicesIn(fields) \cup Listed(field)
      /\ WholeLists(more) <=> WholeLists(fields) /\ field.bytes = <<>>
  BY OneFieldMoreListed
<1> HIDE DEF more
<1>7. ServicesIn(more) \cup also \subseteq q.service_uuids
  BY <1>6 DEF Knows
<1>8. WholeLists(more) => q.service_uuids \subseteq ServicesIn(more) \cup also
  BY <1>6 DEF Knows
<1>9. \A i : Latest(i, more) => i \in Named(fields) /\ Latest(i, fields)
  BY <1>3, <1>5, Zenon DEF Latest, Names
<1>10. \A i : Latest(i, more) => q.name = more[i].bytes
  BY <1>3, <1>9, Zenon DEF Knows
<1>11. q.complete_name <=> Complete(more) # {}
  BY <1>3 DEF Knows
<1>12. Knows(q, more, also)
  BY <1>7, <1>8, <1>10, <1>11, Zenon DEF Knows
<1>13. QED
  BY <1>12 DEF more

LEMMA KnowsName ==
    ASSUME NEW fields \in Seq(Field), NEW field \in Field,
           field.uuids = <<>>,
           NEW also, NEW p, Knows(p, fields, also), AcceptsName(field.type, p),
           NEW q, q.service_uuids = p.service_uuids,
           q.complete_name = (field.type = CompleteName), q.name = field.bytes
    PROVE  Knows(q, Append(fields, field), also)
<1> DEFINE more == Append(fields, field)
           n == Len(fields)
<1>1. field.type \in {ShortName, CompleteName} /\ UuidSize(field.type) = 0
  BY UuidSizes DEF AcceptsName
<1>2. Listed(field) = {}
  BY DEF Listed
<1>3. /\ ServicesIn(more) = ServicesIn(fields) \cup Listed(field)
      /\ WholeLists(more) <=> WholeLists(fields)
  BY <1>1, OneFieldMoreListed
<1>4. ServicesIn(more) = ServicesIn(fields)
  BY <1>2, <1>3
<1>5. /\ Complete(more) = Complete(fields) \cup IF field.type = CompleteName THEN {n + 1} ELSE {}
      /\ Named(more) = Named(fields) \cup {n + 1}
      /\ \A i \in Named(fields) : i < n + 1
      /\ Complete(fields) \subseteq Named(fields)
      /\ more[n + 1] = field /\ n + 1 \in Nat /\ Named(fields) \subseteq Nat
  <2>1. /\ Complete(more) = Complete(fields)
                \cup IF field.type = CompleteName THEN {Len(fields) + 1} ELSE {}
        /\ Named(more) = Named(fields)
                \cup IF field.type \in {ShortName, CompleteName} THEN {Len(fields) + 1} ELSE {}
        /\ \A i \in Named(fields) : i < Len(fields) + 1 /\ more[i] = fields[i]
        /\ Complete(fields) \subseteq Named(fields)
        /\ more[Len(fields) + 1] = field /\ Len(fields) + 1 \in Nat
        /\ Named(fields) \subseteq Nat
    BY OneFieldMoreNamed, Zenon
  <2> HIDE DEF more
  <2>2. QED
    BY <2>1, <1>1
<1> HIDE DEF more, n
<1>6. ASSUME NEW i, Latest(i, more) PROVE i = n + 1
  <2>1. CASE field.type = CompleteName
    <3>1. n + 1 \in Complete(more) /\ Complete(more) \subseteq Nat
          /\ \A j \in Complete(more) : j = n + 1 \/ j < n + 1
      BY <1>5, <2>1
    <3>2. Names(more) = Complete(more)
      BY <3>1 DEF Names
    <3>3. i \in Complete(more) /\ n + 1 <= i
      BY <1>6, <3>1, <3>2 DEF Latest
    <3>4. QED
      BY <1>5, <3>1, <3>3
  <2>2. CASE field.type # CompleteName
    <3>1. Complete(fields) = {}
      BY <2>2 DEF AcceptsName, Knows
    <3>2. Names(more) = Named(fields) \cup {n + 1}
      BY <1>5, <2>2, <3>1 DEF Names
    <3>3. i \in Named(fields) \cup {n + 1} /\ n + 1 <= i
      BY <1>6, <3>2 DEF Latest
    <3>4. QED
      BY <1>5, <3>3
  <2>3. QED
    BY <2>1, <2>2
<1>7. q.complete_name <=> Complete(more) # {}
  <2>1. CASE field.type = CompleteName
    BY <1>5, <2>1
  <2>2. CASE field.type # CompleteName
    <3>1. Complete(fields) = {}
      BY <2>2 DEF AcceptsName, Knows
    <3>2. QED
      BY <1>5, <2>2, <3>1
  <2>3. QED
    BY <2>1, <2>2
<1>8. \A i : Latest(i, more) => q.name = more[i].bytes
  BY <1>5, <1>6, Zenon
<1>9. Knows(q, more, also)
  BY <1>3, <1>4, <1>7, <1>8 DEF Knows
<1>10. QED
  BY <1>9 DEF more

LEMMA KnowsOther ==
    ASSUME NEW fields \in Seq(Field), NEW field \in Field,
           field.uuids = <<>>, UuidSize(field.type) = 0,
           NEW also, NEW p, Knows(p, fields, also), ~ AcceptsName(field.type, p)
    PROVE  Knows(p, Append(fields, field), also)
<1> DEFINE more == Append(fields, field)
           n == Len(fields)
<1>1. field.type # CompleteName /\ (field.type = ShortName => p.complete_name)
  BY DEF AcceptsName
<1>2. Listed(field) = {}
  BY DEF Listed
<1>3. /\ ServicesIn(more) = ServicesIn(fields) \cup Listed(field)
      /\ WholeLists(more) <=> WholeLists(fields)
  BY OneFieldMoreListed
<1>4. ServicesIn(more) = ServicesIn(fields)
  BY <1>2, <1>3
<1>5. /\ Complete(more) = Complete(fields)
      /\ Named(more) = Named(fields) \cup IF field.type \in {ShortName, CompleteName} THEN {n + 1} ELSE {}
      /\ \A i \in Named(fields) : more[i] = fields[i]
      /\ Complete(fields) \subseteq Named(fields)
  <2>1. /\ Complete(more) = Complete(fields)
                \cup IF field.type = CompleteName THEN {Len(fields) + 1} ELSE {}
        /\ Named(more) = Named(fields)
                \cup IF field.type \in {ShortName, CompleteName} THEN {Len(fields) + 1} ELSE {}
        /\ \A i \in Named(fields) : i < Len(fields) + 1 /\ more[i] = fields[i]
        /\ Complete(fields) \subseteq Named(fields)
        /\ more[Len(fields) + 1] = field /\ Len(fields) + 1 \in Nat
        /\ Named(fields) \subseteq Nat
    BY OneFieldMoreNamed, Zenon
  <2> HIDE DEF more
  <2>2. QED
    BY <2>1, <1>1
<1>6. Names(more) = Names(fields) /\ Names(fields) \subseteq Named(fields)
  <2>1. CASE Complete(fields) # {}
    BY <1>5, <2>1 DEF Names
  <2>2. CASE Complete(fields) = {}
    <3>1. field.type \notin {ShortName, CompleteName}
      BY <1>1, <2>2 DEF Knows
    <3>2. QED
      BY <1>5, <2>2, <3>1 DEF Names
  <2>3. QED
    BY <2>1, <2>2
<1> HIDE DEF more, n
<1>7. \A i : Latest(i, more) => i \in Named(fields) /\ Latest(i, fields)
  BY <1>6, Zenon DEF Latest
<1>8. \A i : Latest(i, more) => p.name = more[i].bytes
  BY <1>5, <1>7, Zenon DEF Knows
<1>9. Knows(p, more, also)
  BY <1>3, <1>4, <1>5, <1>8, Zenon DEF Knows
<1>10. QED
  BY <1>9 DEF more

-----------------------------------------------------------------------------
(***************************************************************************)
(* The fields of a device's reports, also of one that is being parsed.     *)
(***************************************************************************)
FieldLists(ads) == [i \in DOMAIN ads |-> ads[i].fields]

SoFar(ads, ad, k) == Fields(ads) \o SubSeq(ad.fields, 1, k)

LEMMA FieldListsType ==
    ASSUME NEW ads \in Seq(Advertisement)
    PROVE  /\ FieldLists(ads) \in Seq(Seq(Field)) /\ Len(FieldLists(ads)) = Len(ads)
           /\ Fields(ads) = FlattenSeq(FieldLists(ads)) /\ Fields(ads) \in Seq(Field)
<1>1. /\ Len(ads) \in Nat /\ DOMAIN ads = 1..Len(ads)
      /\ \A i \in 1..Len(ads) : ads[i] \in Advertisement
  BY LenProperties
<1>2. \A i \in 1..Len(ads) : ads[i].fields \in Seq(Field)
  BY <1>1, AdvertisementLegible
<1>3. FieldLists(ads) = [i \in 1..Len(ads) |-> ads[i].fields]
  BY <1>1 DEF FieldLists
<1>4. FieldLists(ads) \in [1..Len(ads) -> Seq(Field)]
  BY <1>2, <1>3
<1>5. FieldLists(ads) \in Seq(Seq(Field)) /\ Len(FieldLists(ads)) = Len(ads)
  BY <1>1, <1>4, SeqDef, LenProperties
<1>6. Fields(ads) = FlattenSeq(FieldLists(ads))
  BY Zenon DEF Fields, FieldLists
<1>7. Fields(ads) \in Seq(Field)
  BY <1>5, <1>6, FlattenType
<1>8. QED
  BY <1>5, <1>6, <1>7

LEMMA FieldsOfNone == Fields(<<>>) = <<>>
<1>1. FieldLists(<<>>) = <<>>
  BY DEF FieldLists
<1>2. QED
  BY <1>1, FlattenNothing, Zenon DEF Fields, FieldLists

LEMMA FieldsOfMore ==
    ASSUME NEW ads \in Seq(Advertisement), NEW ad \in Advertisement
    PROVE  Fields(Append(ads, ad)) = Fields(ads) \o ad.fields
<1> DEFINE more == Append(ads, ad)
<1>1. ad.fields \in Seq(Field)
  BY AdvertisementLegible, Zenon
<1>2. /\ more \in Seq(Advertisement) /\ Len(more) = Len(ads) + 1
      /\ more[Len(ads) + 1] = ad /\ \A i \in 1..Len(ads) : more[i] = ads[i]
  BY AppendProperties
<1>3. /\ FieldLists(ads) \in Seq(Seq(Field)) /\ Len(FieldLists(ads)) = Len(ads)
      /\ Fields(ads) = FlattenSeq(FieldLists(ads))
      /\ FieldLists(more) \in Seq(Seq(Field)) /\ Len(FieldLists(more)) = Len(more)
      /\ Fields(more) = FlattenSeq(FieldLists(more))
  BY <1>2, FieldListsType
<1> HIDE DEF more
<1>4. Len(ads) \in Nat /\ DOMAIN ads = 1..Len(ads) /\ DOMAIN more = 1..(Len(ads) + 1)
  BY <1>2, LenProperties
<1>5. /\ \A i \in 1..Len(ads) : FieldLists(ads)[i] = ads[i].fields
      /\ \A i \in 1..(Len(ads) + 1) : FieldLists(more)[i] = more[i].fields
  BY <1>4 DEF FieldLists
<1>6. \A i \in 1..Len(ads) : i \in 1..(Len(ads) + 1)
  BY <1>4
<1>7. /\ \A i \in 1..Len(ads) : FieldLists(more)[i] = FieldLists(ads)[i]
      /\ FieldLists(more)[Len(ads) + 1] = ad.fields
  <2>1. Len(ads) + 1 \in 1..(Len(ads) + 1)
    BY <1>4
  <2>2. QED
    BY <1>2, <1>5, <1>6, <2>1, Zenon
<1>8. Len(FieldLists(more)) = Len(ads) + 1
  BY <1>2, <1>3, Zenon
<1>9. FlattenSeq(FieldLists(more)) = FlattenSeq(FieldLists(ads)) \o FieldLists(more)[Len(ads) + 1]
  BY <1>3, <1>4, <1>7, <1>8, FlattenLonger
<1>10. QED
  BY <1>3, <1>7, <1>9, Zenon DEF more

LEMMA SoFarType ==
    ASSUME NEW ads \in Seq(Advertisement), NEW ad \in Advertisement,
           NEW k \in 0..Len(ad.fields)
    PROVE  SoFar(ads, ad, k) \in Seq(Field)
<1>1. ad.fields \in Seq(Field) /\ Fields(ads) \in Seq(Field)
  BY AdvertisementLegible, FieldListsType, Zenon
<1>2. SubSeq(ad.fields, 1, k) \in Seq(Field)
  BY <1>1
<1>3. QED
  BY <1>1, <1>2, ConcatProperties, Zenon DEF SoFar

LEMMA SoFarNothing ==
    ASSUME NEW ads \in Seq(Advertisement), NEW ad \in Advertisement
    PROVE  SoFar(ads, ad, 0) = Fields(ads)
<1>1. Fields(ads) \in Seq(Field)
  BY FieldListsType, Zenon
<1>2. SubSeq(ad.fields, 1, 0) = <<>>
  BY SubSeqEmpty
<1>3. Fields(ads) \o <<>> = Fields(ads)
  BY <1>1, ConcatEmptySeq
<1>4. QED
  BY <1>2, <1>3, Zenon DEF SoFar

LEMMA SoFarAll ==
    ASSUME NEW ads \in Seq(Advertisement), NEW ad \in Advertisement
    PROVE  SoFar(ads, ad, Len(ad.fields)) = Fields(Append(ads, ad))
<1>1. ad.fields \in Seq(Field)
  BY AdvertisementLegible, Zenon
<1>2. SubSeq(ad.fields, 1, Len(ad.fields)) = ad.fields
  BY <1>1, SubSeqFull
<1>3. Fields(Append(ads, ad)) = Fields(ads) \o ad.fields
  BY FieldsOfMore
<1>4. QED
  BY <1>2, <1>3, Zenon DEF SoFar

LEMMA SoFarNext ==
    ASSUME NEW ads \in Seq(Advertisement), NEW ad \in Advertisement,
           NEW k \in 0..Len(ad.fields), k < Len(ad.fields)
    PROVE  SoFar(ads, ad, k + 1) = Append(SoFar(ads, ad, k), ad.fields[k + 1])
<1>1. ad.fields \in Seq(Field) /\ Fields(ads) \in Seq(Field)
  BY AdvertisementLegible, FieldListsType, Zenon
<1>2. SubSeq(ad.fields, 1, k) \in Seq(Field) /\ ad.fields[k + 1] \in Field
  BY <1>1
<1>3. SubSeq(ad.fields, 1, k + 1) = Append(SubSeq(ad.fields, 1, k), ad.fields[k + 1])
  BY <1>1
<1>4. \A x, y \in Seq(Field), z \in Field : x \o Append(y, z) = Append(x \o y, z)
  OBVIOUS
<1>5. Fields(ads) \o Append(SubSeq(ad.fields, 1, k), ad.fields[k + 1])
        = Append(Fields(ads) \o SubSeq(ad.fields, 1, k), ad.fields[k + 1])
  BY ONLY <1>1, <1>2, <1>4, Zenon
<1>6. QED
  BY <1>3, <1>5, Zenon DEF SoFar

LEMMA NewKnowsNothing ==
    ASSUME NEW addr
    PROVE  Knows(NewPeripheral(addr), <<>>, {})
<1>1. ServicesIn(<<>>) = {} /\ Complete(<<>>) = {} /\ Named(<<>>) = {}
  BY DEF ServicesIn, Complete, Named
<1>2. \A i : ~ Latest(i, <<>>)
  BY <1>1 DEF Latest, Names
<1>3. QED
  BY <1>1, <1>2 DEF Knows, NewPeripheral

\* Whatever else changes in a peripheral.
LEMMA KnowsStill ==
    ASSUME NEW p, NEW q, NEW fields, NEW also, Knows(p, fields, also),
           q.service_uuids = p.service_uuids, q.complete_name = p.complete_name, q.name = p.name
    PROVE  Knows(q, fields, also)
BY DEF Knows

LEMMA LargestNumber ==
    ASSUME NEW n \in Nat, NEW S \in SUBSET (1..n), S # {}
    PROVE  Max(S) \in S /\ \A x \in S : x <= Max(S)
<1> DEFINE T == {n - x : x \in S}
<1>1. T \in SUBSET Nat /\ T # {}
  <2>1. \A x \in S : x \in Nat /\ n - x \in Nat
    OBVIOUS
  <2>2. QED
    BY <2>1
<1>2. PICK t \in T : \A u \in T : t <= u
  BY <1>1, SmallestNumber
<1>3. PICK y \in S : t = n - y
  OBVIOUS
<1>4. \A x \in S : y >= x
  <2>1. \A x \in S : n - x \in T
    OBVIOUS
  <2>2. \A x \in S : n - y <= n - x
    BY <1>2, <1>3, <2>1, Zenon
  <2>3. \A x \in S : x \in Int
    OBVIOUS
  <2>4. QED
    BY <2>2, <2>3
<1>5. Max(S) \in S /\ \A x \in S : Max(S) >= x
  <2>1. \E z \in S : \A x \in S : z >= x
    BY <1>4
  <2>2. QED
    BY <2>1, Zenon DEF Max
<1>6. QED
  BY <1>5

-----------------------------------------------------------------------------
(***************************************************************************)
(* Types, and whose report is being handled.                               *)
(***************************************************************************)
PeripheralsTyped ==
    /\ DOMAIN peripherals \subseteq BD
    /\ \A bd \in DOMAIN peripherals : peripherals[bd] \in Peripheral

DeviceTyped ==
    /\ hci \in BOOLEAN /\ notifier \in BOOLEAN
    /\ filter_uuids \in Filters \cup {{}}
    /\ scanEnabled \in BOOLEAN /\ hciFilter \in BOOLEAN
    /\ asked \in Filters \cup {{}}

HandlingTyped ==
    /\ at \in {"loop", "parse", "nameChanged", "discovered"}
    /\ reports \in Seq(Report)
    /\ data \in Seq(Byte)
    /\ at = "loop" <=> reports = <<>>
    /\ at # "loop" => Current \in DOMAIN peripherals

Typed ==
    /\ DeviceTyped /\ PeripheralsTyped /\ HandlingTyped
    /\ events \in Seq(Seq(Report))
    /\ heard \in [BD -> Seq(Advertisement)]
    /\ discovered \in [BD -> SUBSET Discoverable]
    /\ scans \in 0..MaxScans

LEMMA TypedIsTypeOK == Typed => TypeOK
BY DEF Typed, DeviceTyped, PeripheralsTyped, HandlingTyped, TypeOK

LEMMA TypedInit == Init => Typed
<1> SUFFICES ASSUME Init PROVE Typed
  OBVIOUS
<1>1. DeviceTyped
  BY DEF Init, DeviceTyped
<1>2. PeripheralsTyped
  BY DEF Init, PeripheralsTyped
<1>3. HandlingTyped
  BY DEF Init, HandlingTyped
<1>4. /\ events \in Seq(Seq(Report)) /\ heard \in [BD -> Seq(Advertisement)]
      /\ discovered \in [BD -> SUBSET Discoverable] /\ scans \in 0..MaxScans
  BY ScanAssumption DEF Init
<1>5. QED
  BY <1>1, <1>2, <1>3, <1>4 DEF Typed

LEMMA FilterTakenOK ==
    ASSUME DeviceTyped, NEW uuids \in Filters
    PROVE  OpenFails \/ SetupFails(uuids) \/ ScanStarts(uuids) => DeviceTyped'
BY DEF DeviceTyped, OpenFails, SetupFails, ScanStarts, FilterTaken, FilterLeft

Same(p, q) ==
    p.service_uuids = q.service_uuids /\ p.complete_name = q.complete_name /\ p.name = q.name

\* What finding or making a peripheral does to all of them.
Found(known, addr) ==
    /\ DOMAIN known = DOMAIN peripherals \cup {addr.bd}
    /\ \A bd \in DOMAIN known : known[bd] \in Peripheral
    /\ \A bd \in DOMAIN peripherals : Same(known[bd], peripherals[bd])
    /\ addr.bd \notin DOMAIN peripherals => Same(known[addr.bd], NewPeripheral(addr))

LEMMA AddressKnown ==
    ASSUME PeripheralsTyped, NEW addr \in Address \cup AppAddress
    PROVE  Found(WithPeripheral(addr), addr) /\ addr.bd \in BD
<1>1. addr.bd \in BD
  BY DEF BD
<1>2. NewPeripheral(addr) \in Peripheral
  BY DEF NewPeripheral, Peripheral
<1> DEFINE known == WithPeripheral(addr)
<1>3. DOMAIN known = DOMAIN peripherals \cup {addr.bd}
  BY DEF WithPeripheral
<1>4. \A bd \in DOMAIN peripherals : known[bd] = peripherals[bd]
  BY DEF WithPeripheral
<1>5. addr.bd \notin DOMAIN peripherals => known[addr.bd] = NewPeripheral(addr)
  BY DEF WithPeripheral
<1> HIDE DEF known
<1>6. \A bd \in DOMAIN known : known[bd] \in Peripheral
  BY <1>2, <1>3, <1>4, <1>5 DEF PeripheralsTyped
<1>7. Found(known, addr)
  BY <1>3, <1>4, <1>5, <1>6, Zenon DEF Found, Same
<1>8. QED
  BY <1>1, <1>7 DEF known

LEMMA ReportType ==
    ASSUME NEW report \in Report
    PROVE  report.addr \in Address /\ report.ad \in Advertisement
BY DEF Report

\* The next report, if there is one, has its peripheral and its data.
LEMMA NextReportFinds ==
    ASSUME PeripheralsTyped, NEW rs \in Seq(Report), rs # <<>>, NextReport(rs)
    PROVE  /\ reports' = rs /\ at' = "parse" /\ data' = Eir(Head(rs).ad)
           /\ Head(rs) \in Report /\ Found(peripherals', Head(rs).addr)
<1>1. /\ reports' = rs /\ at' = "parse" /\ data' = Eir(Head(rs).ad)
      /\ peripherals' =
            IF data' = <<>> THEN WithPeripheral(Head(rs).addr)
            ELSE [WithPeripheral(Head(rs).addr) EXCEPT ![Head(rs).addr.bd].advert_data = data']
  BY Zenon DEF NextReport
<1>2. Head(rs) \in Report
  BY HeadTailProperties
<1>3. Head(rs).addr \in Address \cup AppAddress /\ Head(rs).ad \in Advertisement
  BY <1>2, ReportType
<1>4. PICK addr \in Address \cup AppAddress : addr = Head(rs).addr
  BY <1>3
<1> DEFINE known == WithPeripheral(addr)
<1>5. Found(known, addr)
  BY AddressKnown
<1>6. data' \in Seq(Byte)
  <2>1. Eir(Head(rs).ad) = Rest(Head(rs).ad, 0)
    BY <1>3, NothingParsed
  <2>2. 0 \in 0..Len(Head(rs).ad.fields)
    BY <1>3, AdvertisementLegible, LenProperties
  <2>3. QED
    BY <1>1, <1>3, <2>1, <2>2, RestType
<1>7. CASE data' = <<>>
  BY <1>1, <1>2, <1>4, <1>5, <1>7
<1>8. CASE data' # <<>>
  <2>1. peripherals' = [known EXCEPT ![addr.bd].advert_data = data']
    BY <1>1, <1>4, <1>8
  <2> HIDE DEF known
  <2>2. addr.bd \in DOMAIN known /\ \A bd \in DOMAIN known : known[bd] \in Peripheral
    BY <1>5 DEF Found
  <2>3. DOMAIN peripherals' = DOMAIN known
    BY <2>1
  <2>4. \A bd \in DOMAIN known : bd # addr.bd => peripherals'[bd] = known[bd]
    BY <2>1
  <2>5. peripherals'[addr.bd] = [known[addr.bd] EXCEPT !.advert_data = data']
    BY <2>1, <2>2
  <2>6. peripherals'[addr.bd] \in Peripheral /\ Same(peripherals'[addr.bd], known[addr.bd])
    <3>1. known[addr.bd] \in Peripheral
      BY <2>2
    <3>2. QED
      BY <1>6, <2>5, <3>1 DEF Peripheral, Same
  <2>7. \A bd \in DOMAIN known : peripherals'[bd] \in Peripheral /\ Same(peripherals'[bd], known[bd])
    BY <2>2, <2>4, <2>6, Zenon DEF Same
  <2>8. Found(peripherals', addr)
    <3>1. /\ DOMAIN known = DOMAIN peripherals \cup {addr.bd}
          /\ \A bd \in DOMAIN peripherals : Same(known[bd], peripherals[bd])
          /\ addr.bd \notin DOMAIN peripherals => Same(known[addr.bd], NewPeripheral(addr))
      BY <1>5 DEF Found
    <3>2. \A bd \in DOMAIN peripherals : Same(peripherals'[bd], peripherals[bd])
      BY <2>7, <3>1 DEF Same
    <3>3. addr.bd \notin DOMAIN peripherals => Same(peripherals'[addr.bd], NewPeripheral(addr))
      BY <2>6, <3>1 DEF Same
    <3>4. QED
      BY <2>3, <2>7, <3>1, <3>2, <3>3, Zenon DEF Found
  <2>9. QED
    BY <1>1, <1>2, <1>4, <2>8
<1>9. QED
  BY <1>7, <1>8

\* Going on with the next report keeps the types.
LEMMA NextReportTyped ==
    ASSUME PeripheralsTyped, NEW rs \in Seq(Report), NextReport(rs)
    PROVE  PeripheralsTyped' /\ HandlingTyped'
<1>1. CASE rs = <<>>
  <2>1. reports' = <<>> /\ at' = "loop" /\ data' = <<>> /\ peripherals' = peripherals
    BY <1>1, Zenon DEF NextReport
  <2>2. PeripheralsTyped'
    BY <2>1 DEF PeripheralsTyped
  <2>3. HandlingTyped'
    BY <2>1 DEF HandlingTyped
  <2>4. QED
    BY <2>2, <2>3
<1>2. CASE rs # <<>>
  <2>1. /\ reports' = rs /\ at' = "parse" /\ data' = Eir(Head(rs).ad)
        /\ Head(rs) \in Report /\ Found(peripherals', Head(rs).addr)
    BY <1>2, NextReportFinds
  <2>2. Head(rs).addr \in Address /\ Head(rs).ad \in Advertisement
    BY <2>1, ReportType
  <2>3. Head(rs).addr.bd \in BD
    BY <2>2 DEF BD
  <2>4. PeripheralsTyped'
    BY <2>1, <2>3 DEF PeripheralsTyped, Found
  <2>5. data' \in Seq(Byte)
    <3>1. Eir(Head(rs).ad) = Rest(Head(rs).ad, 0)
      BY <2>2, NothingParsed
    <3>2. 0 \in 0..Len(Head(rs).ad.fields)
      BY <2>2, AdvertisementLegible, LenProperties
    <3>3. QED
      BY <2>1, <2>2, <3>1, <3>2, RestType
  <2>6. Current' = Head(rs).addr.bd
    BY <2>1 DEF Current
  <2>7. Current' \in DOMAIN peripherals'
    BY <2>1, <2>6 DEF Found
  <2>8. HandlingTyped'
    BY <1>2, <2>1, <2>5, <2>7 DEF HandlingTyped
  <2>9. QED
    BY <2>4, <2>8
<1>3. QED
  BY <1>1, <1>2

LEMMA HandlingStays ==
    ASSUME HandlingTyped, UNCHANGED <<at, reports, data>>,
           DOMAIN peripherals \subseteq DOMAIN peripherals'
    PROVE  HandlingTyped'
BY DEF HandlingTyped, Current

LEMMA TheReport ==
    ASSUME HandlingTyped, at # "loop"
    PROVE  /\ reports # <<>> /\ Head(reports) \in Report /\ Tail(reports) \in Seq(Report)
           /\ Head(reports).ad \in Advertisement /\ Head(reports).addr \in Address
           /\ Current \in BD
<1>1. reports # <<>> /\ reports \in Seq(Report)
  BY DEF HandlingTyped
<1>2. Head(reports) \in Report /\ Tail(reports) \in Seq(Report)
  BY <1>1, HeadTailProperties
<1>3. Head(reports).ad \in Advertisement /\ Head(reports).addr \in Address
  BY <1>2, ReportType
<1>4. QED
  BY <1>1, <1>2, <1>3 DEF Current, BD

\* What has been parsed of the report that is being handled.
Parsing == at \in {"parse", "nameChanged"}

Parsed(k) ==
    /\ k \in 0..Len(Head(reports).ad.fields)
    /\ data = Rest(Head(reports).ad, k)
    /\ Knows(peripherals[Current], SoFar(heard[Current], Head(reports).ad, k), discovered[Current])

Heard ==
    /\ \A bd \in BD : heard[bd] # <<>> \/ discovered[bd] # {} => bd \in DOMAIN peripherals
    /\ \A bd \in DOMAIN peripherals :
          (Parsing /\ bd = Current) \/ Knows(peripherals[bd], Fields(heard[bd]), discovered[bd])
    /\ Parsing => \E k : Parsed(k)

\* What parsing a field does to the peripheral p, which becomes q.
FieldTaken(field, p, q) ==
    \/ /\ UuidSize(field.type) # 0
       /\ \E found :
             /\ ReadAs(field, found)
             /\ q = [p EXCEPT !.service_uuids = p.service_uuids \cup found]
    \/ /\ field.uuids = <<>> /\ AcceptsName(field.type, p)
       /\ q = [p EXCEPT !.name = field.bytes, !.complete_name = (field.type = CompleteName)]
    \/ /\ field.uuids = <<>> /\ UuidSize(field.type) = 0 /\ ~ AcceptsName(field.type, p)
       /\ q = p

Becomes(q) ==
    /\ DOMAIN peripherals' = DOMAIN peripherals
    /\ peripherals'[Current] = q
    /\ \A bd \in DOMAIN peripherals : bd # Current => peripherals'[bd] = peripherals[bd]

LEMMA FieldIsTaken ==
    ASSUME HandlingTyped, PeripheralsTyped, ParseField, NEW k, Parsed(k)
    PROVE  /\ k < Len(Head(reports).ad.fields) /\ k + 1 \in 1..Len(Head(reports).ad.fields)
           /\ k + 1 \in 0..Len(Head(reports).ad.fields)
           /\ data' = Rest(Head(reports).ad, k + 1)
           /\ Head(reports).ad.fields[k + 1] \in Field
           /\ \E q : FieldTaken(Head(reports).ad.fields[k + 1], peripherals[Current], q) /\ Becomes(q)
           /\ reports' = reports /\ heard' = heard /\ discovered' = discovered
           /\ at' \in {"parse", "nameChanged"}
<1> DEFINE ad == Head(reports).ad
           field == ad.fields[k + 1]
           p == peripherals[Current]
<1>1. at = "parse" /\ AtField
  BY DEF ParseField
<1>2. ad \in Advertisement
  BY <1>1, TheReport
<1>3. k < Len(ad.fields)
  BY <1>1, <1>2, NoFieldAhead DEF Parsed
<1>4. k \in 0..Len(ad.fields) /\ data = Rest(ad, k)
  BY DEF Parsed
<1>5. /\ k + 1 \in 0..Len(ad.fields) /\ k + 1 \in 1..Len(ad.fields)
      /\ field \in Field /\ Legible(field)
      /\ Ahead(field, Rest(ad, k + 1))
  BY <1>2, <1>3, <1>4, FieldAhead
<1>6. data' = Rest(ad, k + 1) /\ reports' = reports /\ heard' = heard /\ discovered' = discovered
  BY <1>5, Zenon DEF ParseField, Ahead
<1> DEFINE value == FieldValue(field)
<1>7. \/ /\ UuidSize(field.type) # 0
         /\ \E beyond \in Beyond :
                peripherals' = [peripherals EXCEPT ![Current].service_uuids =
                    @ \cup parseEIRUUIDs(UuidSize(field.type), Len(value), beyond)]
         /\ at' = "parse"
      \/ /\ AcceptsName(field.type, p)
         /\ peripherals' = [peripherals EXCEPT ![Current] =
                 [@ EXCEPT !.name = value, !.complete_name = (field.type = CompleteName)]]
         /\ at' = "nameChanged"
      \/ /\ UuidSize(field.type) = 0 /\ ~ AcceptsName(field.type, p)
         /\ at' = "parse"
         /\ UNCHANGED peripherals
  BY <1>5, Zenon DEF ParseField, Ahead
<1>8. at' \in {"parse", "nameChanged"}
  BY <1>7
<1>9. Current \in DOMAIN peripherals /\ p \in Peripheral
  BY <1>1 DEF HandlingTyped, PeripheralsTyped
<1>10. UuidSize(field.type) = 0 => field.uuids = <<>> /\ value = field.bytes
  BY <1>5, FieldType, Zenon DEF Legible
<1>11. AcceptsName(field.type, p) => UuidSize(field.type) = 0
  BY UuidSizes DEF AcceptsName
<1> HIDE DEF ad, field, p, value
<1>12. \E q : FieldTaken(field, p, q) /\ Becomes(q)
  <2>1. CASE /\ UuidSize(field.type) # 0
             /\ \E beyond \in Beyond :
                    peripherals' = [peripherals EXCEPT ![Current].service_uuids =
                        @ \cup parseEIRUUIDs(UuidSize(field.type), Len(value), beyond)]
    <3>1. PICK beyond \in Beyond :
                peripherals' = [peripherals EXCEPT ![Current].service_uuids =
                    @ \cup parseEIRUUIDs(UuidSize(field.type), Len(value), beyond)]
      BY <2>1
    <3>2. PICK found : found = parseEIRUUIDs(UuidSize(field.type), Len(value), beyond)
      OBVIOUS
    <3>3. ReadAs(field, found)
      BY <1>5, <2>1, <3>2, ListRead DEF Ahead, value
    <3>4. Becomes([p EXCEPT !.service_uuids = p.service_uuids \cup found])
      BY <1>9, <3>1, <3>2 DEF p, Becomes
    <3>5. FieldTaken(field, p, [p EXCEPT !.service_uuids = p.service_uuids \cup found])
      BY <2>1, <3>3 DEF FieldTaken
    <3>6. QED
      BY <3>4, <3>5
  <2>2. CASE /\ AcceptsName(field.type, p)
             /\ peripherals' = [peripherals EXCEPT ![Current] =
                    [@ EXCEPT !.name = value, !.complete_name = (field.type = CompleteName)]]
    <3>1. field.uuids = <<>> /\ value = field.bytes
      BY <1>10, <1>11, <2>2
    <3> DEFINE q == [p EXCEPT !.name = field.bytes, !.complete_name = (field.type = CompleteName)]
    <3>2. Becomes(q)
      BY <1>9, <2>2, <3>1 DEF p, Becomes
    <3>3. FieldTaken(field, p, q)
      BY <2>2, <3>1 DEF FieldTaken
    <3>4. QED
      BY <3>2, <3>3
  <2>3. CASE /\ UuidSize(field.type) = 0 /\ ~ AcceptsName(field.type, p)
             /\ UNCHANGED peripherals
    <3>1. field.uuids = <<>>
      BY <1>10, <2>3
    <3>2. Becomes(p)
      BY <2>3 DEF p, Becomes
    <3>3. FieldTaken(field, p, p)
      BY <2>3, <3>1 DEF FieldTaken
    <3>4. QED
      BY <3>2, <3>3
  <2>4. QED
    BY <1>7, <2>1, <2>2, <2>3
<1>13. QED
  BY <1>3, <1>5, <1>6, <1>8, <1>12, Zenon DEF ad, field, p

LEMMA TakenTyped ==
    ASSUME NEW field \in Field, NEW p \in Peripheral, NEW q, FieldTaken(field, p, q)
    PROVE  q \in Peripheral
<1>1. field.bytes \in Seq(Byte) /\ (field.type = CompleteName) \in BOOLEAN
  BY DEF Field
<1>2. CASE \E found : /\ ReadAs(field, found)
                      /\ q = [p EXCEPT !.service_uuids = p.service_uuids \cup found]
  <2>1. PICK found : /\ ReadAs(field, found)
                     /\ q = [p EXCEPT !.service_uuids = p.service_uuids \cup found]
    BY <1>2
  <2>2. found \subseteq UUID
    BY <2>1 DEF ReadAs
  <2>3. QED
    BY <2>1, <2>2 DEF Peripheral
<1>3. CASE q = [p EXCEPT !.name = field.bytes, !.complete_name = (field.type = CompleteName)]
  BY <1>1, <1>3 DEF Peripheral
<1>4. CASE q = p
  BY <1>4
<1>5. QED
  BY <1>2, <1>3, <1>4 DEF FieldTaken

LEMMA ParseFieldTyped ==
    ASSUME Typed, ParseField, NEW k, Parsed(k)
    PROVE  PeripheralsTyped' /\ HandlingTyped'
<1> DEFINE ad == Head(reports).ad
           field == ad.fields[k + 1]
<1>1. HandlingTyped /\ PeripheralsTyped /\ at # "loop"
  BY DEF Typed, ParseField
<1>2. Current \in DOMAIN peripherals /\ reports # <<>>
  BY <1>1 DEF HandlingTyped
<1>3. /\ k + 1 \in 0..Len(ad.fields) /\ data' = Rest(ad, k + 1) /\ field \in Field
      /\ \E q : FieldTaken(field, peripherals[Current], q) /\ Becomes(q)
      /\ reports' = reports /\ at' \in {"parse", "nameChanged"}
  BY <1>1, FieldIsTaken, Zenon
<1>4. ad \in Advertisement
  BY <1>1, TheReport
<1> HIDE DEF ad, field
<1>5. data' \in Seq(Byte)
  BY <1>3, <1>4, RestType
<1>6. PICK q : FieldTaken(field, peripherals[Current], q) /\ Becomes(q)
  BY <1>3
<1>7. q \in Peripheral
  BY <1>1, <1>2, <1>3, <1>6, TakenTyped DEF PeripheralsTyped
<1>8. PeripheralsTyped'
  BY <1>1, <1>6, <1>7 DEF PeripheralsTyped, Becomes
<1>9. HandlingTyped'
  BY <1>1, <1>2, <1>3, <1>5, <1>6 DEF HandlingTyped, Becomes, Current
<1>10. QED
  BY <1>8, <1>9

LEMMA EventType ==
    ASSUME NEW event \in UNION {[1..n -> Report] : n \in 0..2}
    PROVE  event \in Seq(Report)
<1>1. PICK n \in 0..2 : event \in [1..n -> Report]
  OBVIOUS
<1>2. n \in Nat
  OBVIOUS
<1>3. QED
  BY <1>1, <1>2, SeqDef

LEMMA StepTyped == Typed /\ Heard /\ [Next]_vars => Typed'
<1> SUFFICES ASSUME Typed, Heard, [Next]_vars PROVE Typed'
  OBVIOUS
<1>0. /\ DeviceTyped /\ PeripheralsTyped /\ HandlingTyped
      /\ events \in Seq(Seq(Report))
      /\ heard \in [BD -> Seq(Advertisement)]
      /\ discovered \in [BD -> SUBSET Discoverable] /\ scans \in 0..MaxScans
  BY DEF Typed
<1>d. ASSUME UNCHANGED device PROVE DeviceTyped'
  BY <1>d, <1>0 DEF DeviceTyped, device
<1>h. ASSUME UNCHANGED handling, UNCHANGED peripherals PROVE HandlingTyped' /\ PeripheralsTyped'
  BY <1>h, <1>0 DEF HandlingTyped, PeripheralsTyped, handling, Current
<1>1. ASSUME NEW uuids \in Filters, ScanForPeripheralsWithServices(uuids) PROVE Typed'
  <2>1. DeviceTyped'
    BY <1>0, <1>1, FilterTakenOK DEF ScanForPeripheralsWithServices
  <2>2. HandlingTyped' /\ PeripheralsTyped'
    BY <1>h, <1>1 DEF ScanForPeripheralsWithServices
  <2>3. scans' \in 0..MaxScans
    BY <1>0, <1>1, ScanAssumption DEF ScanForPeripheralsWithServices
  <2>4. /\ events' \in Seq(Seq(Report)) /\ heard' \in [BD -> Seq(Advertisement)]
        /\ discovered' \in [BD -> SUBSET Discoverable]
    BY <1>0, <1>1 DEF ScanForPeripheralsWithServices
  <2>5. QED
    BY <2>1, <2>2, <2>3, <2>4 DEF Typed
<1>2. CASE StopScan
  <2>1. DeviceTyped'
    BY <1>0, <1>2 DEF StopScan, DeviceTyped
  <2>2. HandlingTyped' /\ PeripheralsTyped'
    BY <1>h, <1>2 DEF StopScan
  <2>3. QED
    BY <1>0, <1>2, <2>1, <2>2 DEF StopScan, Typed
<1>3. ASSUME NEW addr \in AppAddress, GetPeripheral(addr) PROVE Typed'
  <2>1. UNCHANGED <<at, reports, data>> /\ peripherals' = WithPeripheral(addr)
    BY <1>3 DEF GetPeripheral, handling
  <2>2. Found(peripherals', addr) /\ addr.bd \in BD
    BY <1>0, <2>1, AddressKnown
  <2>3. PeripheralsTyped'
    BY <1>0, <2>2 DEF Found, PeripheralsTyped
  <2>4. DOMAIN peripherals \subseteq DOMAIN peripherals'
    BY <2>2 DEF Found
  <2>5. HandlingTyped'
    BY <1>0, <2>1, <2>4, HandlingStays
  <2>6. QED
    BY <1>0, <1>3, <1>d, <2>3, <2>5 DEF GetPeripheral, Typed
<1>4. CASE ReadNotify
  <2>1. Head(events) \in Seq(Report) /\ Tail(events) \in Seq(Seq(Report))
    BY <1>0, <1>4, HeadTailProperties DEF ReadNotify
  <2>2. PeripheralsTyped' /\ HandlingTyped'
    BY <1>0, <1>4, <2>1, NextReportTyped DEF ReadNotify
  <2>3. QED
    BY <1>0, <1>4, <1>d, <2>1, <2>2 DEF ReadNotify, Typed
<1>5. CASE ParseField
  <2>1. PICK k : Parsed(k)
    BY <1>5 DEF ParseField, Heard, Parsing
  <2>2. PeripheralsTyped' /\ HandlingTyped'
    BY <1>5, <2>1, ParseFieldTyped
  <2>3. QED
    BY <1>0, <1>5, <1>d, <2>2 DEF ParseField, Typed
<1>6. CASE FilterReport
  <2>1. at = "parse" /\ reports # <<>> /\ Tail(reports) \in Seq(Report)
        /\ Head(reports).ad \in Advertisement /\ Current \in BD
    BY <1>0, <1>6, TheReport DEF FilterReport
  <2>2. heard' \in [BD -> Seq(Advertisement)]
    BY <1>0, <1>6, <2>1 DEF FilterReport
  <2>3. PeripheralsTyped' /\ HandlingTyped'
    <3>1. CASE at' = "discovered" /\ data' = <<>> /\ UNCHANGED <<reports, peripherals>>
      BY <1>0, <2>1, <3>1 DEF PeripheralsTyped, HandlingTyped, Current
    <3>2. CASE NextReport(Tail(reports))
      BY <1>0, <2>1, <3>2, NextReportTyped
    <3>3. QED
      BY <1>6, <3>1, <3>2 DEF FilterReport
  <2>4. QED
    BY <1>0, <1>6, <1>d, <2>2, <2>3 DEF FilterReport, Typed
<1>7. CASE SlotReturns
  <2>1. PeripheralsTyped' /\ HandlingTyped'
    <3>1. CASE at = "nameChanged" /\ at' = "parse" /\ UNCHANGED <<reports, data, peripherals>>
      BY <1>0, <3>1 DEF PeripheralsTyped, HandlingTyped, Current
    <3>2. CASE at = "discovered" /\ NextReport(Tail(reports))
      BY <1>0, <3>2, TheReport, NextReportTyped
    <3>3. QED
      BY <1>7, <3>1, <3>2 DEF SlotReturns
  <2>2. QED
    BY <1>0, <1>7, <1>d, <2>1 DEF SlotReturns, Typed
<1>8. ASSUME NEW event \in UNION {[1..n -> Report] : n \in 0..2}, ControllerReports(event)
      PROVE  Typed'
  <2>1. event \in Seq(Report)
    BY EventType
  <2>2. events' \in Seq(Seq(Report))
    BY <1>0, <1>8, <2>1, AppendProperties DEF ControllerReports
  <2>3. HandlingTyped' /\ PeripheralsTyped'
    BY <1>h, <1>8 DEF ControllerReports
  <2>4. QED
    BY <1>0, <1>8, <1>d, <2>2, <2>3 DEF ControllerReports, Typed
<1>9. ASSUME NEW bd \in BD, NEW uuid \in Discoverable, DiscoverService(bd, uuid) PROVE Typed'
  <2>1. /\ bd \in DOMAIN peripherals /\ uuid \in UUID /\ UNCHANGED <<at, reports, data>>
        /\ peripherals' = [peripherals EXCEPT ![bd].service_uuids = @ \cup {uuid}]
    BY <1>9, ScanAssumption DEF DiscoverService, handling
  <2>2. DOMAIN peripherals' = DOMAIN peripherals
    BY <2>1
  <2>3. peripherals'[bd] \in Peripheral
    BY <1>0, <2>1 DEF PeripheralsTyped, Peripheral
  <2>4. \A other \in DOMAIN peripherals : other # bd => peripherals'[other] = peripherals[other]
    BY <2>1
  <2>5. PeripheralsTyped'
    BY <1>0, <2>2, <2>3, <2>4, Zenon DEF PeripheralsTyped
  <2>6. HandlingTyped'
    BY <1>0, <2>1, <2>2, HandlingStays
  <2>7. discovered' \in [BD -> SUBSET Discoverable]
    BY <1>0, <1>9 DEF DiscoverService
  <2>8. QED
    BY <1>0, <1>9, <1>d, <2>5, <2>6, <2>7 DEF DiscoverService, Typed
<1>10. CASE UNCHANGED vars
  <2>1. HandlingTyped' /\ PeripheralsTyped' /\ DeviceTyped'
    BY <1>10, <1>h, <1>d DEF vars
  <2>2. QED
    BY <1>0, <1>10, <2>1 DEF vars, Typed
<1>11. QED
  BY <1>1, <1>2, <1>3, <1>4, <1>5, <1>6, <1>7, <1>8, <1>9, <1>10 DEF Next

-----------------------------------------------------------------------------
(***************************************************************************)
(* No report is lost on a peripheral: between reports each of them knows   *)
(* all the fields of what its device has sent, and while a report is being *)
(* parsed its peripheral knows those before it and its first k fields, the *)
(* data being the bytes of the others.                                     *)
(***************************************************************************)
\* Everything that has been heard is known, and no report is being parsed.
AllKnown(ps, ads, found) ==
    /\ \A bd \in BD : ads[bd] # <<>> \/ found[bd] # {} => bd \in DOMAIN ps
    /\ \A bd \in DOMAIN ps : Knows(ps[bd], Fields(ads[bd]), found[bd])

LEMMA HeardInit == Init => Heard
BY DEF Init, Heard, Parsing

\* A peripheral that has just been found or made knows what has been heard.
LEMMA FoundKnows ==
    ASSUME PeripheralsTyped, AllKnown(peripherals, heard', discovered'), NEW addr \in Address \cup AppAddress,
           Found(peripherals', addr)
    PROVE  AllKnown(peripherals', heard', discovered')
<1>1. \A bd \in BD : heard'[bd] # <<>> \/ discovered'[bd] # {} => bd \in DOMAIN peripherals'
  BY DEF AllKnown, Found
<1>2. ASSUME NEW bd \in DOMAIN peripherals'
      PROVE  Knows(peripherals'[bd], Fields(heard'[bd]), discovered'[bd])
  <2>1. CASE bd \in DOMAIN peripherals
    <3>1. Knows(peripherals[bd], Fields(heard'[bd]), discovered'[bd]) /\ Same(peripherals'[bd], peripherals[bd])
      BY <2>1 DEF AllKnown, Found
    <3>2. QED
      BY <3>1, KnowsStill DEF Same
  <2>2. CASE bd \notin DOMAIN peripherals
    <3>1. bd = addr.bd /\ Same(peripherals'[bd], NewPeripheral(addr))
      BY <2>2 DEF Found
    <3>2. bd \in BD
      BY <3>1 DEF BD
    <3>3. heard'[bd] = <<>> /\ discovered'[bd] = {}
      BY <2>2, <3>2 DEF AllKnown
    <3>4. Knows(NewPeripheral(addr), Fields(heard'[bd]), discovered'[bd])
      BY <3>3, NewKnowsNothing, FieldsOfNone, Zenon
    <3>5. QED
      BY <3>1, <3>4, KnowsStill DEF Same
  <2>3. QED
    BY <2>1, <2>2
<1>3. QED
  BY <1>1, <1>2 DEF AllKnown

LEMMA NextReportHeard ==
    ASSUME PeripheralsTyped, AllKnown(peripherals, heard', discovered'),
           heard' \in [BD -> Seq(Advertisement)],
           NEW rs \in Seq(Report), NextReport(rs)
    PROVE  Heard'
<1>1. CASE rs = <<>>
  <2>1. at' = "loop" /\ peripherals' = peripherals
    BY <1>1, Zenon DEF NextReport
  <2>2. ~ Parsing'
    BY <2>1 DEF Parsing
  <2>3. QED
    BY <2>1, <2>2, Zenon DEF AllKnown, Heard
<1>2. CASE rs # <<>>
  <2>1. /\ reports' = rs /\ at' = "parse" /\ data' = Eir(Head(rs).ad)
        /\ Head(rs) \in Report /\ Found(peripherals', Head(rs).addr)
    BY <1>2, NextReportFinds
  <2>2. Head(rs).addr \in Address /\ Head(rs).ad \in Advertisement
    BY <2>1, ReportType
  <2>3. AllKnown(peripherals', heard', discovered')
    <3>1. PICK addr \in Address \cup AppAddress : addr = Head(rs).addr
      BY <2>2
    <3>2. QED
      BY <2>1, <3>1, FoundKnows
  <2> DEFINE ad == Head(rs).ad
             bd == Head(rs).addr.bd
  <2>4. Current' = bd /\ Head(reports)'.ad = ad /\ bd \in DOMAIN peripherals' /\ bd \in BD
    BY <2>1, <2>2 DEF Current, Found, BD
  <2>5. data' = Rest(ad, 0) /\ 0 \in 0..Len(ad.fields)
    BY <2>1, <2>2, NothingParsed, AdvertisementLegible, LenProperties
  <2>6. heard'[bd] \in Seq(Advertisement)
    BY <2>4
  <2>7. Knows(peripherals'[bd], SoFar(heard'[bd], ad, 0), discovered'[bd])
    <3>1. Knows(peripherals'[bd], Fields(heard'[bd]), discovered'[bd])
      BY <2>3, <2>4 DEF AllKnown
    <3>2. SoFar(heard'[bd], ad, 0) = Fields(heard'[bd])
      BY <2>2, <2>6, SoFarNothing
    <3>3. QED
      BY <3>1, <3>2, Zenon
  <2>8. Parsed(0)'
    BY <2>4, <2>5, <2>7, Zenon DEF Parsed
  <2>9. QED
    BY <2>3, <2>8, Zenon DEF AllKnown, Heard
<1>3. QED
  BY <1>1, <1>2

LEMMA AllKnownNow ==
    ASSUME Heard, ~ Parsing
    PROVE  AllKnown(peripherals, heard, discovered)
BY Zenon DEF Heard, AllKnown

LEMMA HeardStays ==
    ASSUME Heard, UNCHANGED <<handling, peripherals, heard, discovered>>
    PROVE  Heard'
<1>1. UNCHANGED <<at, reports, data, peripherals, heard, discovered>>
  BY DEF handling
<1>2. Parsing' = Parsing /\ Current' = Current /\ \A k : Parsed(k)' = Parsed(k)
  BY <1>1 DEF Parsing, Current, Parsed
<1>3. QED
  BY <1>1, <1>2 DEF Heard

LEMMA GetPeripheralHeard ==
    ASSUME Typed, Heard, NEW addr \in AppAddress, GetPeripheral(addr)
    PROVE  Heard'
<1>1. /\ UNCHANGED <<at, reports, data>> /\ heard' = heard /\ discovered' = discovered
      /\ peripherals' = WithPeripheral(addr)
  BY DEF GetPeripheral, handling
<1>2. PeripheralsTyped /\ HandlingTyped
  BY DEF Typed
<1>3. addr \in Address \cup AppAddress
  OBVIOUS
<1>4. Found(peripherals', addr)
  BY <1>1, <1>2, <1>3, AddressKnown
<1>5. Parsing' = Parsing /\ Current' = Current
  BY <1>1 DEF Parsing, Current
<1>6. \A bd \in BD : heard'[bd] # <<>> \/ discovered'[bd] # {} => bd \in DOMAIN peripherals'
  BY <1>1, <1>4 DEF Heard, Found
<1>7. ASSUME NEW bd \in DOMAIN peripherals', ~ (Parsing /\ bd = Current)
      PROVE  Knows(peripherals'[bd], Fields(heard'[bd]), discovered'[bd])
  <2>1. CASE bd \in DOMAIN peripherals
    <3>1. Knows(peripherals[bd], Fields(heard'[bd]), discovered'[bd]) /\ Same(peripherals'[bd], peripherals[bd])
      BY <1>1, <1>4, <1>7, <2>1 DEF Heard, Found
    <3>2. QED
      BY <3>1, KnowsStill DEF Same
  <2>2. CASE bd \notin DOMAIN peripherals
    <3>1. bd = addr.bd /\ Same(peripherals'[bd], NewPeripheral(addr))
      BY <1>4, <2>2 DEF Found
    <3>2. bd \in BD
      BY <3>1 DEF BD
    <3>3. heard'[bd] = <<>> /\ discovered'[bd] = {}
      BY <1>1, <2>2, <3>2 DEF Heard
    <3>4. Knows(NewPeripheral(addr), Fields(heard'[bd]), discovered'[bd])
      BY <3>3, NewKnowsNothing, FieldsOfNone, Zenon
    <3>5. QED
      BY <3>1, <3>4, KnowsStill DEF Same
  <2>3. QED
    BY <2>1, <2>2
<1>8. ASSUME Parsing PROVE \E k : Parsed(k)'
  <2>1. PICK k : Parsed(k)
    BY <1>8 DEF Heard
  <2>2. Current \in DOMAIN peripherals
    BY <1>2, <1>8 DEF HandlingTyped, Parsing
  <2>3. Same(peripherals'[Current], peripherals[Current])
    BY <1>4, <2>2 DEF Found
  <2>4. Knows(peripherals'[Current], SoFar(heard[Current], Head(reports).ad, k), discovered[Current])
    BY <2>1, <2>3, KnowsStill DEF Same, Parsed
  <2>5. Parsed(k)'
    BY <1>1, <1>5, <2>1, <2>4, Zenon DEF Parsed
  <2>6. QED
    BY <2>5
<1>9. QED
  BY <1>5, <1>6, <1>7, <1>8, Zenon DEF Heard

\* A service discovered on a peripheral is known from then on.
LEMMA DiscoverServiceHeard ==
    ASSUME Typed, Heard, NEW bd \in BD, NEW uuid \in Discoverable, DiscoverService(bd, uuid)
    PROVE  Heard'
<1>1. /\ at = "loop" /\ at' = at /\ heard' = heard /\ bd \in DOMAIN peripherals
      /\ peripherals' = [peripherals EXCEPT ![bd].service_uuids = @ \cup {uuid}]
      /\ discovered' = [discovered EXCEPT ![bd] = @ \cup {uuid}]
  BY DEF DiscoverService, handling
<1>2. ~ Parsing /\ ~ Parsing'
  BY <1>1 DEF Parsing
<1>3. DOMAIN peripherals' = DOMAIN peripherals
  BY <1>1
<1>4. discovered \in [BD -> SUBSET Discoverable] /\ PeripheralsTyped
  BY DEF Typed
<1>5. \A other \in BD : other # bd =>
            /\ discovered'[other] = discovered[other]
            /\ other \in DOMAIN peripherals => peripherals'[other] = peripherals[other]
  BY <1>1, <1>4
<1>6. Knows(peripherals'[bd], Fields(heard'[bd]), discovered'[bd])
  <2>1. Knows(peripherals[bd], Fields(heard[bd]), discovered[bd])
    BY <1>1, <1>2, Zenon DEF Heard
  <2>2. discovered'[bd] = discovered[bd] \cup {uuid}
    BY <1>1, <1>4
  <2>3. peripherals[bd] \in Peripheral
    BY <1>1, <1>4 DEF PeripheralsTyped
  <2>4. peripherals'[bd] = [peripherals[bd] EXCEPT !.service_uuids = @ \cup {uuid}]
    BY <1>1
  <2>5. /\ peripherals'[bd].service_uuids = peripherals[bd].service_uuids \cup {uuid}
        /\ peripherals'[bd].name = peripherals[bd].name
        /\ peripherals'[bd].complete_name = peripherals[bd].complete_name
    BY <2>3, <2>4 DEF Peripheral
  <2>6. QED
    BY <1>1, <2>1, <2>2, <2>5 DEF Knows
<1>7. \A other \in DOMAIN peripherals' :
            Knows(peripherals'[other], Fields(heard'[other]), discovered'[other])
  <2>1. \A other \in DOMAIN peripherals :
            other \in BD /\ Knows(peripherals[other], Fields(heard[other]), discovered[other])
    BY <1>2, <1>4, Zenon DEF Heard, PeripheralsTyped
  <2>2. QED
    BY <1>1, <1>3, <1>5, <1>6, <2>1, Zenon
<1>8. \A other \in BD : heard'[other] # <<>> \/ discovered'[other] # {}
                            => other \in DOMAIN peripherals'
  BY <1>1, <1>3, <1>5, Zenon DEF Heard
<1>9. QED
  BY <1>2, <1>7, <1>8, Zenon DEF Heard

LEMMA TakenKnows ==
    ASSUME NEW fields \in Seq(Field), NEW field \in Field, NEW p \in Peripheral, NEW q,
           NEW also, Knows(p, fields, also), FieldTaken(field, p, q)
    PROVE  Knows(q, Append(fields, field), also)
<1>1. CASE /\ UuidSize(field.type) # 0
           /\ \E found : /\ ReadAs(field, found)
                         /\ q = [p EXCEPT !.service_uuids = p.service_uuids \cup found]
  <2>1. PICK found : /\ ReadAs(field, found)
                     /\ q = [p EXCEPT !.service_uuids = p.service_uuids \cup found]
    BY <1>1
  <2>2. /\ q.service_uuids = p.service_uuids \cup found
        /\ q.complete_name = p.complete_name /\ q.name = p.name
    BY <2>1 DEF Peripheral
  <2>3. Listed(field) \subseteq found /\ (field.bytes = <<>> => found \subseteq Listed(field))
    BY <2>1 DEF ReadAs
  <2>4. QED
    BY <1>1, <2>2, <2>3, KnowsList
<1>2. CASE /\ field.uuids = <<>> /\ AcceptsName(field.type, p)
           /\ q = [p EXCEPT !.name = field.bytes, !.complete_name = (field.type = CompleteName)]
  <2>1. /\ q.service_uuids = p.service_uuids /\ q.name = field.bytes
        /\ q.complete_name = (field.type = CompleteName)
    BY <1>2 DEF Peripheral
  <2>2. QED
    BY <1>2, <2>1, KnowsName
<1>3. CASE /\ field.uuids = <<>> /\ UuidSize(field.type) = 0 /\ ~ AcceptsName(field.type, p)
           /\ q = p
  BY <1>3, KnowsOther
<1>4. QED
  BY <1>1, <1>2, <1>3 DEF FieldTaken

LEMMA ParseFieldHeard ==
    ASSUME Typed, Heard, ParseField
    PROVE  Heard'
<1>1. at = "parse" /\ Parsing /\ HandlingTyped /\ PeripheralsTyped
      /\ heard \in [BD -> Seq(Advertisement)]
  BY DEF ParseField, Parsing, Typed
<1>2. PICK k : Parsed(k)
  BY <1>1 DEF Heard
<1> DEFINE ad == Head(reports).ad
           field == ad.fields[k + 1]
<1>3. /\ k < Len(ad.fields) /\ k + 1 \in 0..Len(ad.fields)
      /\ data' = Rest(ad, k + 1) /\ field \in Field
      /\ \E q : FieldTaken(field, peripherals[Current], q) /\ Becomes(q)
      /\ reports' = reports /\ heard' = heard /\ discovered' = discovered /\ at' \in {"parse", "nameChanged"}
  BY <1>1, <1>2, FieldIsTaken, Zenon
<1>4. ad \in Advertisement /\ Current \in BD
  BY <1>1, TheReport
<1>5. PICK q : FieldTaken(field, peripherals[Current], q) /\ Becomes(q)
  BY <1>3
<1>6. /\ k \in 0..Len(ad.fields)
      /\ Knows(peripherals[Current], SoFar(heard[Current], ad, k), discovered[Current])
  BY <1>2 DEF Parsed
<1>7. peripherals[Current] \in Peripheral
  BY <1>1 DEF HandlingTyped, PeripheralsTyped
<1>8. heard[Current] \in Seq(Advertisement)
  BY <1>1, <1>4
<1> HIDE DEF ad, field
<1>9. Knows(q, Append(SoFar(heard[Current], ad, k), field), discovered[Current])
  <2>1. SoFar(heard[Current], ad, k) \in Seq(Field)
    BY <1>4, <1>6, <1>8, SoFarType
  <2>2. QED
    BY <1>3, <1>5, <1>6, <1>7, <2>1, TakenKnows
<1>10. Knows(q, SoFar(heard[Current], ad, k + 1), discovered[Current])
  <2>1. SoFar(heard[Current], ad, k + 1) = Append(SoFar(heard[Current], ad, k), field)
    BY <1>3, <1>4, <1>6, <1>8, SoFarNext DEF field
  <2>2. QED
    BY <1>9, <2>1, Zenon
<1>11. Current' = Current /\ Parsing'
  BY <1>3 DEF Current, Parsing
<1>12. peripherals'[Current] = q /\ DOMAIN peripherals' = DOMAIN peripherals
  BY <1>5 DEF Becomes
<1>13. Parsed(k + 1)'
  <2>1. Head(reports)'.ad = ad
    BY <1>3 DEF ad
  <2>2. QED
    BY <1>3, <1>10, <1>11, <1>12, <2>1, Zenon DEF Parsed
<1>14. \A bd \in BD : heard'[bd] # <<>> \/ discovered'[bd] # {} => bd \in DOMAIN peripherals'
  BY <1>3, <1>12, Zenon DEF Heard
<1>15. \A bd \in DOMAIN peripherals' :
            (Parsing' /\ bd = Current') \/ Knows(peripherals'[bd], Fields(heard'[bd]), discovered'[bd])
  BY <1>3, <1>5, <1>11, Zenon DEF Becomes, Heard
<1>16. QED
  BY <1>13, <1>14, <1>15, Zenon DEF Heard

\* When no field is left, the peripheral knows the whole report.
LEMMA WholeReport ==
    ASSUME Typed, Heard, FilterReport
    PROVE  /\ AllKnown(peripherals, heard', discovered')
           /\ heard' \in [BD -> Seq(Advertisement)]
           /\ heard' # heard /\ discovered' = discovered /\ Current \in DOMAIN peripherals /\ Current \in BD
<1>1. at = "parse" /\ Parsing /\ HandlingTyped /\ PeripheralsTyped
      /\ heard \in [BD -> Seq(Advertisement)]
      /\ heard' = [heard EXCEPT ![Current] = Append(@, Head(reports).ad)] /\ ~ AtField /\ discovered' = discovered
  BY DEF FilterReport, Parsing, Typed
<1>2. PICK k : Parsed(k)
  BY <1>1 DEF Heard
<1>3. Head(reports).ad \in Advertisement /\ Current \in BD
  BY <1>1, TheReport
<1>4. PICK ad \in Advertisement : ad = Head(reports).ad
  BY <1>3
<1>5. k \in 0..Len(ad.fields) /\ data = Rest(ad, k)
      /\ Knows(peripherals[Current], SoFar(heard[Current], ad, k), discovered[Current])
  BY <1>2, <1>4 DEF Parsed
<1>6. k = Len(ad.fields)
  <2>1. ASSUME k < Len(ad.fields) PROVE FALSE
    <3>1. PICK field : field = ad.fields[k + 1]
      OBVIOUS
    <3>2. Ahead(field, Rest(ad, k + 1))
      BY <1>5, <2>1, <3>1, FieldAhead
    <3>3. QED
      BY <1>1, <3>2 DEF Ahead
  <2>2. QED
    BY <1>5, <2>1, NoFieldAhead
<1>7. heard[Current] \in Seq(Advertisement)
  BY <1>1, <1>3
<1>8. heard' \in [BD -> Seq(Advertisement)] /\ heard'[Current] = Append(heard[Current], ad)
      /\ \A bd \in BD : bd # Current => heard'[bd] = heard[bd]
  BY <1>1, <1>3, <1>4, <1>7
<1>9. Current \in DOMAIN peripherals
  BY <1>1 DEF HandlingTyped
<1>10. Knows(peripherals[Current], Fields(heard'[Current]), discovered[Current])
  <2>1. SoFar(heard[Current], ad, Len(ad.fields)) = Fields(Append(heard[Current], ad))
    BY <1>7, SoFarAll
  <2>2. QED
    BY <1>5, <1>6, <1>8, <2>1, Zenon
<1>11. AllKnown(peripherals, heard', discovered')
  <2>1. \A bd \in BD : heard'[bd] # <<>> \/ discovered'[bd] # {} => bd \in DOMAIN peripherals
    BY <1>1, <1>8, <1>9, Zenon DEF Heard
  <2>2. ASSUME NEW bd \in DOMAIN peripherals 
        PROVE  Knows(peripherals[bd], Fields(heard'[bd]), discovered[bd])
    <3>1. CASE bd = Current
      BY <1>10, <3>1
    <3>2. CASE bd # Current
      <4>1. bd \in BD
        BY <1>1 DEF PeripheralsTyped
      <4>2. Knows(peripherals[bd], Fields(heard[bd]), discovered[bd])
        BY <3>2, Zenon DEF Heard
      <4>3. QED
        BY <1>8, <3>2, <4>1, <4>2, Zenon
    <3>3. QED
      BY <3>1, <3>2
  <2>3. QED
    BY <1>1, <2>1, <2>2, Zenon DEF AllKnown
<1>12. heard' # heard
  <2>1. Len(Append(heard[Current], ad)) # Len(heard[Current])
    BY <1>7
  <2>2. QED
    BY <1>8, <2>1, Zenon
<1>13. QED
  BY <1>1, <1>3, <1>8, <1>9, <1>11, <1>12

LEMMA FilterReportHeard ==
    ASSUME Typed, Heard, FilterReport
    PROVE  Heard'
<1>1. AllKnown(peripherals, heard', discovered') /\ heard' \in [BD -> Seq(Advertisement)]
  BY WholeReport
<1>2. at = "parse" /\ HandlingTyped /\ PeripheralsTyped
  BY DEF FilterReport, Typed
<1>3. CASE at' = "discovered" /\ UNCHANGED peripherals
  <2>1. ~ Parsing'
    BY <1>3 DEF Parsing
  <2>2. QED
    BY <1>1, <1>3, <2>1, Zenon DEF AllKnown, Heard
<1>4. CASE NextReport(Tail(reports))
  <2>1. Tail(reports) \in Seq(Report)
    BY <1>2, TheReport
  <2>2. QED
    BY <1>1, <1>2, <1>4, <2>1, NextReportHeard
<1>5. QED
  BY <1>3, <1>4 DEF FilterReport

LEMMA StepHeard == Typed /\ Heard /\ [Next]_vars => Heard'
<1> SUFFICES ASSUME Typed, Heard, [Next]_vars PROVE Heard'
  OBVIOUS
<1>0. /\ PeripheralsTyped /\ HandlingTyped
      /\ events \in Seq(Seq(Report)) /\ heard \in [BD -> Seq(Advertisement)]
  BY DEF Typed
<1>1. ASSUME NEW uuids \in Filters, ScanForPeripheralsWithServices(uuids) PROVE Heard'
  BY <1>1, HeardStays DEF ScanForPeripheralsWithServices
<1>2. CASE StopScan
  BY <1>2, HeardStays DEF StopScan
<1>3. ASSUME NEW addr \in AppAddress, GetPeripheral(addr) PROVE Heard'
  BY <1>3, GetPeripheralHeard
<1>4. CASE ReadNotify
  <2>1. Head(events) \in Seq(Report) /\ NextReport(Head(events))
        /\ heard' = heard /\ discovered' = discovered /\ at = "loop"
    BY <1>0, <1>4, HeadTailProperties DEF ReadNotify
  <2>2. AllKnown(peripherals, heard', discovered')
    BY <2>1, AllKnownNow DEF Parsing
  <2>3. heard' \in [BD -> Seq(Advertisement)]
    BY <1>0, <2>1, Zenon
  <2>4. QED
    BY <1>0, <2>1, <2>2, <2>3, NextReportHeard
<1>5. CASE ParseField
  BY <1>5, ParseFieldHeard
<1>6. CASE FilterReport
  BY <1>6, FilterReportHeard
<1>7. CASE SlotReturns
  <2>1. CASE at = "nameChanged" /\ at' = "parse" /\ UNCHANGED <<reports, data, peripherals>>
    <3>1. UNCHANGED <<reports, data, peripherals, heard, discovered>>
          /\ Parsing' = Parsing /\ Current' = Current
      BY <1>7, <2>1 DEF SlotReturns, Parsing, Current
    <3>2. \A k : Parsed(k)' = Parsed(k)
      BY <3>1 DEF Parsed, Current
    <3>3. QED
      BY <3>1, <3>2 DEF Heard
  <2>2. CASE at = "discovered" /\ NextReport(Tail(reports))
    <3>1. heard' = heard /\ discovered' = discovered
      BY <1>7 DEF SlotReturns
    <3>2. AllKnown(peripherals, heard', discovered')
      BY <2>2, <3>1, AllKnownNow DEF Parsing
    <3>3. heard' \in [BD -> Seq(Advertisement)] /\ Tail(reports) \in Seq(Report)
      BY <1>0, <2>2, <3>1, TheReport
    <3>4. QED
      BY <1>0, <2>2, <3>2, <3>3, NextReportHeard
  <2>3. QED
    BY <1>7, <2>1, <2>2 DEF SlotReturns
<1>8. ASSUME NEW event \in UNION {[1..n -> Report] : n \in 0..2}, ControllerReports(event)
      PROVE  Heard'
  BY <1>8, HeardStays DEF ControllerReports
<1>9. ASSUME NEW bd \in BD, NEW uuid \in Discoverable, DiscoverService(bd, uuid) PROVE Heard'
  BY <1>9, DiscoverServiceHeard
<1>10. CASE UNCHANGED vars
  BY <1>10, HeardStays DEF vars
<1>11. QED
  BY <1>1, <1>2, <1>3, <1>4, <1>5, <1>6, <1>7, <1>8, <1>9, <1>10 DEF Next

-----------------------------------------------------------------------------
\* The list that filters is the one the scan was started for.
Filtering == hci => asked = filter_uuids

LEMMA StepFilters == Filtering /\ [Next]_vars => Filtering'
<1> SUFFICES ASSUME Filtering, [Next]_vars PROVE Filtering'
  OBVIOUS
<1>d. ASSUME UNCHANGED device PROVE Filtering'
  BY <1>d DEF Filtering, device
<1>1. ASSUME NEW uuids \in Filters, ScanForPeripheralsWithServices(uuids) PROVE Filtering'
  BY <1>1 DEF ScanForPeripheralsWithServices, OpenFails, SetupFails, ScanStarts, FilterTaken, Filtering
<1>2. CASE StopScan
  BY <1>2 DEF StopScan, Filtering
<1>3. ASSUME NEW addr \in AppAddress, GetPeripheral(addr) PROVE Filtering'
  BY <1>3, <1>d DEF GetPeripheral
<1>4. CASE ReadNotify
  BY <1>4, <1>d DEF ReadNotify
<1>5. CASE ParseField
  BY <1>5, <1>d DEF ParseField
<1>6. CASE FilterReport
  BY <1>6, <1>d DEF FilterReport
<1>7. CASE SlotReturns
  BY <1>7, <1>d DEF SlotReturns
<1>8. ASSUME NEW event \in UNION {[1..n -> Report] : n \in 0..2}, ControllerReports(event)
      PROVE  Filtering'
  BY <1>8, <1>d DEF ControllerReports
<1>9. ASSUME NEW bd \in BD, NEW uuid \in Discoverable, DiscoverService(bd, uuid) PROVE Filtering'
  BY <1>9, <1>d DEF DiscoverService
<1>10. CASE UNCHANGED vars
  BY <1>10, <1>d DEF vars
<1>11. QED
  BY <1>1, <1>2, <1>3, <1>4, <1>5, <1>6, <1>7, <1>8, <1>9, <1>10 DEF Next

ManagerInv == Typed /\ Heard /\ Filtering

LEMMA ManagerInvariant == Spec => []ManagerInv
<1>1. Init => ManagerInv
  BY TypedInit, HeardInit DEF Init, Filtering, ManagerInv
<1>2. ManagerInv /\ [Next]_vars => ManagerInv'
  BY StepTyped, StepHeard, StepFilters DEF ManagerInv
<1>3. QED
  BY <1>1, <1>2, PTL DEF Spec

(***************************************************************************)
(* Every variable has its type; above all, whatever a device sends, what the *)
(* parser takes for services and names are UUIDs and bytes.                *)
(***************************************************************************)
THEOREM TypeCorrect == Spec => []TypeOK
<1>1. ManagerInv => TypeOK
  BY TypedIsTypeOK DEF ManagerInv
<1>2. QED
  BY <1>1, ManagerInvariant, PTL

LEMMA KnownWhenDone ==
    ASSUME ManagerInv, ReportDone
    PROVE  AllKnown(peripherals, heard, discovered)
BY AllKnownNow DEF ManagerInv, ReportDone, Parsing

(***************************************************************************)
(* parseEIRUUIDs() finds every service listed in any report of a device, in *)
(* whatever length and however the report ends; with those discovered on   *)
(* the device, which handlePrimary() puts into the same set, these are all *)
(* there are unless a list was ill-formed; nothing is ever forgotten.      *)
(***************************************************************************)
THEOREM EveryServiceIsHeard == Spec => []ServicesHeard
<1>1. ASSUME ManagerInv PROVE ServicesHeard
  <2> SUFFICES ASSUME ReportDone, NEW bd \in BD, heard[bd] # <<>>,
                      NEW fields, fields = Fields(heard[bd])
               PROVE  /\ bd \in DOMAIN peripherals
                      /\ ServicesIn(fields) \cup discovered[bd] \subseteq peripherals[bd].service_uuids
                      /\ WholeLists(fields) =>
                            ServicesIn(fields) \cup discovered[bd] = peripherals[bd].service_uuids
    BY Zenon DEF ServicesHeard
  <2>1. AllKnown(peripherals, heard, discovered)
    BY <1>1, KnownWhenDone
  <2>2. bd \in DOMAIN peripherals /\ Knows(peripherals[bd], fields, discovered[bd])
    BY <2>1, Zenon DEF AllKnown
  <2>3. QED
    BY <2>2 DEF Knows
<1>2. QED
  BY <1>1, ManagerInvariant, PTL

(***************************************************************************)
(* parseName() leaves a peripheral with the last complete name its device  *)
(* has sent, or the last shortened one if there was none.                  *)
(***************************************************************************)
THEOREM TheNameIsHeard == Spec => []NameHeard
<1>1. ASSUME ManagerInv PROVE NameHeard
  <2> SUFFICES ASSUME ReportDone, NEW bd \in BD, Names(Fields(heard[bd])) # {}
               PROVE  peripherals[bd].name
                        = Fields(heard[bd])[Max(Names(Fields(heard[bd])))].bytes
    BY Zenon DEF NameHeard, Names
  <2>1. AllKnown(peripherals, heard, discovered)
    BY <1>1, KnownWhenDone
  <2>2. heard[bd] \in Seq(Advertisement)
    BY <1>1 DEF ManagerInv, Typed
  <2>3. PICK fields \in Seq(Field) : fields = Fields(heard[bd])
    BY <2>2, FieldListsType
  <2>4. heard[bd] # <<>>
    <3>1. ASSUME heard[bd] = <<>> PROVE FALSE
      <4>1. fields = <<>>
        BY <2>3, <3>1, FieldsOfNone, Zenon
      <4>2. Names(fields) = {}
        BY <4>1 DEF Names, Complete, Named
      <4>3. QED
        BY <2>3, <4>2
    <3>2. QED
      BY <3>1
  <2>5. bd \in DOMAIN peripherals /\ Knows(peripherals[bd], fields, discovered[bd])
    BY <2>1, <2>3, <2>4, Zenon DEF AllKnown
  <2>6. Names(fields) \in SUBSET (1..Len(fields)) /\ Len(fields) \in Nat
    <3>1. DOMAIN fields = 1..Len(fields) /\ Len(fields) \in Nat
      BY LenProperties
    <3>2. QED
      BY <3>1 DEF Names, Complete, Named
  <2>7. Max(Names(fields)) \in Names(fields)
        /\ \A i \in Names(fields) : i <= Max(Names(fields))
    BY <2>3, <2>6, LargestNumber
  <2>8. Latest(Max(Names(fields)), fields)
    BY <2>7, Zenon DEF Latest
  <2>9. QED
    BY <2>3, <2>5, <2>8, Zenon DEF Knows
<1>2. QED
  BY <1>1, ManagerInvariant, PTL

LEMMA FilterReportAnnounces ==
    ASSUME ManagerInv, FilterReport
    PROVE  DueIsAnnounced
<1> SUFFICES ASSUME hci, NEW fields, fields = Fields(heard'[Current])
             PROVE  LET services == ServicesIn(fields) \cup discovered[Current]
                        wanted == asked = {} \/ asked \cap services # {}
                    IN  /\ wanted => at' = "discovered"
                        /\ at' = "discovered" /\ WholeLists(fields) => wanted
  BY Zenon DEF DueIsAnnounced
<1>1. AllKnown(peripherals, heard', discovered) /\ Current \in DOMAIN peripherals
  BY WholeReport, Zenon DEF ManagerInv
<1>2. Knows(peripherals[Current], fields, discovered[Current])
  BY <1>1, Zenon DEF AllKnown
<1>3. asked = filter_uuids
  BY DEF ManagerInv, Filtering
<1>4. \/ PassesFilter(peripherals[Current]) /\ at' = "discovered"
      \/ ~ PassesFilter(peripherals[Current]) /\ NextReport(Tail(reports))
  BY Zenon DEF FilterReport
<1>5. NextReport(Tail(reports)) => at' # "discovered"
  BY DEF NextReport
<1>6. at' = "discovered" <=> PassesFilter(peripherals[Current])
  BY <1>4, <1>5
<1>7. QED
  BY <1>2, <1>3, <1>6 DEF Knows, PassesFilter

(***************************************************************************)
(* handleAdvertising() announces a report exactly when a service of the    *)
(* scan that is on has been advertised by its device, or discovered on it, *)
(* whatever slots of nameChanged() and discoveredPeripheral() have done in *)
(* between; a device with an ill-formed list may also be announced for     *)
(* what was made of it.                                                    *)
(***************************************************************************)
THEOREM WhatIsAskedForIsAnnounced == Spec => AnnouncedIffAskedFor
<1>1. ManagerInv /\ [Next]_vars => [DueIsAnnounced]_vars
  <2> SUFFICES ASSUME ManagerInv, [Next]_vars PROVE DueIsAnnounced \/ UNCHANGED vars
    OBVIOUS
  <2>0. heard' = heard => DueIsAnnounced
    BY DEF DueIsAnnounced
  <2>1. CASE FilterReport
    BY <2>1, FilterReportAnnounces
  <2>2. CASE Next /\ ~ FilterReport
    <3>1. heard' = heard
      BY <2>2 DEF Next, ScanForPeripheralsWithServices, StopScan, GetPeripheral,
                  DiscoverService, ReadNotify, ParseField, SlotReturns, ControllerReports
    <3>2. QED
      BY <2>0, <3>1
  <2>3. QED
    BY <2>1, <2>2
<1>2. QED
  BY <1>1, ManagerInvariant, PTL DEF Spec, AnnouncedIffAskedFor
=============================================================================
