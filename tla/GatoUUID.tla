------------------------------ MODULE GatoUUID ------------------------------
(***************************************************************************)
(* GatoUUID (gatouuid.cpp) and its wire formats (helpers.cpp).             *)
(*                                                                         *)
(* A UUID is its 16 bytes in the order of RFC 4122, most significant       *)
(* first: data1 is bytes 1 to 4.  The UUIDs Bluetooth assigns share the    *)
(* other twelve and are written with the last two or four bytes of data1,  *)
(* least significant first.                                                *)
(***************************************************************************)
EXTENDS Integers, Sequences, SequencesExt

Byte == 0..255

BaseTail == <<0, 0, 16, 0, 128, 0, 0, 128, 95, 155, 52, 251>>

UUID == [1..16 -> Byte]

NullUUID == [i \in 1..16 |-> 0]

\* GatoUUID(quint16) and GatoUUID(quint32), given the bytes of the number.
UUID16(hi, lo) == <<0, 0, hi, lo>> \o BaseTail

UUID32(data1) == data1 \o BaseTail

(***************************************************************************)
(* How other devices spell a UUID of which only the last `size' bytes of   *)
(* data1, or all of it, goes on the air: least significant byte first.     *)
(***************************************************************************)
Spelled(uuid, size) == [k \in 1..size |-> uuid[(IF size = 16 THEN 17 ELSE 5) - k]]

(***************************************************************************)
(* read_le(), write_le(): a 16 bit number and its two bytes.               *)
(***************************************************************************)
\* Faulty variant: the more significant byte is taken for signed.
SignedRead(ba) == (ba[1] + 256 * ba[2]) - IF ba[2] < 128 THEN 0 ELSE 65536

read_le(ba) == ba[1] + 256 * ba[2]

\* Faulty variant: QDataStream's own byte order.
write_be(n) == <<(n \div 256) % 256, n % 256>>

write_le(n) == <<n % 256, (n \div 256) % 256>>

(***************************************************************************)
(* bytearray_to_gatouuid() and gatouuid_to_bytearray().  toUInt16() says   *)
(* of every UUID that it has a short form and drops what does not fit;     *)
(* toUInt32() looks.                                                       *)
(***************************************************************************)
bytearray_to_gatouuid(ba) ==
    CASE Len(ba) = 2  -> UUID16(ba[2], ba[1])
      [] Len(ba) = 4  -> UUID32(Reverse(ba))
      [] Len(ba) = 16 -> Reverse(ba)
      [] OTHER        -> NullUUID

minimumSize(uuid) ==
    IF uuid = NullUUID THEN 0
    ELSE IF SubSeq(uuid, 5, 16) # BaseTail THEN 16
    ELSE IF uuid[1] # 0 \/ uuid[2] # 0 THEN 4
    ELSE 2

\* What a list of UUIDs of that size can hold.
HasSpelling(uuid, size) == size = 16 \/ (uuid # NullUUID /\ minimumSize(uuid) <= size)

toUInt16Bytes(uuid) == <<uuid[3], uuid[4]>>

gatouuid_to_bytearray(uuid, use_uuid16, use_uuid32) ==
    CASE use_uuid16                           -> Reverse(toUInt16Bytes(uuid))
      [] use_uuid32 /\ ~ use_uuid16
           /\ minimumSize(uuid) <= 4          -> Reverse(SubSeq(uuid, 1, 4))
      [] OTHER                                -> Reverse(uuid)
=============================================================================
