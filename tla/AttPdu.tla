------------------------------- MODULE AttPdu -------------------------------
(***************************************************************************)
(* What GatoAttClient puts into its packets and reads from those of the    *)
(* server (gatoattclient.cpp:143-225, 264-286, 434-541), byte by byte, and *)
(* what GatoPeripheral makes of the values (parseCharacteristicValue()).   *)
(*                                                                         *)
(* The client asks a question; the server packs as many items as it likes  *)
(* into the answer, as long as they have one length and fit; the client    *)
(* reads it.  Who may send when is the subject of GatoAttClient.           *)
(***************************************************************************)
EXTENDS GatoUUID

CONSTANTS Handle,    \* the handles used, out of 1..65535
          Type,      \* the types of attributes the client searches for
          ItemUuid,  \* the UUIDs of services, characteristics and descriptors
          Value,     \* values of attributes, as bytes
          Mtu,       \* bound: the size of a packet
          MaxItems   \* bound: the items of an answer

\* Types have a short form: toUInt16() would silently cut off any other.  The
\* MTU is a quint16.
ASSUME PduAssumption ==
    /\ \A handle \in Handle : handle \in Nat /\ 1 <= handle /\ handle <= 65535
    /\ \A uuid \in Type : uuid \in UUID /\ minimumSize(uuid) = 2
    /\ \A uuid \in ItemUuid : uuid \in UUID
    /\ \A value \in Value : value \in Seq(Byte) /\ Len(value) <= Mtu - 3
    /\ Mtu \in Nat /\ 23 <= Mtu /\ Mtu <= 65535 /\ MaxItems \in Nat \ {0}

VARIABLES question,  \* what the client asked last
          sent,      \* the packet it sent for it
          answer,    \* what the server has to say
          received,  \* whether the answer has arrived
          got        \* what the client has read in it

vars == <<question, sent, answer, received, got>>

-----------------------------------------------------------------------------
(***************************************************************************)
(* The requests.  A QByteArray is streamed with its length in front.       *)
(***************************************************************************)
OpcodeOf ==
    [ExchangeMTU |-> 2, FindInformation |-> 4, FindByTypeValue |-> 6, ReadByType |-> 8,
     Read |-> 10, ReadByGroupType |-> 16, Write |-> 18, WriteCommand |-> 82]

Range16(q) == write_le(q.start) \o write_le(q.end)

Streamed(value) == write_le(Len(value)) \o <<0, 0>> \o value

RequestBody(q) ==
    CASE q.op = "ExchangeMTU"     -> write_le(q.start)
      [] q.op = "FindInformation" -> Range16(q)
      [] q.op = "FindByTypeValue" -> Range16(q) \o Reverse(toUInt16Bytes(q.uuid))
                                                \o Streamed(q.value)
      [] q.op \in {"ReadByType", "ReadByGroupType"} ->
             Range16(q) \o gatouuid_to_bytearray(q.uuid, TRUE, FALSE)
      [] q.op = "Read" -> write_le(q.start)
      [] q.op \in {"Write", "WriteCommand"} -> write_le(q.start) \o q.value

RequestPacket(q) == <<OpcodeOf[q.op]>> \o RequestBody(q)

-----------------------------------------------------------------------------
(***************************************************************************)
(* The answers.  item_len is a signed char: with 128 and more there are no *)
(* items.  Bytes that do not make an item are left out.                    *)
(***************************************************************************)
Pieces(ba, item_len) ==
    IF item_len \in 1..127
    THEN [i \in 1..(Len(ba) \div item_len) |-> SubSeq(ba, item_len * (i - 1) + 1, item_len * i)]
    ELSE <<>>

From(ba, first) == SubSeq(ba, first, Len(ba))

parseInformationData(ba) ==
    LET size == CASE ba[1] = 1 -> 2 [] ba[1] = 2 -> 16 [] OTHER -> -2
        items == Pieces(Tail(ba), 2 + size)
    IN  [i \in DOMAIN items |->
            [handle |-> read_le(items[i]), uuid |-> bytearray_to_gatouuid(From(items[i], 3))]]

\* Items are taken every two bytes; the end of the last one lies behind the
\* packet: the terminating zero of the array and whatever follows it.
parseHandleInformation(ba, behind) ==
    LET at(i) == read_le(SubSeq(ba \o <<0, behind>>, i, i + 1))
    IN  [i \in 1..(Len(ba) \div 2) |-> [start |-> at(2 * i - 1), end |-> at(2 * i + 1)]]

parseAttributeData(ba) ==
    LET items == Pieces(Tail(ba), ba[1])
    IN  [i \in DOMAIN items |-> [handle |-> read_le(items[i]), value |-> From(items[i], 3)]]

\* Faulty variant: the value is taken from where that of a plain attribute is.
GroupLikeAttribute(ba) ==
    LET items == Pieces(Tail(ba), ba[1])
    IN  [i \in DOMAIN items |->
            [start |-> read_le(items[i]), end |-> read_le(From(items[i], 3)),
             value |-> From(items[i], 3)]]

parseAttributeGroupData(ba) ==
    LET items == Pieces(Tail(ba), ba[1])
    IN  [i \in DOMAIN items |->
            [start |-> read_le(items[i]), end |-> read_le(From(items[i], 3)),
             value |-> From(items[i], 5)]]

parseCharacteristicValue(ba) ==
    [properties |-> ba[1], valueHandle |-> read_le(From(ba, 2)),
     uuid |-> bytearray_to_gatouuid(From(ba, 4))]

(***************************************************************************)
(* What the client makes of a packet: handleResponse() or handleEvent(),   *)
(* and the loops over the items in handlePrimary() and                     *)
(* handleCharacteristic().                                                 *)
(***************************************************************************)
Services(ba) ==
    LET list == parseAttributeGroupData(ba)
    IN  [i \in DOMAIN list |-> [start |-> list[i].start, end |-> list[i].end,
                                uuid |-> bytearray_to_gatouuid(list[i].value)]]

Characteristics(ba) ==
    LET list == parseAttributeData(ba)
    IN  [i \in DOMAIN list |-> [handle |-> list[i].handle,
                                char |-> parseCharacteristicValue(list[i].value)]]

Understood(op, packet, behind) ==
    LET ba == Tail(packet)
    IN  CASE op = "ExchangeMTU"     -> <<[mtu |-> read_le(ba)]>>
          [] op = "FindInformation" -> parseInformationData(ba)
          [] op = "FindByTypeValue" -> parseHandleInformation(ba, behind)
          [] op = "ReadByType"      -> Characteristics(ba)
          [] op = "ReadByGroupType" -> Services(ba)
          [] op = "Read"            -> <<[value |-> ba]>>
          [] op = "Notification"    -> <<[handle |-> read_le(ba), value |-> From(ba, 3)]>>

-----------------------------------------------------------------------------
(***************************************************************************)
(* The server's side of the wire, after the Attribute Protocol: 16 bit     *)
(* numbers have their less significant byte first, UUIDs are spelled with  *)
(* 2 or 16 bytes, and the items of an answer have one length.              *)
(***************************************************************************)
Le(n) == <<n % 256, n \div 256>>

Short(uuid) == Spelled(uuid, IF minimumSize(uuid) = 2 THEN 2 ELSE 16)

ItemBytes(op, item) ==
    CASE op = "ExchangeMTU"     -> Le(item.mtu)
      [] op = "FindInformation" -> Le(item.handle) \o Short(item.uuid)
      [] op = "FindByTypeValue" -> Le(item.start) \o Le(item.end)
      [] op = "ReadByType"      -> Le(item.handle) \o <<item.char.properties>>
                                     \o Le(item.char.valueHandle) \o Short(item.char.uuid)
      [] op = "ReadByGroupType" -> Le(item.start) \o Le(item.end) \o Short(item.uuid)
      [] op = "Read"            -> item.value
      [] op = "Notification"    -> Le(item.handle) \o item.value

\* The length of the items, or a code for it, in front of them.
Header(op, len) ==
    CASE op \in {"ReadByType", "ReadByGroupType"} -> <<len>>
      [] op = "FindInformation"                   -> <<IF len = 4 THEN 1 ELSE 2>>
      [] OTHER                                    -> <<>>

ResponseOpcode(op) == IF op = "Notification" THEN 27 ELSE OpcodeOf[op] + 1

Packed(op, items) ==
    <<ResponseOpcode(op)>> \o Header(op, Len(ItemBytes(op, items[1])))
        \o FlattenSeq([i \in DOMAIN items |-> ItemBytes(op, items[i])])

Characteristic == [properties : {2, 144}, valueHandle : Handle, uuid : ItemUuid]

ItemsOf(op) ==
    CASE op = "ExchangeMTU"     -> [mtu : {23, Mtu}]
      [] op = "FindInformation" -> [handle : Handle, uuid : ItemUuid]
      [] op = "FindByTypeValue" -> [start : Handle, end : Handle]
      [] op = "ReadByType"      -> [handle : Handle, char : Characteristic]
      [] op = "ReadByGroupType" -> [start : Handle, end : Handle, uuid : ItemUuid]
      [] op = "Read"            -> [value : Value]
      [] op = "Notification"    -> [handle : Handle, value : Value]
      [] OTHER                  -> {}

Lists == {"FindInformation", "FindByTypeValue", "ReadByType", "ReadByGroupType"}

-----------------------------------------------------------------------------
Q(op, start, end, uuid, value) ==
    [op |-> op, start |-> start, end |-> end, uuid |-> uuid, value |-> value]

ATT_MAX_LE_MTU == 512

Question ==
    {Q("ExchangeMTU", ATT_MAX_LE_MTU, 0, NullUUID, <<>>)}
      \cup {Q("FindInformation", a, b, NullUUID, <<>>) : a, b \in Handle}
      \cup {Q("FindByTypeValue", a, b, uuid, value) :
                a, b \in Handle, uuid \in Type, value \in Value}
      \cup {Q(op, a, b, uuid, <<>>) :
                op \in {"ReadByType", "ReadByGroupType"}, a, b \in Handle, uuid \in Type}
      \cup {Q("Read", a, 0, NullUUID, <<>>) : a \in Handle}
      \cup {Q(op, a, 0, NullUUID, value) :
                op \in {"Write", "WriteCommand"}, a \in Handle, value \in Value}

Init ==
    /\ question = Q("ExchangeMTU", ATT_MAX_LE_MTU, 0, NullUUID, <<>>)
    /\ sent = RequestPacket(question)
    /\ answer = <<>>
    /\ received = FALSE
    /\ got = <<>>

\* One of the request...() functions, or commandWrite().
Ask(q) ==
    /\ answer = <<>>
    /\ question' = q
    /\ sent' = RequestPacket(q)
    /\ UNCHANGED <<answer, received, got>>

ServerPacks(item) ==
    /\ ~ received
    /\ LET op == question.op IN
       /\ answer # <<>> => /\ op \in Lists
                           /\ Len(ItemBytes(op, item)) = Len(ItemBytes(op, answer[1]))
       /\ Len(answer) < MaxItems
       /\ Len(Packed(op, Append(answer, item))) <= Mtu
    /\ answer' = Append(answer, item)
    /\ UNCHANGED <<question, sent, received, got>>

ClientReads ==
    /\ ~ received
    /\ answer # <<>>
    /\ received' = TRUE
    /\ \E behind \in {0, 255} :
          got' = Understood(question.op, Packed(question.op, answer), behind)
    /\ UNCHANGED <<question, sent, answer>>

\* The callback, or the slot of attributeUpdated(), returns.
CallbackReturns ==
    /\ received
    /\ answer' = <<>>
    /\ received' = FALSE
    /\ got' = <<>>
    /\ UNCHANGED <<question, sent>>

\* A notification or an indication.
ClientIsNotified(item) ==
    /\ answer = <<>>
    /\ question' = Q("Notification", 0, 0, NullUUID, <<>>)
    /\ sent' = <<>>
    /\ answer' = <<item>>
    /\ received' = TRUE
    /\ got' = Understood("Notification", Packed("Notification", answer'), 0)

Next ==
    \/ \E q \in Question : Ask(q)
    \/ \E item \in ItemsOf(question.op) : ServerPacks(item)
    \/ ClientReads
    \/ CallbackReturns
    \/ \E item \in ItemsOf("Notification") : ClientIsNotified(item)

Spec == Init /\ [][Next]_vars

-----------------------------------------------------------------------------
Numbers(item) ==
    {item[f] : f \in DOMAIN item \cap {"start", "end", "handle", "mtu"}}
      \cup IF "char" \in DOMAIN item THEN {item.char.valueHandle} ELSE {}

TypeOK ==
    /\ question \in Question \cup {Q("Notification", 0, 0, NullUUID, <<>>)}
    /\ sent \in Seq(Byte) /\ Len(sent) <= Mtu + 8
    /\ answer \in Seq(ItemsOf(question.op)) /\ Len(answer) <= MaxItems
    /\ received \in BOOLEAN
    /\ \A i \in DOMAIN got : \A n \in Numbers(got[i]) : n \in Nat /\ n <= 65535

\* What a server reads in a packet: its opcode, its handles, its type of 16
\* bits and the rest.
Meant(q, packet) ==
    LET word(i) == packet[i] + 256 * packet[i + 1]
        ranged == q.op \in Lists
        typed == q.op \in Lists \ {"FindInformation"}
        head == IF typed THEN 7 ELSE IF ranged THEN 5 ELSE 3
    IN  /\ packet[1] = OpcodeOf[q.op]
        /\ word(2) = q.start
        /\ ranged => word(4) = q.end
        /\ typed => SubSeq(packet, 6, 7) = Spelled(q.uuid, 2)
        /\ q.op # "FindByTypeValue" => From(packet, head + 1) = q.value

(***************************************************************************)
(* A server that reads the packet of a request after the Attribute         *)
(* Protocol finds the handles, the type and the value it was made for.     *)
(* The value searched for by FindByTypeValue is excepted: it is streamed   *)
(* with four bytes in front (gatoattclient.cpp:179), see the README.       *)
(***************************************************************************)
QuestionsAreUnderstood == sent # <<>> => Meant(question, sent)

(***************************************************************************)
(* The client reads in an answer or an event what the server has put       *)
(* there: as many items, in order, each with its handles, UUID or value,   *)
(* whatever the form of the UUIDs.  parseHandleInformation() finds every   *)
(* range, but another one after each (see the README).                     *)
(***************************************************************************)
AnswersAreUnderstood ==
    received =>
        IF question.op = "FindByTypeValue"
        THEN \A i \in DOMAIN answer : 2 * i \in DOMAIN got /\ got[2 * i - 1] = answer[i]
        ELSE got = answer
=============================================================================
