---------------------------- MODULE AttPduProofs ----------------------------
(***************************************************************************)
(* Proofs about AttPdu: requests and answers are understood, for all       *)
(* handles, types and values, and the model keeps its types.               *)
(***************************************************************************)
EXTENDS AttPdu, GatoUUIDProofs

-----------------------------------------------------------------------------
(***************************************************************************)
(* Bytes one after the other.                                              *)
(***************************************************************************)
LEMMA Concat ==
    ASSUME NEW a \in Seq(Int), NEW b \in Seq(Int)
    PROVE  /\ a \o b \in Seq(Int)
           /\ Len(a \o b) = Len(a) + Len(b)
           /\ \A i \in 1..Len(a) : (a \o b)[i] = a[i]
           /\ \A i \in 1..Len(b) : (a \o b)[Len(a) + i] = b[i]
<1>1. /\ a \o b \in Seq(Int)
      /\ Len(a \o b) = Len(a) + Len(b)
      /\ \A i \in 1..(Len(a) + Len(b)) :
            (a \o b)[i] = IF i <= Len(a) THEN a[i] ELSE b[i - Len(a)]
  BY ConcatProperties, Zenon
<1>2. Len(a) \in Nat /\ Len(b) \in Nat
  BY LenProperties
<1>3. ASSUME NEW i \in 1..Len(a)
      PROVE  (a \o b)[i] = a[i]
  BY <1>1, <1>2
<1>4. ASSUME NEW i \in 1..Len(b)
      PROVE  (a \o b)[Len(a) + i] = b[i]
  <2>1. Len(a) + i \in 1..(Len(a) + Len(b)) /\ ~ (Len(a) + i <= Len(a))
        /\ (Len(a) + i) - Len(a) = i
    BY <1>2
  <2>2. QED
    BY <1>1, <2>1
<1>5. QED
  BY <1>1, <1>3, <1>4

\* What follows a is b.
LEMMA Behind ==
    ASSUME NEW a \in Seq(Int), NEW b \in Seq(Int)
    PROVE  From(a \o b, Len(a) + 1) = b
<1> DEFINE r == SubSeq(a \o b, Len(a) + 1, Len(a \o b))
<1>1. Len(a) \in Nat /\ Len(b) \in Nat
  BY LenProperties
<1>2. a \o b \in Seq(Int) /\ Len(a \o b) = Len(a) + Len(b)
  BY Concat
<1>3. r \in Seq(Int) /\ Len(r) = Len(b) /\ \A i \in 1..Len(b) : r[i] = (a \o b)[Len(a) + i]
  BY <1>1, <1>2
<1>4. \A i \in 1..Len(b) : r[i] = b[i]
  BY <1>3, Concat
<1>5. r = b
  BY <1>3, <1>4, SeqEqual
<1>6. QED
  BY <1>5 DEF From

LEMMA BytesAreInts ==
    ASSUME NEW w \in Seq(Byte)
    PROVE  w \in Seq(Int)
<1>1. Byte \subseteq Int
  BY DEF Byte
<1>2. QED
  BY <1>1, SeqMonotonic, Zenon

\* A number of 16 bits, and the number at some place of a packet.
Word(n) == n \in Int /\ 0 <= n /\ n <= 65535

WordAt(p, i) == p[i] + 256 * p[i + 1]

LEMMA Number ==
    ASSUME NEW n, Word(n)
    PROVE  /\ write_le(n) \in Seq(Int) /\ Len(write_le(n)) = 2
           /\ WordAt(write_le(n), 1) = n
<1>1. n \in Int /\ 0 <= n /\ n <= 65535
  BY DEF Word
<1>2. /\ write_le(n) \in Seq(Byte) /\ Len(write_le(n)) = 2
      /\ write_le(n)[1] + 256 * write_le(n)[2] = n
  BY <1>1, NumberSurvives
<1>3. write_le(n) \in Seq(Int)
  BY <1>2, BytesAreInts
<1>4. QED
  BY <1>2, <1>3 DEF WordAt

-----------------------------------------------------------------------------
(***************************************************************************)
(* Questions.                                                              *)
(***************************************************************************)
LEMMA HandlesAreWords == \A h \in Handle : Word(h)
BY PduAssumption DEF Word

LEMMA QuestionShape ==
    ASSUME NEW q \in Question
    PROVE  /\ q.op \in {"ExchangeMTU", "FindInformation", "FindByTypeValue", "ReadByType",
                          "ReadByGroupType", "Read", "Write", "WriteCommand"}
           /\ Word(q.start) /\ Word(q.end)
           /\ q.op \in {"FindByTypeValue", "ReadByType", "ReadByGroupType"} => q.uuid \in UUID
           /\ q.value \in Seq(Int)
           /\ q.op \notin {"FindByTypeValue", "Write", "WriteCommand"} => q.value = <<>>
<1>1. \A value \in Value : value \in Seq(Int)
  BY PduAssumption, BytesAreInts
<1>2. \A uuid \in Type : uuid \in UUID
  BY PduAssumption
<1>3. Word(0) /\ Word(ATT_MAX_LE_MTU) /\ <<>> \in Seq(Int)
  BY DEF Word, ATT_MAX_LE_MTU
<1>4. CASE q = Q("ExchangeMTU", ATT_MAX_LE_MTU, 0, NullUUID, <<>>)
  BY <1>3, <1>4 DEF Q
<1>5. CASE \E a, b \in Handle : q = Q("FindInformation", a, b, NullUUID, <<>>)
  BY <1>3, <1>5, HandlesAreWords DEF Q
<1>6. CASE \E a, b \in Handle, uuid \in Type, value \in Value :
              q = Q("FindByTypeValue", a, b, uuid, value)
  BY <1>1, <1>2, <1>6, HandlesAreWords DEF Q
<1>7. CASE \E op \in {"ReadByType", "ReadByGroupType"}, a, b \in Handle, uuid \in Type :
              q = Q(op, a, b, uuid, <<>>)
  BY <1>2, <1>3, <1>7, HandlesAreWords DEF Q
<1>8. CASE \E a \in Handle : q = Q("Read", a, 0, NullUUID, <<>>)
  BY <1>3, <1>8, HandlesAreWords DEF Q
<1>9. CASE \E op \in {"Write", "WriteCommand"}, a \in Handle, value \in Value :
              q = Q(op, a, 0, NullUUID, value)
  BY <1>1, <1>3, <1>9, HandlesAreWords DEF Q
<1>10. QED
  BY <1>4, <1>5, <1>6, <1>7, <1>8, <1>9 DEF Question

-----------------------------------------------------------------------------
(***************************************************************************)
(* Packets: an opcode, a number, and the rest; which may start with        *)
(* another number.                                                         *)
(***************************************************************************)
Numbered(n, rest) == write_le(n) \o rest

LEMMA NumberFirst ==
    ASSUME NEW n, Word(n), NEW rest \in Seq(Int)
    PROVE  /\ Numbered(n, rest) \in Seq(Int)
           /\ Len(rest) \in Nat /\ Len(Numbered(n, rest)) = 2 + Len(rest)
           /\ WordAt(Numbered(n, rest), 1) = n
           /\ \A i \in 1..Len(rest) : Numbered(n, rest)[2 + i] = rest[i]
           /\ From(Numbered(n, rest), 3) = rest
<1> DEFINE w == write_le(n)
<1> DEFINE c == w \o rest
<1>1. w \in Seq(Int) /\ Len(w) = 2 /\ WordAt(w, 1) = n
  BY Number, Zenon
<1>2. Len(rest) \in Nat
  BY LenProperties
<1> HIDE DEF w
<1>3. /\ c \in Seq(Int)
      /\ Len(c) = Len(w) + Len(rest)
      /\ \A i \in 1..Len(w) : c[i] = w[i]
      /\ \A i \in 1..Len(rest) : c[Len(w) + i] = rest[i]
  BY <1>1, Concat, Zenon
<1>4. From(c, Len(w) + 1) = rest
  BY <1>1, Behind, Zenon
<1> HIDE DEF c
<1>5. c[1] = w[1] /\ c[2] = w[2]
  BY <1>1, <1>3
<1>6. /\ c \in Seq(Int) /\ Len(c) = 2 + Len(rest)
      /\ WordAt(c, 1) = n
      /\ \A i \in 1..Len(rest) : c[2 + i] = rest[i]
      /\ From(c, 3) = rest
  BY <1>1, <1>3, <1>4, <1>5 DEF WordAt
<1>7. Numbered(n, rest) = c
  BY DEF Numbered, c, w
<1>8. QED
  BY <1>2, <1>6, <1>7

LEMMA OpcodeFirst ==
    ASSUME NEW o \in Int, NEW body \in Seq(Int)
    PROVE  /\ <<o>> \o body \in Seq(Int)
           /\ Len(body) \in Nat /\ Len(<<o>> \o body) = 1 + Len(body)
           /\ (<<o>> \o body)[1] = o
           /\ \A i \in 1..Len(body) : (<<o>> \o body)[1 + i] = body[i]
<1> DEFINE a == <<o>>
<1> DEFINE c == a \o body
<1>1. a \in Seq(Int) /\ Len(a) = 1 /\ a[1] = o
  OBVIOUS
<1>2. Len(body) \in Nat
  BY LenProperties
<1> HIDE DEF a
<1>3. /\ c \in Seq(Int)
      /\ Len(c) = Len(a) + Len(body)
      /\ \A i \in 1..Len(a) : c[i] = a[i]
      /\ \A i \in 1..Len(body) : c[Len(a) + i] = body[i]
  BY <1>1, Concat, Zenon
<1> HIDE DEF c
<1>4. /\ c \in Seq(Int) /\ Len(c) = 1 + Len(body)
      /\ c[1] = o
      /\ \A i \in 1..Len(body) : c[1 + i] = body[i]
  BY <1>1, <1>3
<1>5. <<o>> \o body = c
  BY DEF c, a
<1> SUFFICES ASSUME NEW d, d = c
             PROVE  /\ d \in Seq(Int)
                    /\ Len(d) = 1 + Len(body)
                    /\ d[1] = o
                    /\ \A i \in 1..Len(body) : d[1 + i] = body[i]
  BY <1>2, <1>5, Zenon
<1>6. QED
  BY <1>4

\* The packet of a request, its first number, and what follows.
Asked(o, n, rest) == <<o>> \o Numbered(n, rest)

\* p is made of the opcode o, the number n and the rest.
AskedFor(p, o, n, rest) ==
    /\ p[1] = o
    /\ WordAt(p, 2) = n
    /\ \A i \in 1..Len(rest) : p[3 + i] = rest[i]
    /\ Len(p) = 3 + Len(rest) /\ p \in Seq(Int) /\ Len(rest) \in Nat

LEMMA OneNumberPacket ==
    ASSUME NEW o \in Int, NEW n, Word(n), NEW rest \in Seq(Int)
    PROVE  AskedFor(Asked(o, n, rest), o, n, rest)
<1> DEFINE b == Numbered(n, rest)
<1> DEFINE p == <<o>> \o b
<1>1. /\ b \in Seq(Int) /\ Len(rest) \in Nat /\ Len(b) = 2 + Len(rest)
      /\ WordAt(b, 1) = n
      /\ \A i \in 1..Len(rest) : b[2 + i] = rest[i]
  BY NumberFirst, Zenon
<1>2. Asked(o, n, rest) = p
  BY Zenon DEF Asked
<1> HIDE DEF b
<1>3. /\ p \in Seq(Int) /\ Len(p) = 1 + Len(b) /\ p[1] = o
      /\ \A i \in 1..Len(b) : p[1 + i] = b[i]
  BY <1>1, OpcodeFirst, Zenon
<1> HIDE DEF p
<1>4. p[2] = b[1] /\ p[3] = b[2]
  <2>1. 1 \in 1..Len(b) /\ 2 \in 1..Len(b) /\ 1 + 1 = 2 /\ 1 + 2 = 3
    BY <1>1
  <2>2. QED
    BY <1>3, <2>1
<1>5. ASSUME NEW i \in 1..Len(rest)
      PROVE  p[3 + i] = rest[i]
  <2>1. 2 + i \in 1..Len(b) /\ 1 + (2 + i) = 3 + i
    BY <1>1
  <2>2. p[3 + i] = b[2 + i]
    BY <1>3, <2>1
  <2>3. QED
    BY <1>1, <2>2
<1>6. Len(p) = 3 + Len(rest)
  BY <1>1, <1>3
<1>7. WordAt(p, 2) = n
  BY <1>1, <1>4 DEF WordAt
<1>8. QED
  BY <1>1, <1>2, <1>3, <1>5, <1>6, <1>7 DEF AskedFor

\* p is made of the opcode o, the numbers n and m and the rest.
AskedForRange(p, o, n, m, rest) ==
    /\ p[1] = o
    /\ WordAt(p, 2) = n
    /\ WordAt(p, 4) = m
    /\ \A i \in 1..Len(rest) : p[5 + i] = rest[i]
    /\ Len(p) = 5 + Len(rest) /\ p \in Seq(Int) /\ Len(rest) \in Nat

LEMMA TwoNumbersPacket ==
    ASSUME NEW o \in Int, NEW n, Word(n), NEW m, Word(m), NEW rest \in Seq(Int)
    PROVE  AskedForRange(Asked(o, n, Numbered(m, rest)), o, n, m, rest)
<1> DEFINE b == Numbered(m, rest)
<1> DEFINE p == Asked(o, n, b)
<1>1. /\ b \in Seq(Int) /\ Len(rest) \in Nat /\ Len(b) = 2 + Len(rest)
      /\ WordAt(b, 1) = m
      /\ \A i \in 1..Len(rest) : b[2 + i] = rest[i]
  BY NumberFirst, Zenon
<1>2. Asked(o, n, Numbered(m, rest)) = p
  BY Zenon
<1> HIDE DEF b
<1>3. /\ p[1] = o /\ WordAt(p, 2) = n
      /\ \A i \in 1..Len(b) : p[3 + i] = b[i]
      /\ Len(p) = 3 + Len(b) /\ p \in Seq(Int)
  <2>1. b \in Seq(Int)
    BY <1>1
  <2>2. AskedFor(p, o, n, b)
    BY <2>1, OneNumberPacket, Zenon
  <2>3. QED
    BY <2>2 DEF AskedFor
<1> HIDE DEF p
<1>4. p[4] = b[1] /\ p[5] = b[2]
  <2>1. 1 \in 1..Len(b) /\ 2 \in 1..Len(b) /\ 3 + 1 = 4 /\ 3 + 2 = 5
    BY <1>1
  <2>2. QED
    BY <1>3, <2>1
<1>5. ASSUME NEW i \in 1..Len(rest)
      PROVE  p[5 + i] = rest[i]
  <2>1. 2 + i \in 1..Len(b) /\ 3 + (2 + i) = 5 + i
    BY <1>1
  <2>2. p[5 + i] = b[2 + i]
    BY <1>3, <2>1
  <2>3. QED
    BY <1>1, <2>2
<1>6. Len(p) = 5 + Len(rest)
  BY <1>1, <1>3
<1>7. WordAt(p, 4) = m
  BY <1>1, <1>4 DEF WordAt
<1>8. QED
  BY <1>1, <1>2, <1>3, <1>5, <1>6, <1>7 DEF AskedForRange

\* What is left of a packet from some place on.
LEMMA Rest ==
    ASSUME NEW p \in Seq(Int), NEW rest \in Seq(Int), NEW k \in Nat,
           Len(p) = k + Len(rest), Len(rest) \in Nat,
           \A i \in 1..Len(rest) : p[k + i] = rest[i]
    PROVE  From(p, k + 1) = rest
<1> DEFINE r == SubSeq(p, k + 1, Len(p))
<1>1. r \in Seq(Int) /\ Len(r) = Len(rest) /\ \A i \in 1..Len(rest) : r[i] = p[k + i]
  OBVIOUS
<1>2. r = rest
  <2>1. \A i \in 1..Len(rest) : r[i] = rest[i]
    BY <1>1
  <2> HIDE DEF r
  <2>2. QED
    BY <1>1, <2>1, SeqEqual
<1>3. QED
  BY <1>2 DEF From

-----------------------------------------------------------------------------
(***************************************************************************)
(* The bodies of the requests, put together from the numbers.              *)
(***************************************************************************)
LEMMA Opcodes ==
    ASSUME NEW q \in Question
    PROVE  OpcodeOf[q.op] \in Int
<1>1. \A op \in {"ExchangeMTU", "FindInformation", "FindByTypeValue", "ReadByType",
                  "ReadByGroupType", "Read", "Write", "WriteCommand"} : OpcodeOf[op] \in Int
  BY DEF OpcodeOf
<1>2. QED
  BY <1>1, QuestionShape

\* The type comes after the range, less significant byte first.
LEMMA Types ==
    ASSUME NEW u \in UUID
    PROVE  /\ Reverse(toUInt16Bytes(u)) = <<u[4], u[3]>>
           /\ gatouuid_to_bytearray(u, TRUE, FALSE) = <<u[4], u[3]>>
           /\ Spelled(u, 2) = <<u[4], u[3]>>
           /\ <<u[4], u[3]>> \in Seq(Int) /\ Len(<<u[4], u[3]>>) = 2
<1>1. Reverse(toUInt16Bytes(u)) = <<u[4], u[3]>>
  BY DEF Reverse, toUInt16Bytes
<1>2. gatouuid_to_bytearray(u, TRUE, FALSE) = Reverse(toUInt16Bytes(u))
  BY Zenon DEF gatouuid_to_bytearray
<1>3. Spelled(u, 2) = <<u[4], u[3]>>
  BY DEF Spelled
<1>4. u[4] \in Int /\ u[3] \in Int
  BY DEF UUID, Byte
<1>5. <<u[4], u[3]>> \in Seq(Int) /\ Len(<<u[4], u[3]>>) = 2
  BY <1>4
<1>6. QED
  BY <1>1, <1>2, <1>3, <1>5, Zenon

LEMMA StreamedIsSeq ==
    ASSUME NEW value \in Seq(Int)
    PROVE  Streamed(value) \in Seq(Int)
<1>1. Len(value) \in Nat
  BY LenProperties
<1>2. write_le(Len(value)) \in Seq(Int) /\ <<0, 0>> \in Seq(Int)
  BY <1>1 DEF write_le
<1>3. write_le(Len(value)) \o <<0, 0>> \in Seq(Int)
  BY <1>2, Concat, Zenon
<1>4. QED
  BY <1>3, Concat, Zenon DEF Streamed

LEMMA ThreeInARow ==
    ASSUME NEW a \in Seq(Int), NEW b \in Seq(Int), NEW c \in Seq(Int)
    PROVE  (a \o b) \o c = a \o (b \o c)
BY ConcatAssociative

\* A range, and a range with something after it.
LEMMA Ranges ==
    ASSUME NEW q, Word(q.start), Word(q.end), NEW rest \in Seq(Int)
    PROVE  /\ Range16(q) \in Seq(Int)
           /\ Range16(q) = Numbered(q.start, Numbered(q.end, <<>>))
           /\ Range16(q) \o rest = Numbered(q.start, Numbered(q.end, rest))
<1> DEFINE a == write_le(q.start)
<1> DEFINE b == write_le(q.end)
<1>1. a \in Seq(Int) /\ b \in Seq(Int)
  BY Number, Zenon
<1>2. Range16(q) = a \o b
  BY Zenon DEF Range16
<1>3. /\ Numbered(q.start, Numbered(q.end, <<>>)) = a \o (b \o <<>>)
      /\ Numbered(q.start, Numbered(q.end, rest)) = a \o (b \o rest)
  BY Zenon DEF Numbered
<1> HIDE DEF a, b
<1>4. b \o <<>> = b
  BY <1>1, ConcatEmptySeq, Zenon
<1>5. (a \o b) \o rest = a \o (b \o rest)
  BY <1>1, ThreeInARow, Zenon
<1>6. a \o b \in Seq(Int)
  BY <1>1, Concat, Zenon
<1>7. QED
  BY <1>2, <1>3, <1>4, <1>5, <1>6, Zenon

-----------------------------------------------------------------------------
(***************************************************************************)
(* Each packet means what was asked.                                       *)
(***************************************************************************)
\* ExchangeMTU, Read, Write and WriteCommand.
LEMMA SingleMeant ==
    ASSUME NEW q \in Question,
           q.op \in {"ExchangeMTU", "Read", "Write", "WriteCommand"}
    PROVE  Meant(q, RequestPacket(q))
<1> DEFINE o == OpcodeOf[q.op]
<1> DEFINE p == RequestPacket(q)
<1>1. o \in Int /\ Word(q.start) /\ q.value \in Seq(Int)
  BY Opcodes, QuestionShape
<1>2. RequestBody(q) = Numbered(q.start, q.value)
  <2>1. write_le(q.start) \in Seq(Int)
    BY <1>1, Number, Zenon
  <2>2. write_le(q.start) \o <<>> = write_le(q.start)
    BY <2>1, ConcatEmptySeq, Zenon
  <2>3. CASE q.op \in {"ExchangeMTU", "Read"}
    <3>1. q.value = <<>>
      BY <2>3, QuestionShape
    <3>2. Numbered(q.start, q.value) = write_le(q.start)
      BY <2>2, <3>1, Zenon DEF Numbered
    <3>3. RequestBody(q) = write_le(q.start)
      BY <2>3, Zenon DEF RequestBody
    <3>4. QED
      BY <3>2, <3>3, Zenon
  <2>4. CASE q.op \in {"Write", "WriteCommand"}
    BY <2>4, Zenon DEF RequestBody, Numbered
  <2>5. QED
    BY <2>3, <2>4
<1>3. p = Asked(o, q.start, q.value)
  BY <1>2, Zenon DEF RequestPacket, Asked
<1>4. AskedFor(p, o, q.start, q.value)
  BY <1>1, <1>3, OneNumberPacket, Zenon
<1> HIDE DEF o, p
<1>5. From(p, 4) = q.value
  <2>1. /\ p \in Seq(Int) /\ Len(p) = 3 + Len(q.value) /\ Len(q.value) \in Nat
        /\ \A i \in 1..Len(q.value) : p[3 + i] = q.value[i]
    BY <1>4 DEF AskedFor
  <2>2. 3 \in Nat /\ 3 + 1 = 4
    OBVIOUS
  <2>3. From(p, 3 + 1) = q.value
    BY <1>1, <2>1, <2>2, Rest, Zenon
  <2>4. QED
    BY <2>2, <2>3
<1>6. p[1] = OpcodeOf[q.op] /\ p[2] + 256 * p[2 + 1] = q.start
  BY <1>4 DEF AskedFor, WordAt, o
<1>7. q.op \notin Lists
  BY DEF Lists
<1>8. Meant(q, p)
  BY <1>5, <1>6, <1>7 DEF Meant
<1>9. QED
  BY <1>8 DEF p

LEMMA RangeMeant ==
    ASSUME NEW q \in Question, q.op = "FindInformation"
    PROVE  Meant(q, RequestPacket(q))
<1> DEFINE o == OpcodeOf[q.op]
<1> DEFINE p == RequestPacket(q)
<1>1. o \in Int /\ Word(q.start) /\ Word(q.end) /\ q.value = <<>> /\ <<>> \in Seq(Int)
  BY Opcodes, QuestionShape
<1>2. RequestBody(q) = Numbered(q.start, Numbered(q.end, <<>>))
  <2>1. RequestBody(q) = Range16(q)
    BY Zenon DEF RequestBody
  <2>2. QED
    BY <1>1, <2>1, Ranges, Zenon
<1>3. p = Asked(o, q.start, Numbered(q.end, <<>>))
  BY <1>2, Zenon DEF RequestPacket, Asked
<1>4. AskedForRange(p, o, q.start, q.end, <<>>)
  BY <1>1, <1>3, TwoNumbersPacket, Zenon
<1> HIDE DEF o, p
<1>5. From(p, 6) = q.value
  <2>1. p \in Seq(Int) /\ Len(p) = 5
    BY <1>4 DEF AskedForRange
  <2>2. SubSeq(p, 6, Len(p)) = <<>>
    BY <2>1
  <2>3. QED
    BY <1>1, <2>2 DEF From
<1>6. /\ p[1] = OpcodeOf[q.op] /\ p[2] + 256 * p[2 + 1] = q.start
      /\ p[4] + 256 * p[4 + 1] = q.end
  BY <1>4 DEF AskedForRange, WordAt, o
<1>7. q.op \in Lists /\ q.op \notin Lists \ {"FindInformation"}
  BY DEF Lists
<1>8. Meant(q, p)
  BY <1>5, <1>6, <1>7 DEF Meant
<1>9. QED
  BY <1>8 DEF p

LEMMA SixAndSeven ==
    ASSUME NEW p \in Seq(Int), 7 <= Len(p)
    PROVE  SubSeq(p, 6, 7) = <<p[6], p[7]>>
<1> DEFINE r == SubSeq(p, 6, 7)
<1>1. Len(p) \in Nat
  BY LenProperties
<1>2. r \in Seq(Int) /\ Len(r) = 2 /\ \A i \in 1..2 : r[i] = p[5 + i]
  BY <1>1
<1>3. p[6] \in Int /\ p[7] \in Int
  BY <1>1
<1> HIDE DEF r
<1>4. r[1] = p[6] /\ r[2] = p[7]
  BY <1>2
<1>5. r = <<p[6], p[7]>>
  BY <1>2, <1>3, <1>4, SeqEqual
<1>6. QED
  BY <1>5 DEF r

LEMMA BehindSeven ==
    ASSUME NEW p \in Seq(Int), Len(p) = 7
    PROVE  From(p, 8) = <<>>
BY DEF From

\* FindByTypeValue, ReadByType and ReadByGroupType.
LEMMA TypeMeant ==
    ASSUME NEW q \in Question,
           q.op \in {"FindByTypeValue", "ReadByType", "ReadByGroupType"}
    PROVE  Meant(q, RequestPacket(q))
<1> DEFINE o == OpcodeOf[q.op]
<1> DEFINE p == RequestPacket(q)
<1> DEFINE t == <<q.uuid[4], q.uuid[3]>>
<1>1. /\ o \in Int /\ Word(q.start) /\ Word(q.end)
      /\ q.uuid \in UUID /\ q.value \in Seq(Int)
      /\ q.op # "FindByTypeValue" => q.value = <<>>
  BY Opcodes, QuestionShape
<1>2. /\ t \in Seq(Int) /\ Len(t) = 2
      /\ Reverse(toUInt16Bytes(q.uuid)) = t
      /\ gatouuid_to_bytearray(q.uuid, TRUE, FALSE) = t
      /\ Spelled(q.uuid, 2) = t
  BY <1>1, Types, Zenon
<1>3. t = <<t[1], t[2]>>
  OBVIOUS
<1> HIDE DEF t
<1>4. ASSUME NEW rest \in Seq(Int),
             Len(rest) \in Nat, 2 <= Len(rest), rest[1] = t[1], rest[2] = t[2],
             q.op # "FindByTypeValue" => Len(rest) = 2,
             RequestBody(q) = Numbered(q.start, Numbered(q.end, rest))
      PROVE  Meant(q, RequestPacket(q))
  <2>1. p = Asked(o, q.start, Numbered(q.end, rest))
    BY <1>4, Zenon DEF RequestPacket, Asked
  <2>2. AskedForRange(p, o, q.start, q.end, rest)
    BY <1>1, <2>1, TwoNumbersPacket, Zenon
  <2> HIDE DEF o, p
  <2>3. p \in Seq(Int) /\ Len(p) = 5 + Len(rest) /\ p[6] = t[1] /\ p[7] = t[2]
    <3>1. 1 \in 1..Len(rest) /\ 2 \in 1..Len(rest) /\ 5 + 1 = 6 /\ 5 + 2 = 7
      BY <1>4
    <3>2. QED
      BY <1>4, <2>2, <3>1 DEF AskedForRange
  <2>4. SubSeq(p, 6, 7) = Spelled(q.uuid, 2)
    <3>1. Len(p) \in Nat /\ 7 <= Len(p)
      BY <1>4, <2>3
    <3>2. SubSeq(p, 6, 7) = <<p[6], p[7]>>
      BY <2>3, <3>1, SixAndSeven, Zenon
    <3>3. QED
      BY <1>2, <1>3, <2>3, <3>2, Zenon
  <2>5. q.op # "FindByTypeValue" => From(p, 8) = q.value
    <3>1. SUFFICES ASSUME q.op # "FindByTypeValue"
                   PROVE  From(p, 8) = <<>>
      BY <1>1
    <3>2. Len(p) = 7
      <4>1. Len(rest) = 2
        BY <1>4, <3>1, Zenon
      <4>2. Len(p) = 5 + Len(rest)
        BY <2>3, Zenon
      <4>3. QED
        BY <4>1, <4>2
    <3>3. QED
      BY <2>3, <3>2, BehindSeven, Zenon
  <2>6. /\ p[1] = OpcodeOf[q.op] /\ p[2] + 256 * p[2 + 1] = q.start
        /\ p[4] + 256 * p[4 + 1] = q.end
    BY <2>2 DEF AskedForRange, WordAt, o
  <2>7. q.op \in Lists /\ q.op \in Lists \ {"FindInformation"}
    BY DEF Lists
  <2>8. Meant(q, p)
    BY <2>4, <2>5, <2>6, <2>7 DEF Meant
  <2>9. QED
    BY <2>8 DEF p
<1>5. CASE q.op \in {"ReadByType", "ReadByGroupType"}
  <2>1. RequestBody(q) = Range16(q) \o gatouuid_to_bytearray(q.uuid, TRUE, FALSE)
    BY <1>5, Zenon DEF RequestBody
  <2>2. RequestBody(q) = Numbered(q.start, Numbered(q.end, t))
    BY <1>1, <1>2, <2>1, Ranges, Zenon
  <2>3. Len(t) \in Nat /\ 2 <= Len(t)
    BY <1>2
  <2>4. QED
    BY <1>2, <1>4, <2>2, <2>3, Zenon
<1>6. CASE q.op = "FindByTypeValue"
  <2> DEFINE v == Streamed(q.value)
  <2>1. RequestBody(q) = (Range16(q) \o Reverse(toUInt16Bytes(q.uuid))) \o v
    BY <1>6, Zenon DEF RequestBody
  <2>2. v \in Seq(Int)
    BY <1>1, StreamedIsSeq, Zenon
  <2> HIDE DEF v
  <2>3. /\ t \o v \in Seq(Int) /\ Len(t \o v) = 2 + Len(v)
        /\ (t \o v)[1] = t[1] /\ (t \o v)[2] = t[2]
    <3>1. /\ t \o v \in Seq(Int) /\ Len(t \o v) = Len(t) + Len(v)
          /\ \A i \in 1..Len(t) : (t \o v)[i] = t[i]
      BY <1>2, <2>2, Concat, Zenon
    <3>2. 1 \in 1..Len(t) /\ 2 \in 1..Len(t)
      BY <1>2
    <3>3. QED
      BY <1>2, <3>1, <3>2, Zenon
  <2>4. Len(t \o v) \in Nat /\ 2 <= Len(t \o v)
    <3>1. Len(v) \in Nat
      BY <2>2, LenProperties
    <3> DEFINE l == Len(t \o v)
    <3>2. l = 2 + Len(v)
      BY <2>3
    <3> HIDE DEF l
    <3>3. l \in Nat /\ 2 <= l
      BY <3>1, <3>2
    <3>4. QED
      BY <3>3 DEF l
  <2>5. RequestBody(q) = Numbered(q.start, Numbered(q.end, t \o v))
    <3>1. Range16(q) \in Seq(Int)
      BY <1>1, <1>2, Ranges, Zenon
    <3>2. RequestBody(q) = Range16(q) \o (t \o v)
      <4> DEFINE r == Range16(q)
      <4>1. RequestBody(q) = (r \o t) \o v
        BY <1>2, <2>1, Zenon
      <4>2. r \in Seq(Int) /\ t \in Seq(Int)
        BY <1>2, <3>1
      <4> HIDE DEF r
      <4>3. (r \o t) \o v = r \o (t \o v)
        BY <2>2, <4>2, ThreeInARow, Zenon
      <4>4. RequestBody(q) = r \o (t \o v)
        BY <4>1, <4>3, Zenon
      <4>5. QED
        BY <4>4 DEF r
    <3>3. QED
      BY <1>1, <2>3, <3>2, Ranges, Zenon
  <2>6. QED
    BY <1>4, <1>6, <2>3, <2>4, <2>5, Zenon
<1>7. QED
  BY <1>5, <1>6

LEMMA RequestsAreMeant ==
    ASSUME NEW q \in Question
    PROVE  Meant(q, RequestPacket(q))
BY QuestionShape, SingleMeant, RangeMeant, TypeMeant

-----------------------------------------------------------------------------
(***************************************************************************)
(* The packet sent is that of the question, until an event takes its place.*)
(***************************************************************************)
PacketInv == sent # <<>> => question \in Question /\ sent = RequestPacket(question)

LEMMA FirstQuestion == Q("ExchangeMTU", ATT_MAX_LE_MTU, 0, NullUUID, <<>>) \in Question
BY DEF Question

LEMMA PacketInvariant == Spec => []PacketInv
<1>1. Init => PacketInv
  BY FirstQuestion, Zenon DEF Init, PacketInv
<1>2. PacketInv /\ [Next]_vars => PacketInv'
  <2> SUFFICES ASSUME PacketInv, [Next]_vars
               PROVE  PacketInv'
    OBVIOUS
  <2>1. ASSUME NEW q \in Question, Ask(q)
        PROVE  PacketInv'
    BY <2>1, Zenon DEF Ask, PacketInv
  <2>2. ASSUME NEW item, ServerPacks(item)
        PROVE  PacketInv'
    BY <2>2, Zenon DEF ServerPacks, PacketInv
  <2>3. CASE ClientReads
    BY <2>3, Zenon DEF ClientReads, PacketInv
  <2>4. CASE CallbackReturns
    BY <2>4, Zenon DEF CallbackReturns, PacketInv
  <2>5. ASSUME NEW item, ClientIsNotified(item)
        PROVE  PacketInv'
    BY <2>5, Zenon DEF ClientIsNotified, PacketInv
  <2>6. CASE UNCHANGED vars
    BY <2>6, Zenon DEF vars, PacketInv
  <2>7. QED
    BY <2>1, <2>2, <2>3, <2>4, <2>5, <2>6, Zenon DEF Next
<1>3. QED
  BY <1>1, <1>2, PTL DEF Spec

(***************************************************************************)
(* Whatever the client asks, for whatever handles, types and values, the   *)
(* server reads in the packet that request...() of gatoattclient.cpp has   *)
(* put together, excepting the value of FindByTypeValue (line 179), which  *)
(* has its length in front.                                                *)
(***************************************************************************)
THEOREM QuestionsAlwaysUnderstood == Spec => []QuestionsAreUnderstood
<1>1. PacketInv => QuestionsAreUnderstood
  BY RequestsAreMeant, Zenon DEF PacketInv, QuestionsAreUnderstood
<1>2. QED
  BY <1>1, PacketInvariant, PTL

-----------------------------------------------------------------------------
(***************************************************************************)
(* Items cut off the packet again.                                         *)
(***************************************************************************)
LEMMA QuotientOfProduct == \A a, b \in Nat : a # 0 => (a * b) \div a = b
OBVIOUS

LEMMA PieceOfItems ==
    ASSUME NEW S, NEW list \in Seq(S), NEW item \in Seq(S), NEW a \in Nat, NEW size \in Nat,
           Len(item) = size, a + size <= Len(list),
           \A k \in 1..size : list[a + k] = item[k]
    PROVE  SubSeq(list, a + 1, a + size) = item
<1> DEFINE r == SubSeq(list, a + 1, a + size)
<1>0. Len(list) \in Nat
  BY LenProperties
<1>1. r \in Seq(S) /\ Len(r) = size /\ \A k \in 1..size : r[k] = list[a + k]
  BY <1>0
<1> HIDE DEF r
<1>2. r = item
  BY <1>1, SeqEqual
<1>3. QED
  BY <1>2 DEF r

LEMMA PiecesOfItems ==
    ASSUME NEW S, NEW s \in Seq(Seq(S)), NEW list \in Seq(S), NEW size \in 1..127,
           Itemised(list, s, size, Len(s)), \A i \in 1..Len(s) : Len(s[i]) = size
    PROVE  Pieces(list, size) = s
<1> DEFINE m == Len(s)
<1>1. m \in Nat /\ size \in Nat \ {0}
  BY LenProperties
<1>2. Len(list) = size * m
  BY DEF Itemised
<1>3. Len(list) \div size = m
  BY <1>1, <1>2, QuotientOfProduct
<1>4. Pieces(list, size) =
          [i \in 1..(Len(list) \div size) |-> SubSeq(list, size * (i - 1) + 1, size * i)]
  BY DEF Pieces
<1>5. ASSUME NEW i \in 1..m
      PROVE  SubSeq(list, size * (i - 1) + 1, size * i) = s[i]
  <2>1. PICK p \in Nat : i = p + 1 /\ i - 1 = p
    <3>1. i - 1 \in Nat /\ i = (i - 1) + 1
      BY <1>1
    <3>2. QED
      BY <3>1
  <2>2. PICK a \in Nat : a = size * p /\ size * i = a + size
    BY <1>1, <2>1, OneItemMore
  <2>3. a + size <= Len(list)
    <3>1. size \in 1..size
      BY <1>1
    <3>2. size * (i - 1) + size \in 1..(size * m)
      BY <1>1, <3>1, PlaceOfItem
    <3>3. a + size \in 1..Len(list)
      BY <1>2, <2>1, <2>2, <3>2
    <3>4. QED
      BY <3>3
  <2>4. \A k \in 1..size : list[a + k] = s[i][k]
    BY <2>1, <2>2 DEF Itemised
  <2>5. s[i] \in Seq(S) /\ Len(s[i]) = size
    BY ElementOfSeq
  <2>6. SubSeq(list, a + 1, a + size) = s[i]
    BY <1>1, <2>3, <2>4, <2>5, PieceOfItems, Zenon
  <2>7. QED
    BY <2>1, <2>2, <2>6
<1>6. s = [i \in 1..m |-> s[i]]
  BY SeqDef
<1>7. QED
  BY <1>3, <1>4, <1>5, <1>6

-----------------------------------------------------------------------------
(***************************************************************************)
(* The numbers and UUIDs of the server.                                    *)
(***************************************************************************)
LEMMA ServersNumber ==
    ASSUME NEW n, Word(n)
    PROVE  Le(n) = write_le(n) /\ Le(n) \in Seq(Byte) /\ Len(Le(n)) = 2
<1>1. n \in Int /\ 0 <= n /\ n <= 65535
  BY DEF Word
<1>2. (n \div 256) % 256 = n \div 256
  BY <1>1, TwoBytes
<1>3. Le(n) = write_le(n)
  BY <1>2 DEF Le, write_le
<1>4. QED
  BY <1>1, <1>3, NumberSurvives

LEMMA ShortIsRead ==
    ASSUME NEW u \in UUID
    PROVE  /\ Short(u) \in Seq(Byte) /\ Len(Short(u)) \in {2, 16}
           /\ bytearray_to_gatouuid(Short(u)) = u
<1>1. CASE minimumSize(u) = 2
  <2>1. HasSpelling(u, 2)
    BY <1>1 DEF HasSpelling, minimumSize
  <2>2. QED
    BY <1>1, <2>1, SpelledType, SpellingsAreRead DEF Short
<1>2. CASE minimumSize(u) # 2
  <2>1. HasSpelling(u, 16)
    BY DEF HasSpelling
  <2>2. QED
    BY <1>2, <2>1, SpelledType, SpellingsAreRead DEF Short
<1>3. QED
  BY <1>1, <1>2

\* A number in front: read_le() finds it, mid(2) what follows.
LEMMA NumberIsRead ==
    ASSUME NEW n, Word(n), NEW rest \in Seq(Byte)
    PROVE  /\ Numbered(n, rest) \in Seq(Byte) /\ Len(Numbered(n, rest)) = 2 + Len(rest)
           /\ read_le(Numbered(n, rest)) = n
           /\ From(Numbered(n, rest), 3) = rest
           /\ \A i \in 1..Len(rest) : Numbered(n, rest)[2 + i] = rest[i]
<1> DEFINE p == Numbered(n, rest)
<1>1. rest \in Seq(Int)
  BY BytesAreInts, Zenon
<1>2. /\ Len(p) = 2 + Len(rest) /\ WordAt(p, 1) = n /\ From(p, 3) = rest
      /\ \A i \in 1..Len(rest) : p[2 + i] = rest[i]
  BY <1>1, NumberFirst, Zenon
<1>3. p \in Seq(Byte)
  <2>1. write_le(n) \in Seq(Byte)
    BY ServersNumber, Zenon
  <2>2. QED
    BY <2>1, ConcatProperties, Zenon DEF Numbered
<1> HIDE DEF p
<1>4. read_le(p) = n
  BY <1>2 DEF WordAt, read_le
<1>5. /\ p \in Seq(Byte) /\ Len(p) = 2 + Len(rest)
      /\ read_le(p) = n /\ From(p, 3) = rest
      /\ \A i \in 1..Len(rest) : p[2 + i] = rest[i]
  BY <1>2, <1>3, <1>4, Zenon
<1>6. QED
  BY <1>5, Zenon DEF p

\* The same of two numbers.
LEMMA NumbersAreRead ==
    ASSUME NEW m, Word(m), NEW n, Word(n), NEW rest \in Seq(Byte),
           NEW b
    PROVE  b = Numbered(m, Numbered(n, rest)) =>
               /\ b \in Seq(Byte) /\ Len(b) = 4 + Len(rest)
               /\ read_le(b) = m /\ read_le(From(b, 3)) = n
               /\ From(b, 5) = rest
<1> SUFFICES ASSUME b = Numbered(m, Numbered(n, rest))
             PROVE  /\ b \in Seq(Byte) /\ Len(b) = 4 + Len(rest)
                    /\ read_le(b) = m /\ read_le(From(b, 3)) = n
                    /\ From(b, 5) = rest
  OBVIOUS
<1>1. PICK c \in Seq(Byte) :
          /\ c = Numbered(n, rest) /\ Len(c) = 2 + Len(rest) /\ read_le(c) = n
          /\ \A i \in 1..Len(rest) : c[2 + i] = rest[i]
  BY NumberIsRead
<1>2. /\ b \in Seq(Byte) /\ Len(b) = 2 + Len(c) /\ read_le(b) = m /\ From(b, 3) = c
      /\ \A i \in 1..Len(c) : b[2 + i] = c[i]
  BY <1>1, NumberIsRead
<1>3. Len(rest) \in Nat /\ Len(c) \in Nat
  BY <1>1, LenProperties
<1>4. Len(b) = 4 + Len(rest)
  BY <1>1, <1>2, <1>3
<1>5. \A i \in 1..Len(rest) : b[4 + i] = rest[i]
  <2>1. \A i \in 1..Len(rest) : 2 + i \in 1..Len(c) /\ 2 + (2 + i) = 4 + i
    BY <1>1, <1>3
  <2>2. QED
    BY <1>1, <1>2, <2>1
<1>6. From(b, 4 + 1) = rest
  <2>1. b \in Seq(Int) /\ rest \in Seq(Int) /\ 4 \in Nat
    BY <1>2, BytesAreInts
  <2>2. QED
    BY <1>3, <1>4, <1>5, <2>1, Rest, Zenon
<1>7. 4 + 1 = 5
  OBVIOUS
<1>8. QED
  BY <1>1, <1>2, <1>4, <1>6, <1>7, Zenon

\* A byte in front.
Led(x, rest) == <<x>> \o rest

LEMMA ByteFirst ==
    ASSUME NEW x \in Byte, NEW rest \in Seq(Byte)
    PROVE  /\ Led(x, rest) \in Seq(Byte) /\ Len(Led(x, rest)) = 1 + Len(rest)
           /\ Led(x, rest)[1] = x
           /\ \A i \in 1..Len(rest) : Led(x, rest)[1 + i] = rest[i]
           /\ From(Led(x, rest), 2) = rest /\ Tail(Led(x, rest)) = rest
<1> DEFINE c == Led(x, rest)
<1>1. x \in Int /\ rest \in Seq(Int)
  BY BytesAreInts DEF Byte
<1>2. c = <<x>> \o rest
  BY Zenon DEF Led
<1>3. /\ Len(<<x>> \o rest) = 1 + Len(rest) /\ (<<x>> \o rest)[1] = x
      /\ \A i \in 1..Len(rest) : (<<x>> \o rest)[1 + i] = rest[i]
  BY <1>1, OpcodeFirst, Zenon
<1>4. <<x>> \o rest \in Seq(Byte)
  <2>1. <<x>> \in Seq(Byte)
    OBVIOUS
  <2>2. QED
    BY <2>1, ConcatProperties, Zenon
<1> HIDE DEF c
<1>5. /\ c \in Seq(Byte) /\ Len(c) = 1 + Len(rest) /\ c[1] = x
      /\ \A i \in 1..Len(rest) : c[1 + i] = rest[i]
  BY <1>2, <1>3, <1>4, Zenon
<1>6. Len(rest) \in Nat
  BY LenProperties
<1>7. From(c, 1 + 1) = rest
  <2>1. c \in Seq(Int) /\ 1 \in Nat
    BY <1>5, BytesAreInts
  <2>2. QED
    BY <1>1, <1>5, <1>6, <2>1, Rest, Zenon
<1>8. Tail(c) = From(c, 2)
  BY ONLY <1>5, <1>6 DEF From
<1>9. 1 + 1 = 2
  OBVIOUS
<1>10. /\ c \in Seq(Byte) /\ Len(c) = 1 + Len(rest) /\ c[1] = x
       /\ \A i \in 1..Len(rest) : c[1 + i] = rest[i]
       /\ From(c, 2) = rest /\ Tail(c) = rest
  BY <1>5, <1>7, <1>8, <1>9, Zenon
<1>11. QED
  BY <1>10, Zenon DEF c

Associate(a, b, c) == (a \o b) \o c = a \o (b \o c)

LEMMA BytesAssociate ==
    ASSUME NEW a \in Seq(Byte), NEW b \in Seq(Byte), NEW c \in Seq(Byte)
    PROVE  Associate(a, b, c) /\ a \o b \in Seq(Byte)
<1>1. (a \o b) \o c = a \o (b \o c)
  BY ConcatAssociative
<1>2. a \o b \in Seq(Byte)
  BY ConcatProperties, Zenon
<1>3. QED
  BY <1>1, <1>2, Zenon DEF Associate

-----------------------------------------------------------------------------
(***************************************************************************)
(* The items of each kind: their lengths, and what is read in them.        *)
(***************************************************************************)
LEMMA ItemUuidsAreUuids == \A u \in ItemUuid : u \in UUID
BY PduAssumption

LEMMA Lengths ==
    ASSUME NEW l \in {2, 16}
    PROVE  2 + l \in {4, 18} /\ 4 + l \in {6, 20} /\ 2 + (1 + (2 + l)) \in {7, 21}
OBVIOUS

LEMMA InformationItem ==
    ASSUME NEW item \in [handle : Handle, uuid : ItemUuid],
           NEW b, b = ItemBytes("FindInformation", item)
    PROVE  /\ b \in Seq(Byte) /\ Len(b) \in {4, 18}
           /\ read_le(b) = item.handle
           /\ bytearray_to_gatouuid(From(b, 3)) = item.uuid
<1>1. Word(item.handle) /\ item.uuid \in UUID
  BY HandlesAreWords, ItemUuidsAreUuids
<1>2. PICK u \in Seq(Byte) :
          /\ u = Short(item.uuid)
          /\ Len(u) \in {2, 16} /\ bytearray_to_gatouuid(u) = item.uuid
  BY <1>1, ShortIsRead
<1>3. b = Numbered(item.handle, u)
  <2>1. Le(item.handle) = write_le(item.handle)
    BY <1>1, ServersNumber
  <2>2. b = Le(item.handle) \o Short(item.uuid)
    BY Zenon DEF ItemBytes
  <2>3. QED
    BY <1>2, <2>1, <2>2, Zenon DEF Numbered
<1>4. /\ b \in Seq(Byte) /\ Len(b) = 2 + Len(u)
      /\ read_le(b) = item.handle /\ From(b, 3) = u
  BY ONLY <1>1, <1>2, <1>3, NumberIsRead
<1>5. QED
  BY <1>2, <1>4, Lengths, Zenon

LEMMA GroupItem ==
    ASSUME NEW item \in [start : Handle, end : Handle, uuid : ItemUuid],
           NEW b, b = ItemBytes("ReadByGroupType", item)
    PROVE  /\ b \in Seq(Byte) /\ Len(b) \in {6, 20}
           /\ read_le(b) = item.start /\ read_le(From(b, 3)) = item.end
           /\ bytearray_to_gatouuid(From(b, 5)) = item.uuid
<1>1. Word(item.start) /\ Word(item.end) /\ item.uuid \in UUID
  BY HandlesAreWords, ItemUuidsAreUuids
<1>2. PICK u \in Seq(Byte) :
          /\ u = Short(item.uuid)
          /\ Len(u) \in {2, 16} /\ bytearray_to_gatouuid(u) = item.uuid
  BY <1>1, ShortIsRead
<1>3. b = Numbered(item.start, Numbered(item.end, u))
  <2> DEFINE m == Le(item.start)
             n == Le(item.end)
  <2>1. /\ m = write_le(item.start) /\ m \in Seq(Byte)
        /\ n = write_le(item.end) /\ n \in Seq(Byte)
    BY <1>1, ServersNumber
  <2>2. b = (m \o n) \o Short(item.uuid)
    BY Zenon DEF ItemBytes
  <2> HIDE DEF m, n
  <2>3. (m \o n) \o u = m \o (n \o u)
    <3>1. Associate(m, n, u)
      BY <2>1, BytesAssociate
    <3>2. QED
      BY <3>1, Zenon DEF Associate
  <2>4. QED
    BY <1>2, <2>1, <2>2, <2>3, Zenon DEF Numbered
<1>4. /\ b \in Seq(Byte) /\ Len(b) = 4 + Len(u)
      /\ read_le(b) = item.start /\ read_le(From(b, 3)) = item.end /\ From(b, 5) = u
  <2>1. Word(item.start) /\ Word(item.end) /\ u \in Seq(Byte)
    BY <1>1
  <2>2. QED
    BY ONLY <1>3, <2>1, NumbersAreRead
<1>5. QED
  BY <1>2, <1>4, Lengths, Zenon

LEMMA RangeItem ==
    ASSUME NEW item \in [start : Handle, end : Handle],
           NEW b, b = ItemBytes("FindByTypeValue", item)
    PROVE  /\ b \in Seq(Byte) /\ Len(b) = 4
           /\ b[1] + 256 * b[2] = item.start
           /\ b[3] + 256 * b[4] = item.end
<1>1. Word(item.start) /\ Word(item.end)
  BY HandlesAreWords
<1>2. PICK n \in Seq(Byte) :
          n = write_le(item.end) /\ Len(n) = 2 /\ WordAt(n, 1) = item.end
  BY <1>1, ServersNumber, Number
<1>3. b = Numbered(item.start, n)
  <2>1. Le(item.start) = write_le(item.start) /\ Le(item.end) = write_le(item.end)
    BY <1>1, ServersNumber
  <2>2. b = Le(item.start) \o Le(item.end)
    BY Zenon DEF ItemBytes
  <2>3. QED
    BY <1>2, <2>1, <2>2, Zenon DEF Numbered
<1>4. /\ b \in Seq(Byte) /\ Len(b) = 2 + Len(n) /\ read_le(b) = item.start
      /\ \A i \in 1..Len(n) : b[2 + i] = n[i]
  BY ONLY <1>1, <1>2, <1>3, NumberIsRead
<1>5. b[3] = n[1] /\ b[4] = n[2]
  BY ONLY <1>2, <1>4
<1>6. QED
  BY ONLY <1>2, <1>4, <1>5 DEF read_le, WordAt

LEMMA CharacteristicItem ==
    ASSUME NEW item \in [handle : Handle, char : Characteristic],
           NEW b, b = ItemBytes("ReadByType", item)
    PROVE  /\ b \in Seq(Byte) /\ Len(b) \in {7, 21}
           /\ read_le(b) = item.handle
           /\ parseCharacteristicValue(From(b, 3)) = item.char
<1> DEFINE char == item.char
           x == char.properties
<1>1. /\ Word(item.handle) /\ Word(char.valueHandle) /\ char.uuid \in UUID
      /\ x \in {2, 144} /\ char \in Characteristic
  BY HandlesAreWords, ItemUuidsAreUuids DEF Characteristic
<1>2. PICK u \in Seq(Byte) :
          /\ u = Short(char.uuid)
          /\ Len(u) \in {2, 16} /\ bytearray_to_gatouuid(u) = char.uuid
  BY <1>1, ShortIsRead
<1>3. PICK d \in Seq(Byte) : 
          /\ d = Numbered(char.valueHandle, u) /\ Len(d) = 2 + Len(u)
          /\ read_le(d) = char.valueHandle /\ \A i \in 1..Len(u) : d[2 + i] = u[i]
  BY <1>1, <1>2, NumberIsRead
<1>4. PICK c \in Seq(Byte) :
          /\ c = Led(x, d) /\ Len(c) = 1 + Len(d) /\ c[1] = x /\ From(c, 2) = d
          /\ \A i \in 1..Len(d) : c[1 + i] = d[i]
  <2>1. x \in Byte
    BY <1>1 DEF Byte
  <2>2. QED
    BY <2>1, ByteFirst
<1>5. b = Numbered(item.handle, c)
  <2>1. PICK h \in Seq(Byte) : h = Le(item.handle) /\ h = write_le(item.handle)
    BY <1>1, ServersNumber
  <2>2. PICK v \in Seq(Byte) : v = Le(char.valueHandle) /\ v = write_le(char.valueHandle)
    BY <1>1, ServersNumber
  <2>3. PICK p \in Seq(Byte) : p = <<x>>
    <3>1. x \in Byte
      BY <1>1 DEF Byte
    <3>2. <<x>> \in Seq(Byte)
      BY <3>1
    <3>3. QED
      BY <3>2, Zenon
  <2>4. b = ((h \o p) \o v) \o u
    <3>1. b = ((Le(item.handle) \o <<x>>) \o Le(char.valueHandle)) \o Short(char.uuid)
      BY Zenon DEF ItemBytes
    <3>2. QED
      BY <1>2, <2>1, <2>2, <2>3, <3>1, Zenon
  <2>5. PICK a \in Seq(Byte) : a = h \o p
    BY BytesAssociate
  <2>6. Associate(a, v, u) /\ Associate(h, p, d)
    BY BytesAssociate
  <2>7. d = v \o u
    BY <1>3, <2>2, Zenon DEF Numbered
  <2>8. c = p \o d
    BY <1>4, <2>3, Zenon DEF Led
  <2>9. b = h \o c
    BY <2>4, <2>5, <2>6, <2>7, <2>8, Zenon DEF Associate
  <2>10. QED
    BY <2>1, <2>9, Zenon DEF Numbered
<1>6. b \in Seq(Byte) /\ Len(b) = 2 + Len(c) /\ read_le(b) = item.handle /\ From(b, 3) = c
  BY ONLY <1>1, <1>4, <1>5, NumberIsRead
<1>7. Len(u) \in Nat /\ Len(d) \in Nat
  BY LenProperties
<1>8. From(c, 3 + 1) = u
  <2>1. c \in Seq(Int) /\ u \in Seq(Int) /\ 3 \in Nat
    BY BytesAreInts
  <2>2. Len(c) = 3 + Len(u)
    BY ONLY <1>3, <1>4, <1>7
  <2>3. \A i \in 1..Len(u) : 2 + i \in 1..Len(d) /\ 1 + (2 + i) = 3 + i
    BY ONLY <1>3, <1>7
  <2>4. \A i \in 1..Len(u) : c[3 + i] = u[i]
    BY ONLY <1>3, <1>4, <2>3
  <2>5. QED
    BY <1>7, <2>1, <2>2, <2>4, Rest, Zenon
<1>9. parseCharacteristicValue(c) = char
  <2>1. 3 + 1 = 4
    OBVIOUS
  <2>2. From(c, 4) = u
    BY <1>8, <2>1, Zenon
  <2>3. parseCharacteristicValue(c) =
            [properties |-> x, valueHandle |-> char.valueHandle, uuid |-> char.uuid]
    BY <1>2, <1>3, <1>4, <2>2, Zenon DEF parseCharacteristicValue
  <2>4. char = [properties |-> x, valueHandle |-> char.valueHandle, uuid |-> char.uuid]
    BY <1>1 DEF Characteristic
  <2>5. QED
    BY ONLY <2>3, <2>4, Zenon
<1>10. Len(b) \in {7, 21}
  <2>1. Len(b) = 2 + (1 + (2 + Len(u)))
    BY <1>3, <1>4, <1>6, Zenon
  <2>2. QED
    BY <1>2, <2>1, Lengths, Zenon
<1>11. QED
  BY <1>6, <1>9, <1>10, Zenon

-----------------------------------------------------------------------------
(***************************************************************************)
(* Answers, taken apart: an opcode, the length of the items or a code for  *)
(* it, and the items.                                                      *)
(***************************************************************************)
AnswerOps == {"ExchangeMTU", "FindInformation", "FindByTypeValue", "ReadByType",
              "ReadByGroupType", "Read", "Notification"}

Bytes(op, items) == [i \in DOMAIN items |-> ItemBytes(op, items[i])]

LEMMA ResponseOpcodes == \A op \in AnswerOps : ResponseOpcode(op) \in Byte
BY DEF AnswerOps, ResponseOpcode, OpcodeOf, Byte

LEMMA PackedBody ==
    ASSUME NEW op \in AnswerOps, NEW items, NEW h \in Seq(Byte), NEW list \in Seq(Byte),
           h = Header(op, Len(ItemBytes(op, items[1]))),
           list = FlattenSeq(Bytes(op, items))
    PROVE  /\ Tail(Packed(op, items)) = h \o list
           /\ Packed(op, items) \in Seq(Byte)
<1>1. PICK x \in Byte : x = ResponseOpcode(op)
  BY ResponseOpcodes
<1>2. PICK o \in Seq(Byte) : o = <<x>>
  <2>1. <<x>> \in Seq(Byte)
    OBVIOUS
  <2>2. QED
    BY <2>1, Zenon
<1>3. Packed(op, items) = (o \o h) \o list
  BY <1>1, <1>2, Zenon DEF Packed, Bytes
<1>4. PICK body \in Seq(Byte) : body = h \o list
  BY BytesAssociate
<1>5. Associate(o, h, list)
  BY BytesAssociate
<1>6. Packed(op, items) = Led(x, body)
  BY <1>2, <1>3, <1>4, <1>5, Zenon DEF Associate, Led
<1>7. Led(x, body) \in Seq(Byte) /\ Tail(Led(x, body)) = body
  BY ByteFirst
<1>8. QED
  BY <1>4, <1>6, <1>7, Zenon

\* The items of an answer, of one length.
Uniform(op, items, size) ==
    /\ items \in Seq(ItemsOf(op)) /\ items # <<>>
    /\ \A i \in DOMAIN items :
          ItemBytes(op, items[i]) \in Seq(Byte) /\ Len(ItemBytes(op, items[i])) = size

LEMMA UniformBytes ==
    ASSUME NEW op, NEW items, NEW size \in Nat \ {0}, Uniform(op, items, size)
    PROVE  /\ Bytes(op, items) \in Seq(Seq(Byte))
           /\ Len(Bytes(op, items)) = Len(items)
           /\ DOMAIN Bytes(op, items) = DOMAIN items
           /\ \A i \in 1..Len(items) :
                 Bytes(op, items)[i] = ItemBytes(op, items[i]) /\ Len(Bytes(op, items)[i]) = size
           /\ Len(ItemBytes(op, items[1])) = size
           /\ FlattenSeq(Bytes(op, items)) \in Seq(Byte)
           /\ Itemised(FlattenSeq(Bytes(op, items)), Bytes(op, items), size, Len(items))
<1> DEFINE s == Bytes(op, items)
<1>1. items \in Seq(ItemsOf(op)) /\ items # <<>> /\ DOMAIN items = 1..Len(items)
      /\ Len(items) \in Nat /\ 1 \in 1..Len(items)
  <2>1. items \in Seq(ItemsOf(op)) /\ items # <<>>
    BY DEF Uniform
  <2>2. DOMAIN items = 1..Len(items) /\ Len(items) \in Nat
    BY <2>1, LenProperties
  <2>3. 1 \in 1..Len(items)
    BY <2>1, <2>2, EmptySeq
  <2>4. QED
    BY <2>1, <2>2, <2>3
<1>2. \A i \in 1..Len(items) :
          ItemBytes(op, items[i]) \in Seq(Byte) /\ Len(ItemBytes(op, items[i])) = size
  BY <1>1 DEF Uniform
<1>3. s = [i \in 1..Len(items) |-> ItemBytes(op, items[i])]
  BY <1>1, Zenon DEF Bytes
<1>4. s \in [1..Len(items) -> Seq(Byte)]
  BY <1>2, <1>3
<1>5. /\ s \in Seq(Seq(Byte)) /\ Len(s) = Len(items) /\ DOMAIN s = DOMAIN items
      /\ \A i \in 1..Len(items) : s[i] = ItemBytes(op, items[i]) /\ Len(s[i]) = size
  <2>1. s \in Seq(Seq(Byte))
    BY <1>1, <1>4, SeqDef
  <2>2. DOMAIN s = 1..Len(items)
    BY <1>3
  <2>3. Len(s) = Len(items)
    BY <1>1, <2>1, <2>2, LenProperties
  <2>4. \A i \in 1..Len(items) : s[i] = ItemBytes(op, items[i])
    BY <1>3
  <2>5. QED
    BY <1>1, <1>2, <2>1, <2>2, <2>3, <2>4, Zenon
<1> HIDE DEF s
<1>6. FlattenSeq(s) \in Seq(Byte)
  BY <1>5, FlattenType
<1>7. Itemised(FlattenSeq(s), s, size, Len(s))
  BY <1>5, FlattenItems
<1>8. Itemised(FlattenSeq(s), s, size, Len(items))
  BY <1>5, <1>7, Zenon
<1>9. Len(ItemBytes(op, items[1])) = size
  BY <1>1, <1>2
<1>10. QED
  BY <1>5, <1>6, <1>8, <1>9, Zenon DEF s

\* With a byte in front of the items, the client cuts them off again.
LEMMA HeadedItems ==
    ASSUME NEW op \in AnswerOps, NEW items, NEW size \in 1..127, Uniform(op, items, size),
           NEW code \in Byte, Header(op, size) = <<code>>,
           NEW ba, ba = Tail(Packed(op, items))
    PROVE  ba[1] = code /\ Pieces(Tail(ba), size) = Bytes(op, items)
<1>1. size \in Nat \ {0}
  OBVIOUS
<1>2. PICK s \in Seq(Seq(Byte)) :
          /\ s = Bytes(op, items) /\ Len(s) = Len(items)
          /\ \A i \in 1..Len(s) : Len(s[i]) = size
          /\ Len(ItemBytes(op, items[1])) = size
          /\ FlattenSeq(s) \in Seq(Byte) /\ Itemised(FlattenSeq(s), s, size, Len(s))
  BY <1>1, UniformBytes
<1>3. PICK list \in Seq(Byte) : list = FlattenSeq(s)
  BY <1>2
<1>4. PICK h \in Seq(Byte) : h = <<code>>
  <2>1. <<code>> \in Seq(Byte)
    OBVIOUS
  <2>2. QED
    BY <2>1, Zenon
<1>5. ba = h \o list
  <2>1. h = Header(op, Len(ItemBytes(op, items[1]))) /\ list = FlattenSeq(Bytes(op, items))
    BY <1>2, <1>3, <1>4, Zenon
  <2>2. Tail(Packed(op, items)) = h \o list
    BY <2>1, PackedBody, Zenon
  <2>3. QED
    BY <2>2, Zenon
<1>6. ba = Led(code, list)
  BY <1>4, <1>5, Zenon DEF Led
<1>7. ba[1] = code /\ Tail(ba) = list
  <2>1. Led(code, list)[1] = code /\ Tail(Led(code, list)) = list
    BY ByteFirst
  <2>2. QED
    BY <1>6, <2>1, Zenon
<1>8. Pieces(list, size) = s
  BY <1>2, <1>3, PiecesOfItems
<1>9. QED
  BY <1>2, <1>7, <1>8, Zenon

-----------------------------------------------------------------------------
(***************************************************************************)
(* What the client reads in each kind of answer.                           *)
(***************************************************************************)
LEMMA ItemsOfKinds ==
    /\ ItemsOf("ExchangeMTU") = [mtu : {23, Mtu}]
    /\ ItemsOf("FindInformation") = [handle : Handle, uuid : ItemUuid]
    /\ ItemsOf("FindByTypeValue") = [start : Handle, end : Handle]
    /\ ItemsOf("ReadByType") = [handle : Handle, char : Characteristic]
    /\ ItemsOf("ReadByGroupType") = [start : Handle, end : Handle, uuid : ItemUuid]
    /\ ItemsOf("Read") = [value : Value]
    /\ ItemsOf("Notification") = [handle : Handle, value : Value]
BY Zenon DEF ItemsOf

LEMMA SeqIsFunction ==
    ASSUME NEW S, NEW s \in Seq(S)
    PROVE  s = [i \in DOMAIN s |-> s[i]] /\ \A i \in DOMAIN s : s[i] \in S
<1>1. DOMAIN s = 1..Len(s) /\ s \in [1..Len(s) -> S]
  BY LenProperties
<1>2. QED
  BY <1>1

LEMMA UniformItems ==
    ASSUME NEW op, NEW items, NEW size, Uniform(op, items, size)
    PROVE  /\ items = [i \in DOMAIN items |-> items[i]]
           /\ \A i \in DOMAIN items : items[i] \in ItemsOf(op)
           /\ DOMAIN Bytes(op, items) = DOMAIN items
           /\ \A i \in DOMAIN items : Bytes(op, items)[i] = ItemBytes(op, items[i])
<1>1. items \in Seq(ItemsOf(op))
  BY DEF Uniform
<1>2. items = [i \in DOMAIN items |-> items[i]] /\ \A i \in DOMAIN items : items[i] \in ItemsOf(op)
  BY <1>1, SeqIsFunction
<1>3. DOMAIN Bytes(op, items) = DOMAIN items
      /\ \A i \in DOMAIN items : Bytes(op, items)[i] = ItemBytes(op, items[i])
  BY DEF Bytes
<1>4. QED
  BY <1>2, <1>3, Zenon

\* Two functions of the items that agree on each.
LEMMA InformationRead ==
    ASSUME NEW items, NEW size \in {4, 18}, Uniform("FindInformation", items, size),
           NEW ba, ba = Tail(Packed("FindInformation", items))
    PROVE  parseInformationData(ba) = items
<1> DEFINE op == "FindInformation"
           s == Bytes(op, items)
           code == IF size = 4 THEN 1 ELSE 2
<1>1. op \in AnswerOps /\ size \in 1..127 /\ code \in Byte
  BY DEF AnswerOps, Byte
<1>2. Header(op, size) = <<code>>
  BY Zenon DEF Header
<1> HIDE DEF op
<1>3. ba[1] = code /\ Pieces(Tail(ba), size) = s
  <2> HIDE DEF code, s
  <2>1. Uniform(op, items, size) /\ ba = Tail(Packed(op, items))
    BY DEF op
  <2>2. QED
    BY <1>1, <1>2, <2>1, HeadedItems DEF s
<1>4. 2 + (CASE ba[1] = 1 -> 2 [] ba[1] = 2 -> 16 [] OTHER -> -2) = size
  <2> HIDE DEF s
  <2>0. ba[1] = IF size = 4 THEN 1 ELSE 2
    BY <1>3, Zenon DEF code
  <2>1. CASE size = 4
    <3>1. ba[1] = 1 /\ ba[1] # 2 /\ 2 + 2 = size
      BY ONLY <2>0, <2>1
    <3>2. (CASE ba[1] = 1 -> 2 [] ba[1] = 2 -> 16 [] OTHER -> -2) = 2
      BY <3>1, Zenon
    <3>3. QED
      BY <3>1, <3>2, Zenon
  <2>2. CASE size = 18
    <3>1. ba[1] # 1 /\ ba[1] = 2 /\ 2 + 16 = size
      BY ONLY <2>0, <2>2
    <3>2. (CASE ba[1] = 1 -> 2 [] ba[1] = 2 -> 16 [] OTHER -> -2) = 16
      BY <3>1, Zenon
    <3>3. QED
      BY <3>1, <3>2, Zenon
  <2>3. QED
    BY <2>1, <2>2
<1> HIDE DEF code
<1>5. parseInformationData(ba) =
          [i \in DOMAIN s |->
              [handle |-> read_le(s[i]), uuid |-> bytearray_to_gatouuid(From(s[i], 3))]]
  BY <1>3, <1>4, Zenon DEF parseInformationData
<1>6. ASSUME NEW i \in DOMAIN items
      PROVE  [handle |-> read_le(s[i]), uuid |-> bytearray_to_gatouuid(From(s[i], 3))] = items[i]
  <2>1. s[i] = ItemBytes(op, items[i]) /\ items[i] \in ItemsOf(op)
    BY UniformItems DEF op
  <2>2. PICK item \in [handle : Handle, uuid : ItemUuid] :
            item = items[i] /\ s[i] = ItemBytes("FindInformation", item)
    BY <2>1, ItemsOfKinds, Zenon DEF op
  <2>3. read_le(s[i]) = item.handle /\ bytearray_to_gatouuid(From(s[i], 3)) = item.uuid
    <3> HIDE DEF s
    <3>1. QED
      BY <2>2, InformationItem, Zenon
  <2>4. item = [handle |-> item.handle, uuid |-> item.uuid]
    OBVIOUS
  <2>5. QED
    BY <2>2, <2>3, <2>4, Zenon
<1>7. DOMAIN s = DOMAIN items /\ items = [i \in DOMAIN items |-> items[i]]
  BY UniformItems DEF op
<1> HIDE DEF s
<1>8. QED
  BY <1>5, <1>6, <1>7, Zenon

LEMMA ServicesRead ==
    ASSUME NEW items, NEW size \in {6, 20}, Uniform("ReadByGroupType", items, size),
           NEW ba, ba = Tail(Packed("ReadByGroupType", items))
    PROVE  Services(ba) = items
<1> DEFINE op == "ReadByGroupType"
           s == Bytes(op, items)
           list == parseAttributeGroupData(ba)
           read(i) == [start |-> read_le(s[i]), end |-> read_le(From(s[i], 3)),
                       uuid |-> bytearray_to_gatouuid(From(s[i], 5))]
<1>1. op \in AnswerOps /\ size \in 1..127 /\ size \in Byte
  BY DEF AnswerOps, Byte
<1>2. Header(op, size) = <<size>>
  BY Zenon DEF Header
<1> HIDE DEF op
<1>3. ba[1] = size /\ Pieces(Tail(ba), size) = s
  <2> HIDE DEF s
  <2>1. Uniform(op, items, size) /\ ba = Tail(Packed(op, items))
    BY DEF op
  <2>2. QED
    BY <1>1, <1>2, <2>1, HeadedItems DEF s
<1>4. list = [i \in DOMAIN s |->
                 [start |-> read_le(s[i]), end |-> read_le(From(s[i], 3)),
                  value |-> From(s[i], 5)]]
  BY <1>3, Zenon DEF parseAttributeGroupData
<1>5. Services(ba) = [i \in DOMAIN s |-> read(i)]
  <2>1. Services(ba) =
            [i \in DOMAIN list |-> [start |-> list[i].start, end |-> list[i].end,
                                    uuid |-> bytearray_to_gatouuid(list[i].value)]]
    BY Zenon DEF Services
  <2> HIDE DEF list, s
  <2>2. /\ DOMAIN list = DOMAIN s
        /\ \A i \in DOMAIN s : /\ list[i].start = read_le(s[i])
                               /\ list[i].end = read_le(From(s[i], 3))
                               /\ list[i].value = From(s[i], 5)
    BY ONLY <1>4
  <2>3. QED
    BY <2>1, <2>2, Zenon
<1>6. ASSUME NEW i \in DOMAIN items PROVE read(i) = items[i]
  <2>1. s[i] = ItemBytes(op, items[i]) /\ items[i] \in ItemsOf(op)
    BY UniformItems DEF op
  <2>2. PICK item \in [start : Handle, end : Handle, uuid : ItemUuid] :
            item = items[i] /\ s[i] = ItemBytes("ReadByGroupType", item)
    BY <2>1, ItemsOfKinds, Zenon DEF op
  <2>3. /\ read_le(s[i]) = item.start /\ read_le(From(s[i], 3)) = item.end
        /\ bytearray_to_gatouuid(From(s[i], 5)) = item.uuid
    <3> HIDE DEF s
    <3>1. QED
      BY <2>2, GroupItem, Zenon
  <2>4. item = [start |-> item.start, end |-> item.end, uuid |-> item.uuid]
    OBVIOUS
  <2>5. QED
    BY <2>2, <2>3, <2>4, Zenon
<1>7. DOMAIN s = DOMAIN items /\ items = [i \in DOMAIN items |-> items[i]]
  BY UniformItems DEF op
<1> HIDE DEF s, read
<1>8. QED
  BY <1>5, <1>6, <1>7, Zenon

LEMMA CharacteristicsRead ==
    ASSUME NEW items, NEW size \in {7, 21}, Uniform("ReadByType", items, size),
           NEW ba, ba = Tail(Packed("ReadByType", items))
    PROVE  Characteristics(ba) = items
<1> DEFINE op == "ReadByType"
           s == Bytes(op, items)
           list == parseAttributeData(ba)
           read(i) == [handle |-> read_le(s[i]), char |-> parseCharacteristicValue(From(s[i], 3))]
<1>1. op \in AnswerOps /\ size \in 1..127 /\ size \in Byte
  BY DEF AnswerOps, Byte
<1>2. Header(op, size) = <<size>>
  BY Zenon DEF Header
<1> HIDE DEF op
<1>3. ba[1] = size /\ Pieces(Tail(ba), size) = s
  <2> HIDE DEF s
  <2>1. Uniform(op, items, size) /\ ba = Tail(Packed(op, items))
    BY DEF op
  <2>2. QED
    BY <1>1, <1>2, <2>1, HeadedItems DEF s
<1>4. list = [i \in DOMAIN s |-> [handle |-> read_le(s[i]), value |-> From(s[i], 3)]]
  BY <1>3, Zenon DEF parseAttributeData
<1>5. Characteristics(ba) = [i \in DOMAIN s |-> read(i)]
  <2>1. Characteristics(ba) =
            [i \in DOMAIN list |-> [handle |-> list[i].handle,
                                    char |-> parseCharacteristicValue(list[i].value)]]
    BY Zenon DEF Characteristics
  <2> HIDE DEF list, s
  <2>2. /\ DOMAIN list = DOMAIN s
        /\ \A i \in DOMAIN s : list[i].handle = read_le(s[i]) /\ list[i].value = From(s[i], 3)
    BY ONLY <1>4
  <2>3. QED
    BY <2>1, <2>2, Zenon
<1>6. ASSUME NEW i \in DOMAIN items PROVE read(i) = items[i]
  <2>1. s[i] = ItemBytes(op, items[i]) /\ items[i] \in ItemsOf(op)
    BY UniformItems DEF op
  <2>2. PICK item \in [handle : Handle, char : Characteristic] :
            item = items[i] /\ s[i] = ItemBytes("ReadByType", item)
    BY <2>1, ItemsOfKinds, Zenon DEF op
  <2>3. read_le(s[i]) = item.handle /\ parseCharacteristicValue(From(s[i], 3)) = item.char
    <3> HIDE DEF s
    <3>1. QED
      BY <2>2, CharacteristicItem, Zenon
  <2>4. item = [handle |-> item.handle, char |-> item.char]
    OBVIOUS
  <2>5. QED
    BY <2>2, <2>3, <2>4, Zenon
<1>7. DOMAIN s = DOMAIN items /\ items = [i \in DOMAIN items |-> items[i]]
  BY UniformItems DEF op
<1> HIDE DEF s, read
<1>8. QED
  BY <1>5, <1>6, <1>7, Zenon

\* Without a header.
LEMMA BareItems ==
    ASSUME NEW op \in AnswerOps, NEW items, NEW list \in Seq(Byte),
           list = FlattenSeq(Bytes(op, items)),
           Header(op, Len(ItemBytes(op, items[1]))) = <<>>
    PROVE  Tail(Packed(op, items)) = list /\ Packed(op, items) \in Seq(Byte)
<1>1. PICK h \in Seq(Byte) : h = <<>>
  <2>1. <<>> \in Seq(Byte)
    OBVIOUS
  <2>2. QED
    BY <2>1, Zenon
<1>2. Tail(Packed(op, items)) = h \o list /\ Packed(op, items) \in Seq(Byte)
  BY <1>1, PackedBody
<1>3. <<>> \o list = list
  BY ConcatEmptySeq, Zenon
<1>4. QED
  BY <1>1, <1>2, <1>3, Zenon

LEMMA FlattenOne ==
    ASSUME NEW s \in Seq(Seq(Byte)), Len(s) = 1
    PROVE  FlattenSeq(s) = s[1]
<1>1. s # <<>> /\ s[1] \in Seq(Byte)
  BY EmptySeq, ElementOfSeq
<1>2. PICK f : Accumulates(f, s, Len(s)) /\ FlattenSeq(s) = f[Len(s)]
  BY <1>1, FlattenIs, Zenon
<1>3. f[1] = s[1]
  BY <1>2, Accumulated
<1>4. QED
  BY <1>2, <1>3

\* What has a single item.
LEMMA SingleItem ==
    ASSUME NEW op \in {"ExchangeMTU", "Read", "Notification"}, NEW item,
           NEW b \in Seq(Byte), b = ItemBytes(op, item)
    PROVE  Tail(Packed(op, <<item>>)) = b
<1> DEFINE items == <<item>>
           s == Bytes(op, items)
<1>1. DOMAIN items = 1..1 /\ items[1] = item
  OBVIOUS
<1> HIDE DEF items
<1>2. s = [i \in 1..1 |-> ItemBytes(op, items[i])]
  BY <1>1, Zenon DEF Bytes
<1> HIDE DEF s
<1>3. \A i \in 1..1 : ItemBytes(op, items[i]) = b
  BY <1>1
<1>4. s = [i \in 1..1 |-> b]
  BY <1>2, <1>3, Zenon
<1>5. s \in Seq(Seq(Byte)) /\ Len(s) = 1 /\ s[1] = b
  BY <1>4
<1>6. FlattenSeq(s) = b
  BY <1>5, FlattenOne
<1>7. Header(op, Len(ItemBytes(op, items[1]))) = <<>>
  <2>1. op \notin {"ReadByType", "ReadByGroupType"} /\ op # "FindInformation"
    OBVIOUS
  <2>2. QED
    BY <2>1, Zenon DEF Header
<1>8. op \in AnswerOps
  BY DEF AnswerOps
<1>9. QED
  <2>1. Tail(Packed(op, items)) = b
    BY <1>6, <1>7, <1>8, BareItems, Zenon DEF s
  <2>2. QED
    BY <2>1, Zenon DEF items

LEMMA MtuRead ==
    ASSUME NEW item \in [mtu : {23, Mtu}], NEW ba, ba = Tail(Packed("ExchangeMTU", <<item>>))
    PROVE  <<[mtu |-> read_le(ba)]>> = <<item>>
<1>1. Word(item.mtu)
  <2>1. Word(23) /\ Word(Mtu)
    BY PduAssumption DEF Word
  <2>2. item.mtu \in {23, Mtu}
    OBVIOUS
  <2>3. QED
    BY <2>1, <2>2, Zenon
<1>2. PICK b \in Seq(Byte) : b = Le(item.mtu) /\ WordAt(b, 1) = item.mtu
  BY <1>1, ServersNumber, Number
<1>3. ba = b
  <2>1. b = ItemBytes("ExchangeMTU", item)
    BY <1>2, Zenon DEF ItemBytes
  <2>2. "ExchangeMTU" \in {"ExchangeMTU", "Read", "Notification"}
    OBVIOUS
  <2>3. QED
    BY <2>1, <2>2, SingleItem, Zenon
<1>4. read_le(b) = item.mtu
  BY <1>2 DEF read_le, WordAt
<1>5. item = [mtu |-> item.mtu]
  OBVIOUS
<1>6. QED
  BY <1>3, <1>4, <1>5, Zenon

LEMMA ValuesAreBytes == \A value \in Value : value \in Seq(Byte)
BY PduAssumption

LEMMA ValueRead ==
    ASSUME NEW item \in [value : Value], NEW ba, ba = Tail(Packed("Read", <<item>>))
    PROVE  <<[value |-> ba]>> = <<item>>
<1>1. PICK b \in Seq(Byte) : b = item.value
  BY ValuesAreBytes
<1>2. b = ItemBytes("Read", item)
  BY <1>1, Zenon DEF ItemBytes
<1>3. "Read" \in {"ExchangeMTU", "Read", "Notification"}
  OBVIOUS
<1>4. ba = b
  BY <1>2, <1>3, SingleItem, Zenon
<1>5. item = [value |-> item.value]
  OBVIOUS
<1>6. QED
  BY <1>1, <1>4, <1>5, Zenon

LEMMA NotificationBytes ==
    ASSUME NEW item \in [handle : Handle, value : Value],
           NEW b, b = ItemBytes("Notification", item)
    PROVE  /\ b \in Seq(Byte) /\ Len(b) = 2 + Len(item.value)
           /\ read_le(b) = item.handle /\ From(b, 3) = item.value
<1>1. Word(item.handle)
  BY HandlesAreWords
<1>2. PICK v \in Seq(Byte) : v = item.value
  BY ValuesAreBytes
<1>3. b = Numbered(item.handle, v)
  <2>1. Le(item.handle) = write_le(item.handle)
    BY <1>1, ServersNumber
  <2>2. b = Le(item.handle) \o item.value
    BY Zenon DEF ItemBytes
  <2>3. QED
    BY <1>2, <2>1, <2>2, Zenon DEF Numbered
<1>4. /\ b \in Seq(Byte) /\ Len(b) = 2 + Len(v)
      /\ read_le(b) = item.handle /\ From(b, 3) = v
  BY ONLY <1>1, <1>3, NumberIsRead
<1>5. QED
  BY <1>2, <1>4, Zenon

LEMMA NotificationRead ==
    ASSUME NEW item \in [handle : Handle, value : Value],
           NEW ba, ba = Tail(Packed("Notification", <<item>>))
    PROVE  <<[handle |-> read_le(ba), value |-> From(ba, 3)]>> = <<item>>
<1>1. PICK b \in Seq(Byte) : /\ b = ItemBytes("Notification", item)
                             /\ read_le(b) = item.handle /\ From(b, 3) = item.value
  BY NotificationBytes
<1>2. "Notification" \in {"ExchangeMTU", "Read", "Notification"}
  OBVIOUS
<1>3. ba = b
  BY <1>1, <1>2, SingleItem, Zenon
<1>4. item = [handle |-> item.handle, value |-> item.value]
  OBVIOUS
<1>5. QED
  BY <1>1, <1>3, <1>4, Zenon

\* parseHandleInformation() finds the ranges at every other place, and takes
\* numbers of 16 bits wherever it looks.
LEMMA TwoBytesNumber ==
    ASSUME NEW x \in Byte, NEW y \in Byte
    PROVE  Word(x + 256 * y)
<1>1. x \in Int /\ 0 <= x /\ x <= 255 /\ y \in Int /\ 0 <= y /\ y <= 255
  BY DEF Byte
<1>2. x + 256 * y \in Int /\ 0 <= x + 256 * y /\ x + 256 * y <= 65535
  BY ONLY <1>1
<1>3. QED
  BY ONLY <1>2 DEF Word

LEMMA NumberAt ==
    ASSUME NEW e \in Seq(Byte), NEW k \in Nat, 1 <= k, k + 1 <= Len(e)
    PROVE  /\ read_le(SubSeq(e, k, k + 1)) = e[k] + 256 * e[k + 1]
           /\ Word(e[k] + 256 * e[k + 1])
<1>1. PICK r : r = SubSeq(e, k, k + 1)
  OBVIOUS
<1>2. r[1] = e[k] /\ r[2] = e[k + 1] /\ e[k] \in Byte /\ e[k + 1] \in Byte
  BY <1>1, LenProperties
<1>3. read_le(r) = e[k] + 256 * e[k + 1]
  BY <1>2, Zenon DEF read_le
<1>4. Word(e[k] + 256 * e[k + 1])
  BY <1>2, TwoBytesNumber, Zenon
<1>5. QED
  BY <1>1, <1>3, <1>4, Zenon

Extended(list, behind) == list \o <<0, behind>>

LEMMA ExtendedBytes ==
    ASSUME NEW list \in Seq(Byte), NEW behind \in Byte
    PROVE  /\ Extended(list, behind) \in Seq(Byte)
           /\ Len(Extended(list, behind)) = Len(list) + 2
           /\ \A i \in 1..Len(list) : Extended(list, behind)[i] = list[i]
<1>1. PICK z \in Seq(Byte) : z = <<0, behind>> /\ Len(z) = 2
  <2>1. <<0, behind>> \in Seq(Byte) /\ Len(<<0, behind>>) = 2
    BY DEF Byte
  <2>2. QED
    BY <2>1, Zenon
<1>2. z \in Seq(Int) /\ list \in Seq(Int)
  BY BytesAreInts
<1>3. Len(list \o z) = Len(list) + Len(z) /\ \A i \in 1..Len(list) : (list \o z)[i] = list[i]
  BY <1>2, Concat, Zenon
<1>4. list \o z \in Seq(Byte)
  BY BytesAssociate
<1>5. Extended(list, behind) = list \o z
  BY <1>1, Zenon DEF Extended
<1>6. QED
  BY <1>1, <1>3, <1>4, <1>5, Zenon

\* What is read at place k, and maybe behind the end.
At(list, behind, k) == read_le(SubSeq(Extended(list, behind), k, k + 1))

LEMMA RangesAt ==
    ASSUME NEW list \in Seq(Byte), NEW behind \in Byte,
           NEW k \in Nat, 1 <= k, k <= Len(list) + 1,
           NEW n, n = At(list, behind, k)
    PROVE  Word(n) /\ (k < Len(list) => n = list[k] + 256 * list[k + 1])
<1>1. PICK e \in Seq(Byte) :
          /\ e = Extended(list, behind) /\ Len(e) = Len(list) + 2
          /\ \A i \in 1..Len(list) : e[i] = list[i]
  BY ExtendedBytes
<1>2. Len(list) \in Nat
  BY LenProperties
<1>3. k + 1 <= Len(e)
  BY ONLY <1>1, <1>2, k \in Nat, k <= Len(list) + 1
<1>4. n = e[k] + 256 * e[k + 1] /\ Word(e[k] + 256 * e[k + 1])
  <2>1. n = read_le(SubSeq(e, k, k + 1))
    BY <1>1, Zenon DEF At
  <2>2. /\ read_le(SubSeq(e, k, k + 1)) = e[k] + 256 * e[k + 1]
        /\ Word(e[k] + 256 * e[k + 1])
    BY <1>3, NumberAt
  <2>3. QED
    BY <2>1, <2>2, Zenon
<1>5. k < Len(list) => e[k] = list[k] /\ e[k + 1] = list[k + 1]
  BY ONLY <1>1, <1>2, k \in Nat, 1 <= k
<1>6. QED
  BY <1>4, <1>5, Zenon

\* parseHandleInformation() finds the ranges at every other place of g.
RangesFound(items, g) ==
    /\ \A i \in DOMAIN items : 2 * i \in DOMAIN g /\ g[2 * i - 1] = items[i]
    /\ \A i \in DOMAIN g : \E m, n : Word(m) /\ Word(n) /\ g[i] = [start |-> m, end |-> n]

LEMMA RangesRead ==
    ASSUME NEW items, Uniform("FindByTypeValue", items, 4), NEW behind \in Byte,
           NEW g, g = parseHandleInformation(Tail(Packed("FindByTypeValue", items)), behind)
    PROVE  RangesFound(items, g)
<1> DEFINE op == "FindByTypeValue"
<1>1. op \in AnswerOps /\ 4 \in Nat \ {0}
  BY DEF AnswerOps
<1>2. PICK s \in Seq(Seq(Byte)) :
          /\ s = Bytes(op, items) /\ Len(s) = Len(items)
          /\ \A i \in 1..Len(items) : s[i] = ItemBytes(op, items[i])
          /\ FlattenSeq(s) \in Seq(Byte) /\ Itemised(FlattenSeq(s), s, 4, Len(items))
  BY <1>1, UniformBytes
<1>3. PICK list \in Seq(Byte) : list = FlattenSeq(s) /\ Itemised(list, s, 4, Len(items))
  BY <1>2
<1>4. Header(op, Len(ItemBytes(op, items[1]))) = <<>>
  BY Zenon DEF Header
<1>5. Tail(Packed(op, items)) = list
  BY <1>1, <1>2, <1>3, <1>4, BareItems, Zenon
<1>6. g = [i \in 1..(Len(list) \div 2) |->
              [start |-> At(list, behind, 2 * i - 1), end |-> At(list, behind, 2 * i + 1)]]
  <2>1. g = parseHandleInformation(list, behind)
    BY <1>5, Zenon
  <2>2. QED
    BY <2>1, Zenon DEF parseHandleInformation, At, Extended
<1>7. PICK m \in Nat : m = Len(items) /\ DOMAIN items = 1..m /\ Len(list) = 4 * m
  <2>1. items \in Seq(ItemsOf(op))
    BY DEF Uniform
  <2>2. Len(items) \in Nat /\ DOMAIN items = 1..Len(items)
    BY <2>1, LenProperties
  <2>3. Len(list) = 4 * Len(items)
    BY <1>3 DEF Itemised
  <2>4. QED
    BY <2>2, <2>3
<1>8. Len(list) \div 2 = 2 * m /\ Len(list) = 4 * m
  BY ONLY <1>7, m \in Nat
<1> HIDE DEF op
<1>9. ASSUME NEW i \in DOMAIN items
      PROVE  2 * i \in DOMAIN g /\ g[2 * i - 1] = items[i]
  <2>1. PICK j \in 1..m : j = i
    BY <1>7
  <2>2. 2 * j \in 1..(2 * m) /\ 2 * j - 1 \in 1..(2 * m)
    OBVIOUS
  <2>3. 2 * i \in DOMAIN g
    BY <1>6, <1>8, <2>1, <2>2
  <2>4. PICK k \in Nat : k = 4 * (j - 1) + 1 /\ k + 2 < 4 * m /\ 1 <= k
                         /\ 2 * (2 * j - 1) - 1 = k /\ 2 * (2 * j - 1) + 1 = k + 2
    <3>1. 4 * (j - 1) + 1 \in Nat
      OBVIOUS
    <3>2. QED
      BY <3>1
  <2>5. g[2 * j - 1] = [start |-> At(list, behind, k), end |-> At(list, behind, k + 2)]
    BY <1>6, <1>8, <2>2, <2>4
  <2>6. PICK item \in [start : Handle, end : Handle] :
            item = items[i] /\ s[i] = ItemBytes("FindByTypeValue", item)
    <3>1. items[i] \in ItemsOf(op) /\ s[i] = ItemBytes(op, items[i])
      BY <1>2, UniformItems DEF op
    <3>2. QED
      BY <3>1, ItemsOfKinds, Zenon DEF op
  <2>7. PICK b \in Seq(Byte) :
            /\ b = s[i] /\ b[1] + 256 * b[2] = item.start /\ b[3] + 256 * b[4] = item.end
    BY <2>6, RangeItem
  <2>8. list[k] = b[1] /\ list[k + 1] = b[2] /\ list[k + 2] = b[3] /\ list[k + 3] = b[4]
    <3>1. \A p \in 1..4 : list[4 * (j - 1) + p] = s[j][p]
      BY <1>3, <1>7 DEF Itemised
    <3>2. /\ 4 * (j - 1) + 1 = k /\ 4 * (j - 1) + 2 = k + 1
          /\ 4 * (j - 1) + 3 = k + 2 /\ 4 * (j - 1) + 4 = k + 3
      BY <2>4
    <3>3. list[4 * (j - 1) + 1] = b[1] /\ list[4 * (j - 1) + 2] = b[2]
          /\ list[4 * (j - 1) + 3] = b[3] /\ list[4 * (j - 1) + 4] = b[4]
      BY ONLY <2>1, <2>7, <3>1
    <3>4. QED
      BY ONLY <3>2, <3>3, Zenon
  <2>9. At(list, behind, k) = item.start
    <3>1. k < Len(list) /\ k <= Len(list) + 1
      BY <1>7, <2>4
    <3>2. At(list, behind, k) = list[k] + 256 * list[k + 1]
      BY <2>4, <3>1, RangesAt
    <3>3. QED
      BY <2>7, <2>8, <3>2, Zenon
  <2>10. At(list, behind, k + 2) = item.end
    <3>1. PICK l \in Nat : l = k + 2 /\ l + 1 = k + 3 /\ 1 <= l /\ l < Len(list) /\ l <= Len(list) + 1
      BY <1>7, <2>4
    <3>2. At(list, behind, l) = list[l] + 256 * list[l + 1]
      BY <3>1, RangesAt
    <3>3. QED
      BY <2>7, <2>8, <3>1, <3>2, Zenon
  <2>11. item = [start |-> item.start, end |-> item.end]
    OBVIOUS
  <2>12. g[2 * i - 1] = items[i]
    BY <2>1, <2>5, <2>6, <2>9, <2>10, <2>11, Zenon
  <2>13. QED
    BY <2>3, <2>12
<1>10. ASSUME NEW i \in DOMAIN g
       PROVE  \E p, q : Word(p) /\ Word(q) /\ g[i] = [start |-> p, end |-> q]
  <2>1. PICK j \in 1..(2 * m) : j = i
    BY <1>6, <1>8
  <2>2. PICK k \in Nat, l \in Nat : k = 2 * j - 1 /\ l = 2 * j + 1
                                  /\ 1 <= k /\ k <= 4 * m + 1 /\ 1 <= l /\ l <= 4 * m + 1
    <3>1. 2 * j - 1 \in Nat /\ 2 * j + 1 \in Nat
      OBVIOUS
    <3>2. 1 <= 2 * j - 1 /\ 2 * j - 1 <= 4 * m + 1 /\ 1 <= 2 * j + 1 /\ 2 * j + 1 <= 4 * m + 1
      OBVIOUS
    <3>3. QED
      BY <3>1, <3>2, Zenon
  <2>3. g[j] = [start |-> At(list, behind, k), end |-> At(list, behind, l)]
    BY <1>6, <1>8, <2>2
  <2>4. Word(At(list, behind, k)) /\ Word(At(list, behind, l))
    BY <1>8, <2>2, RangesAt
  <2>5. QED
    BY <2>1, <2>3, <2>4, Zenon
<1>11. QED
  BY <1>9, <1>10, Zenon DEF RangesFound

-----------------------------------------------------------------------------
(***************************************************************************)
(* Any answer: a server's items have known lengths, and the client reads   *)
(* what was packed.                                                        *)
(***************************************************************************)
LEMMA ItemShape ==
    ASSUME NEW op \in AnswerOps, NEW item \in ItemsOf(op), NEW b, b = ItemBytes(op, item)
    PROVE  /\ b \in Seq(Byte)
           /\ op = "FindInformation" => Len(b) \in {4, 18}
           /\ op = "FindByTypeValue" => Len(b) = 4
           /\ op = "ReadByType" => Len(b) \in {7, 21}
           /\ op = "ReadByGroupType" => Len(b) \in {6, 20}
<1>1. CASE op = "ExchangeMTU"
  <2>1. item \in [mtu : {23, Mtu}]
    BY <1>1, ItemsOfKinds, Zenon
  <2>2. Word(23) /\ Word(Mtu)
    BY PduAssumption DEF Word
  <2>3. item.mtu \in {23, Mtu}
    BY <2>1
  <2>4. Le(item.mtu) \in Seq(Byte)
    BY <2>2, <2>3, ServersNumber, Zenon
  <2>5. b = Le(item.mtu)
    BY <1>1, Zenon DEF ItemBytes
  <2>6. QED
    BY <1>1, <2>4, <2>5, Zenon
<1>2. CASE op = "FindInformation"
  <2>1. item \in [handle : Handle, uuid : ItemUuid] /\ b = ItemBytes("FindInformation", item)
    BY <1>2, ItemsOfKinds, Zenon
  <2>2. b \in Seq(Byte) /\ Len(b) \in {4, 18}
    BY <2>1, InformationItem, Zenon
  <2>3. QED
    BY <1>2, <2>2, Zenon
<1>3. CASE op = "FindByTypeValue"
  <2>1. item \in [start : Handle, end : Handle] /\ b = ItemBytes("FindByTypeValue", item)
    BY <1>3, ItemsOfKinds, Zenon
  <2>2. b \in Seq(Byte) /\ Len(b) = 4
    BY <2>1, RangeItem, Zenon
  <2>3. QED
    BY <1>3, <2>2, Zenon
<1>4. CASE op = "ReadByType"
  <2>1. item \in [handle : Handle, char : Characteristic] /\ b = ItemBytes("ReadByType", item)
    BY <1>4, ItemsOfKinds, Zenon
  <2>2. b \in Seq(Byte) /\ Len(b) \in {7, 21}
    BY <2>1, CharacteristicItem, Zenon
  <2>3. QED
    BY <1>4, <2>2, Zenon
<1>5. CASE op = "ReadByGroupType"
  <2>1. item \in [start : Handle, end : Handle, uuid : ItemUuid]
        /\ b = ItemBytes("ReadByGroupType", item)
    BY <1>5, ItemsOfKinds, Zenon
  <2>2. b \in Seq(Byte) /\ Len(b) \in {6, 20}
    BY <2>1, GroupItem, Zenon
  <2>3. QED
    BY <1>5, <2>2, Zenon
<1>6. CASE op = "Read"
  <2>1. item \in [value : Value]
    BY <1>6, ItemsOfKinds, Zenon
  <2>2. item.value \in Seq(Byte)
    BY <2>1, ValuesAreBytes
  <2>3. b = item.value
    BY <1>6, Zenon DEF ItemBytes
  <2>4. QED
    BY <1>6, <2>2, <2>3, Zenon
<1>7. CASE op = "Notification"
  <2>1. item \in [handle : Handle, value : Value] /\ b = ItemBytes("Notification", item)
    BY <1>7, ItemsOfKinds, Zenon
  <2>2. b \in Seq(Byte)
    BY <2>1, NotificationBytes, Zenon
  <2>3. QED
    BY <1>7, <2>2, Zenon
<1>8. QED
  BY <1>1, <1>2, <1>3, <1>4, <1>5, <1>6, <1>7 DEF AnswerOps

LEMMA OnlyAnswersHaveItems ==
    ASSUME NEW op, NEW item \in ItemsOf(op)
    PROVE  op \in AnswerOps
<1>1. SUFFICES ASSUME op \notin AnswerOps PROVE ItemsOf(op) = {}
  OBVIOUS
<1>2. /\ op # "ExchangeMTU" /\ op # "FindInformation" /\ op # "FindByTypeValue"
      /\ op # "ReadByType" /\ op # "ReadByGroupType" /\ op # "Read" /\ op # "Notification"
  BY <1>1 DEF AnswerOps
<1>3. QED
  BY <1>2, Zenon DEF ItemsOf

\* What a server has packed: a list, of items of one length, or one item.
Packable(op, items) ==
    /\ items \in Seq(ItemsOf(op)) /\ items # <<>>
    /\ op \notin Lists => Len(items) <= 1
    /\ \A i \in DOMAIN items : Len(ItemBytes(op, items[i])) = Len(ItemBytes(op, items[1]))

\* What the client reads, of what the server has packed.
AsPacked(op, items, g) ==
    IF op = "FindByTypeValue" THEN RangesFound(items, g) ELSE g = items

LEMMA PackableIsUniform ==
    ASSUME NEW op, NEW items, Packable(op, items)
    PROVE  /\ op \in AnswerOps
           /\ \E size : /\ Uniform(op, items, size)
                        /\ op = "FindInformation" => size \in {4, 18}
                        /\ op = "FindByTypeValue" => size = 4
                        /\ op = "ReadByType" => size \in {7, 21}
                        /\ op = "ReadByGroupType" => size \in {6, 20}
<1>1. /\ items \in Seq(ItemsOf(op)) /\ items # <<>>
      /\ \A i \in DOMAIN items : Len(ItemBytes(op, items[i])) = Len(ItemBytes(op, items[1]))
  BY DEF Packable
<1>2. DOMAIN items = 1..Len(items) /\ Len(items) \in Nat /\ 1 \in DOMAIN items
  BY <1>1, LenProperties, EmptySeq
<1>3. \A i \in DOMAIN items : items[i] \in ItemsOf(op)
  BY <1>1, SeqIsFunction, Zenon
<1>4. op \in AnswerOps
  BY <1>2, <1>3, OnlyAnswersHaveItems, Zenon
<1>5. \A i \in DOMAIN items : ItemBytes(op, items[i]) \in Seq(Byte)
  BY <1>3, <1>4, ItemShape, Zenon
<1> DEFINE size == Len(ItemBytes(op, items[1]))
<1>6. Uniform(op, items, size)
  BY <1>1, <1>5, Zenon DEF Uniform
<1>7. /\ op = "FindInformation" => size \in {4, 18}
      /\ op = "FindByTypeValue" => size = 4
      /\ op = "ReadByType" => size \in {7, 21}
      /\ op = "ReadByGroupType" => size \in {6, 20}
  <2>1. items[1] \in ItemsOf(op)
    BY <1>2, <1>3
  <2>2. QED
    BY <1>4, <2>1, ItemShape, Zenon
<1> HIDE DEF size
<1>8. QED
  BY <1>4, <1>6, <1>7, Zenon

LEMMA OneItem ==
    ASSUME NEW op, NEW items, Packable(op, items), op \notin Lists
    PROVE  \E item \in ItemsOf(op) : items = <<item>>
<1>1. items \in Seq(ItemsOf(op)) /\ items # <<>> /\ Len(items) <= 1
  BY DEF Packable
<1>2. Len(items) = 1
  <2>1. Len(items) \in Nat /\ Len(items) # 0
    BY <1>1, LenProperties, EmptySeq
  <2>2. Len(items) <= 1
    BY <1>1
  <2>3. PICK l \in Nat : l = Len(items) /\ l # 0 /\ l <= 1
    BY <2>1, <2>2, Zenon
  <2>4. l = 1
    BY ONLY <2>3, l \in Nat
  <2>5. QED
    BY <2>3, <2>4, Zenon
<1>3. items[1] \in ItemsOf(op)
  BY <1>1, <1>2, ElementOfSeq
<1>4. items = <<items[1]>>
  BY <1>1, <1>2
<1>5. QED
  BY <1>3, <1>4, Zenon

LEMMA WhatIsRead ==
    ASSUME NEW op, NEW items, Packable(op, items), NEW behind \in Byte,
           NEW g, g = Understood(op, Packed(op, items), behind)
    PROVE  AsPacked(op, items, g)
<1>1. PICK size : /\ op \in AnswerOps /\ Uniform(op, items, size)
                  /\ op = "FindInformation" => size \in {4, 18}
                  /\ op = "FindByTypeValue" => size = 4
                  /\ op = "ReadByType" => size \in {7, 21}
                  /\ op = "ReadByGroupType" => size \in {6, 20}
  BY PackableIsUniform, Zenon
<1>2. CASE op = "FindInformation"
  <2>1. g = parseInformationData(Tail(Packed("FindInformation", items)))
    BY <1>2, Zenon DEF Understood
  <2>2. size \in {4, 18} /\ Uniform("FindInformation", items, size)
    BY <1>1, <1>2, Zenon
  <2>3. g = items
    BY <2>1, <2>2, InformationRead, Zenon
  <2>4. QED
    BY <1>2, <2>3, Zenon DEF AsPacked
<1>3. CASE op = "FindByTypeValue"
  <2>1. g = parseHandleInformation(Tail(Packed("FindByTypeValue", items)), behind)
    BY <1>3, Zenon DEF Understood
  <2>2. Uniform("FindByTypeValue", items, 4)
    BY <1>1, <1>3, Zenon
  <2>3. RangesFound(items, g)
    BY <2>1, <2>2, RangesRead, Zenon
  <2>4. QED
    BY <1>3, <2>3, Zenon DEF AsPacked
<1>4. CASE op = "ReadByType"
  <2>1. g = Characteristics(Tail(Packed("ReadByType", items)))
    BY <1>4, Zenon DEF Understood
  <2>2. size \in {7, 21} /\ Uniform("ReadByType", items, size)
    BY <1>1, <1>4, Zenon
  <2>3. g = items
    BY <2>1, <2>2, CharacteristicsRead, Zenon
  <2>4. QED
    BY <1>4, <2>3, Zenon DEF AsPacked
<1>5. CASE op = "ReadByGroupType"
  <2>1. g = Services(Tail(Packed("ReadByGroupType", items)))
    BY <1>5, Zenon DEF Understood
  <2>2. size \in {6, 20} /\ Uniform("ReadByGroupType", items, size)
    BY <1>1, <1>5, Zenon
  <2>3. g = items
    BY <2>1, <2>2, ServicesRead, Zenon
  <2>4. QED
    BY <1>5, <2>3, Zenon DEF AsPacked
<1>6. CASE op \in {"ExchangeMTU", "Read", "Notification"}
  <2>1. PICK item \in ItemsOf(op) : items = <<item>>
    <3>1. op \notin Lists
      BY <1>6 DEF Lists
    <3>2. QED
      BY <3>1, OneItem, Zenon
  <2> DEFINE ba == Tail(Packed(op, <<item>>))
  <2>2. g = <<item>>
    <3>1. CASE op = "ExchangeMTU"
      <4>1. item \in [mtu : {23, Mtu}] /\ ba = Tail(Packed("ExchangeMTU", <<item>>))
        BY <3>1, ItemsOfKinds, Zenon
      <4>2. g = <<[mtu |-> read_le(ba)]>>
        BY <2>1, <3>1, Zenon DEF Understood
      <4> HIDE DEF ba
      <4>3. QED
        BY <4>1, <4>2, MtuRead, Zenon
    <3>2. CASE op = "Read"
      <4>1. item \in [value : Value] /\ ba = Tail(Packed("Read", <<item>>))
        BY <3>2, ItemsOfKinds, Zenon
      <4>2. g = <<[value |-> ba]>>
        BY <2>1, <3>2, Zenon DEF Understood
      <4> HIDE DEF ba
      <4>3. QED
        BY <4>1, <4>2, ValueRead, Zenon
    <3>3. CASE op = "Notification"
      <4>1. item \in [handle : Handle, value : Value]
            /\ ba = Tail(Packed("Notification", <<item>>))
        BY <3>3, ItemsOfKinds, Zenon
      <4>2. g = <<[handle |-> read_le(ba), value |-> From(ba, 3)]>>
        BY <2>1, <3>3, Zenon DEF Understood
      <4> HIDE DEF ba
      <4>3. QED
        BY <4>1, <4>2, NotificationRead, Zenon
    <3>4. QED
      BY <1>6, <3>1, <3>2, <3>3
  <2>3. op # "FindByTypeValue"
    BY <1>6
  <2>4. QED
    BY <2>1, <2>2, <2>3, Zenon DEF AsPacked
<1>7. QED
  BY <1>1, <1>2, <1>3, <1>4, <1>5, <1>6 DEF AnswerOps

-----------------------------------------------------------------------------
(***************************************************************************)
(* The bytes of a request.                                                 *)
(***************************************************************************)
Joined(a, b) == a \o b

LEMMA JoinedBytes ==
    ASSUME NEW a \in Seq(Byte), NEW b \in Seq(Byte)
    PROVE  Joined(a, b) \in Seq(Byte) /\ Len(Joined(a, b)) = Len(a) + Len(b)
BY ConcatProperties, Zenon DEF Joined

LEMMA LongEnough ==
    ASSUME NEW q \in Question
    PROVE  q.value \in Seq(Byte) /\ Len(q.value) \in Nat /\ Len(q.value) <= Mtu - 3
<1>1. \A value \in Value : value \in Seq(Byte) /\ Len(value) \in Nat /\ Len(value) <= Mtu - 3
  <2>1. ASSUME NEW value \in Value
        PROVE  value \in Seq(Byte) /\ Len(value) \in Nat /\ Len(value) <= Mtu - 3
    <3>1. value \in Seq(Byte) /\ Len(value) <= Mtu - 3
      BY PduAssumption
    <3>2. QED
      BY <3>1, LenProperties
  <2>2. QED
    BY <2>1
<1>2. <<>> \in Seq(Byte) /\ Len(<<>>) \in Nat /\ Len(<<>>) <= Mtu - 3
  BY PduAssumption
<1>3. q.value \in Value \/ q.value = <<>>
  BY DEF Question, Q
<1>4. QED
  BY <1>1, <1>2, <1>3, Zenon

LEMMA OpcodesAreBytes ==
    ASSUME NEW q \in Question
    PROVE  OpcodeOf[q.op] \in Byte
<1>1. \A op \in {"ExchangeMTU", "FindInformation", "FindByTypeValue", "ReadByType",
                  "ReadByGroupType", "Read", "Write", "WriteCommand"} : OpcodeOf[op] \in Byte
  BY DEF OpcodeOf, Byte
<1>2. QED
  BY <1>1, QuestionShape

\* A body that is short enough makes a packet that is.
LEMMA PacketOfBody ==
    ASSUME NEW q \in Question, NEW b \in Seq(Byte), b = RequestBody(q), Len(b) <= Mtu + 7
    PROVE  RequestPacket(q) \in Seq(Byte) /\ Len(RequestPacket(q)) <= Mtu + 8
<1>1. PICK x \in Byte : x = OpcodeOf[q.op]
  BY OpcodesAreBytes
<1>2. RequestPacket(q) = Led(x, b)
  BY <1>1, Zenon DEF RequestPacket, Led
<1>3. Led(x, b) \in Seq(Byte) /\ Len(Led(x, b)) = 1 + Len(b)
  BY ByteFirst
<1>4. Len(b) \in Nat /\ Mtu \in Nat
  BY LenProperties, PduAssumption
<1>5. 1 + Len(b) <= Mtu + 8
  BY <1>4
<1>6. QED
  BY <1>2, <1>3, <1>5, Zenon

LEMMA NumberBytes ==
    ASSUME NEW n, Word(n)
    PROVE  write_le(n) \in Seq(Byte) /\ Len(write_le(n)) = 2
BY ServersNumber

LEMMA RangeBytes ==
    ASSUME NEW q \in Question
    PROVE  Range16(q) \in Seq(Byte) /\ Len(Range16(q)) = 4
<1>1. PICK a \in Seq(Byte), b \in Seq(Byte) :
          a = write_le(q.start) /\ b = write_le(q.end) /\ Len(a) = 2 /\ Len(b) = 2
  <2>1. Word(q.start) /\ Word(q.end)
    BY QuestionShape
  <2>2. QED
    BY <2>1, NumberBytes
<1>2. Range16(q) = Joined(a, b)
  BY <1>1, Zenon DEF Range16, Joined
<1>3. Joined(a, b) \in Seq(Byte) /\ Len(Joined(a, b)) = Len(a) + Len(b)
  BY JoinedBytes
<1>4. QED
  BY <1>1, <1>2, <1>3

LEMMA TypeBytes ==
    ASSUME NEW u \in UUID
    PROVE  \E t \in Seq(Byte) : /\ t = Reverse(toUInt16Bytes(u)) /\ Len(t) = 2
                                /\ t = gatouuid_to_bytearray(u, TRUE, FALSE)
<1>1. u[4] \in Byte /\ u[3] \in Byte
  BY DEF UUID
<1>2. <<u[4], u[3]>> \in Seq(Byte) /\ Len(<<u[4], u[3]>>) = 2
  BY <1>1
<1>3. /\ Reverse(toUInt16Bytes(u)) = <<u[4], u[3]>>
      /\ gatouuid_to_bytearray(u, TRUE, FALSE) = <<u[4], u[3]>>
  BY Types, Zenon
<1>4. QED
  BY <1>2, <1>3, Zenon

Zeros == <<0, 0>>

LEMMA ZerosAreBytes == Zeros \in Seq(Byte) /\ Len(Zeros) = 2
BY DEF Zeros, Byte

LEMMA StreamedBytes ==
    ASSUME NEW value \in Seq(Byte), Word(Len(value))
    PROVE  \E v \in Seq(Byte) : v = Streamed(value) /\ Len(v) = 4 + Len(value)
<1>1. Len(value) \in Nat
  BY LenProperties
<1>2. PICK n \in Seq(Byte) : n = write_le(Len(value)) /\ Len(n) = 2
  BY NumberBytes
<1>3. PICK z \in Seq(Byte) : z = Zeros /\ Len(z) = 2
  BY ZerosAreBytes
<1>4. PICK a \in Seq(Byte) : a = Joined(n, z) /\ Len(a) = Len(n) + Len(z)
  BY JoinedBytes
<1>5. PICK v \in Seq(Byte) : v = Joined(a, value) /\ Len(v) = Len(a) + Len(value)
  BY JoinedBytes
<1>6. v = Streamed(value)
  BY <1>2, <1>3, <1>4, <1>5, Zenon DEF Streamed, Joined, Zeros
<1>7. Len(v) = 4 + Len(value)
  <2>1. Len(n) = 2 /\ Len(z) = 2 /\ Len(a) = Len(n) + Len(z) /\ Len(v) = Len(a) + Len(value)
    BY <1>2, <1>3, <1>4, <1>5, Zenon
  <2>2. QED
    BY ONLY <1>1, <2>1
<1>8. QED
  BY <1>6, <1>7, Zenon

LEMMA RequestBytes ==
    ASSUME NEW q \in Question
    PROVE  RequestPacket(q) \in Seq(Byte) /\ Len(RequestPacket(q)) <= Mtu + 8
<1>1. Mtu \in Nat /\ 23 <= Mtu /\ Mtu <= 65535
  BY PduAssumption
<1>2. PICK a \in Seq(Byte) : a = write_le(q.start) /\ Len(a) = 2
  <2>1. Word(q.start)
    BY QuestionShape
  <2>2. QED
    BY <2>1, NumberBytes
<1>3. PICK r \in Seq(Byte) : r = Range16(q) /\ Len(r) = 4
  BY RangeBytes
<1>4. PICK v \in Seq(Byte) : v = q.value /\ Len(v) \in Nat /\ Len(v) <= Mtu - 3
  BY LongEnough
<1>5. CASE q.op \in {"ExchangeMTU", "Read"}
  <2>1. a = RequestBody(q)
    BY <1>2, <1>5, Zenon DEF RequestBody
  <2>2. Len(a) <= Mtu + 7
    BY ONLY <1>1, <1>2
  <2>3. QED
    BY <2>1, <2>2, PacketOfBody, Zenon
<1>6. CASE q.op = "FindInformation"
  <2>1. r = RequestBody(q)
    BY <1>3, <1>6, Zenon DEF RequestBody
  <2>2. Len(r) <= Mtu + 7
    BY ONLY <1>1, <1>3
  <2>3. QED
    BY <2>1, <2>2, PacketOfBody, Zenon
<1>7. CASE q.op \in {"Write", "WriteCommand"}
  <2>1. PICK b \in Seq(Byte) : b = Joined(a, v) /\ Len(b) = Len(a) + Len(v)
    BY JoinedBytes
  <2>2. b = RequestBody(q)
    BY <1>2, <1>4, <1>7, <2>1, Zenon DEF RequestBody, Joined
  <2>3. Len(b) <= Mtu + 7
    BY ONLY <1>1, <1>2, <1>4, <2>1
  <2>4. QED
    BY <2>2, <2>3, PacketOfBody, Zenon
<1>8. CASE q.op \in {"FindByTypeValue", "ReadByType", "ReadByGroupType"}
  <2>1. q.uuid \in UUID
    BY <1>8, QuestionShape
  <2>2. PICK t \in Seq(Byte) : /\ t = Reverse(toUInt16Bytes(q.uuid)) /\ Len(t) = 2
                               /\ t = gatouuid_to_bytearray(q.uuid, TRUE, FALSE)
    BY <2>1, TypeBytes, Zenon
  <2>3. PICK b \in Seq(Byte) : b = Joined(r, t) /\ Len(b) = Len(r) + Len(t)
    BY JoinedBytes
  <2>4. Len(b) = 6
    <3>1. Len(r) = 4 /\ Len(t) = 2 /\ Len(b) = Len(r) + Len(t)
      BY <1>3, <2>2, <2>3, Zenon
    <3>2. QED
      BY ONLY <3>1
  <2>5. CASE q.op \in {"ReadByType", "ReadByGroupType"}
    <3>1. b = RequestBody(q)
      BY <1>3, <2>2, <2>3, <2>5, Zenon DEF RequestBody, Joined
    <3>2. Len(b) <= Mtu + 7
      BY ONLY <1>1, <2>4
    <3>3. QED
      BY <3>1, <3>2, PacketOfBody, Zenon
  <2>6. CASE q.op = "FindByTypeValue"
    <3>1. PICK w \in Seq(Byte) : w = Streamed(v) /\ Len(w) = 4 + Len(v)
      <4>1. Word(Len(v))
        BY ONLY <1>1, <1>4 DEF Word
      <4>2. QED
        BY <4>1, StreamedBytes
    <3>2. PICK c \in Seq(Byte) : c = Joined(b, w) /\ Len(c) = Len(b) + Len(w)
      BY JoinedBytes
    <3>3. c = RequestBody(q)
      BY <1>3, <1>4, <2>2, <2>3, <2>6, <3>1, <3>2, Zenon DEF RequestBody, Joined
    <3>4. Len(c) <= Mtu + 7
      <4>1. /\ Len(v) \in Nat /\ Len(v) <= Mtu - 3
            /\ Len(w) = 4 + Len(v) /\ Len(c) = Len(b) + Len(w)
        BY <1>4, <3>1, <3>2, Zenon
      <4>2. QED
        BY ONLY <1>1, <2>4, <4>1
    <3>5. QED
      BY <3>3, <3>4, PacketOfBody, Zenon
  <2>7. QED
    BY <1>8, <2>5, <2>6
<1>9. QED
  BY <1>5, <1>6, <1>7, <1>8, QuestionShape

-----------------------------------------------------------------------------
(***************************************************************************)
(* The inductive invariant: an answer is what a server may pack for the    *)
(* question, and what the client has got is what it reads in that.         *)
(***************************************************************************)
Notified == Q("Notification", 0, 0, NullUUID, <<>>)

Asking ==
    /\ question \in Question \cup {Notified}
    /\ received \in BOOLEAN
    /\ answer \in Seq(ItemsOf(question.op)) /\ Len(answer) <= MaxItems
    /\ answer # <<>> => Packable(question.op, answer)

Reading ==
    /\ ~ received => got = <<>>
    /\ received =>
          /\ answer # <<>>
          /\ \E behind \in Byte :
                got = Understood(question.op, Packed(question.op, answer), behind)

AnswerInv == Asking /\ Reading

LEMMA NothingAnswered ==
    ASSUME NEW S
    PROVE  <<>> \in Seq(S) /\ Len(<<>>) <= MaxItems
BY PduAssumption

LEMMA OneAnswered ==
    ASSUME NEW op, NEW item \in ItemsOf(op), NEW items, items = <<item>>
    PROVE  Packable(op, items) /\ Len(items) <= MaxItems /\ items # <<>>
<1>1. items \in Seq(ItemsOf(op)) /\ items # <<>> /\ Len(items) = 1 /\ DOMAIN items = 1..1
  OBVIOUS
<1>2. Len(items) <= MaxItems /\ Len(items) <= 1
  BY <1>1, PduAssumption
<1>3. \A i \in DOMAIN items : i = 1
  BY <1>1
<1>4. \A i \in DOMAIN items : Len(ItemBytes(op, items[i])) = Len(ItemBytes(op, items[1]))
  BY <1>3, Zenon
<1>5. QED
  BY <1>1, <1>2, <1>4, Zenon DEF Packable

LEMMA OneMoreAnswered ==
    ASSUME NEW op, NEW items, Packable(op, items), op \in Lists,
           NEW item \in ItemsOf(op),
           Len(ItemBytes(op, item)) = Len(ItemBytes(op, items[1])),
           NEW more, more = Append(items, item)
    PROVE  Packable(op, more)
<1>1. /\ items \in Seq(ItemsOf(op)) /\ items # <<>>
      /\ \A i \in DOMAIN items : Len(ItemBytes(op, items[i])) = Len(ItemBytes(op, items[1]))
  BY DEF Packable
<1>2. DOMAIN items = 1..Len(items) /\ Len(items) \in Nat /\ Len(items) # 0
  BY <1>1, LenProperties, EmptySeq
<1>3. /\ more \in Seq(ItemsOf(op)) /\ more # <<>> /\ DOMAIN more = 1..(Len(items) + 1)
      /\ \A i \in 1..Len(items) : more[i] = items[i]
      /\ more[Len(items) + 1] = item
  BY <1>1, <1>2
<1>4. 1 \in 1..Len(items) /\ \A i \in 1..(Len(items) + 1) : i \in 1..Len(items) \/ i = Len(items) + 1
  BY <1>2
<1>5. more[1] = items[1]
  BY <1>3, <1>4
<1>6. ASSUME NEW i \in DOMAIN more
      PROVE  Len(ItemBytes(op, more[i])) = Len(ItemBytes(op, more[1]))
  <2>1. CASE i \in 1..Len(items)
    BY <1>1, <1>2, <1>3, <1>5, <2>1, Zenon
  <2>2. CASE i = Len(items) + 1
    BY <1>3, <1>5, <2>2, Zenon
  <2>3. QED
    BY <1>3, <1>4, <2>1, <2>2, Zenon
<1>7. QED
  BY <1>3, <1>6, Zenon DEF Packable

LEMMA InitAnswer == Init => AnswerInv
<1> SUFFICES ASSUME Init PROVE AnswerInv
  OBVIOUS
<1>1. question \in Question /\ answer = <<>> /\ received = FALSE /\ got = <<>>
  BY FirstQuestion, Zenon DEF Init
<1>2. answer \in Seq(ItemsOf(question.op)) /\ Len(answer) <= MaxItems
  BY <1>1, NothingAnswered, Zenon
<1>3. received \in BOOLEAN /\ ~ received
  BY <1>1
<1>4. Asking /\ Reading
  BY <1>1, <1>2, <1>3 DEF Asking, Reading
<1>5. QED
  BY <1>4 DEF AnswerInv

LEMMA AskStep ==
    ASSUME AnswerInv, NEW q \in Question, Ask(q)
    PROVE  AnswerInv'
<1>1. /\ answer = <<>> /\ question' = q
      /\ answer' = answer /\ received' = received /\ got' = got
  BY DEF Ask
<1>2. ~ received /\ received \in BOOLEAN /\ got = <<>>
  BY <1>1 DEF AnswerInv, Asking, Reading
<1>3. answer' = <<>>
  BY <1>1, Zenon
<1>4. answer' \in Seq(ItemsOf(question'.op)) /\ Len(answer') <= MaxItems
  BY <1>3, NothingAnswered, Zenon
<1>5. Asking'
  BY <1>1, <1>2, <1>3, <1>4, Zenon DEF Asking
<1>6. Reading'
  BY <1>1, <1>2, Zenon DEF Reading
<1>7. QED
  BY <1>5, <1>6 DEF AnswerInv

LEMMA PackStep ==
    ASSUME AnswerInv, NEW item \in ItemsOf(question.op), ServerPacks(item)
    PROVE  AnswerInv'
<1>1. /\ ~ received /\ received' = received /\ question' = question /\ got' = got
      /\ answer' = Append(answer, item)
      /\ Len(answer) < MaxItems
      /\ answer # <<>> => /\ question.op \in Lists
                          /\ Len(ItemBytes(question.op, item))
                                 = Len(ItemBytes(question.op, answer[1]))
  BY Zenon DEF ServerPacks
<1>2. /\ question \in Question \cup {Notified} /\ received \in BOOLEAN /\ got = <<>>
      /\ answer \in Seq(ItemsOf(question.op))
      /\ answer # <<>> => Packable(question.op, answer)
  BY <1>1 DEF AnswerInv, Asking, Reading
<1> DEFINE S == ItemsOf(question.op)
<1>3. answer' \in Seq(S) /\ Len(answer') = Len(answer) + 1 /\ Len(answer) \in Nat
  <2>1. item \in S /\ answer \in Seq(S)
    BY <1>2
  <2> HIDE DEF S
  <2>2. QED
    BY <1>1, <2>1
<1>4. Len(answer') <= MaxItems
  BY <1>1, <1>3, PduAssumption
<1>5. Packable(question.op, answer')
  <2>1. CASE answer = <<>>
    <3>1. answer' = <<item>>
      BY <1>1, <2>1
    <3>2. QED
      BY <3>1, OneAnswered, Zenon
  <2>2. CASE answer # <<>>
    BY <1>1, <1>2, <2>2, OneMoreAnswered, Zenon
  <2>3. QED
    BY <2>1, <2>2
<1>6. Asking'
  BY <1>1, <1>2, <1>3, <1>4, <1>5, Zenon DEF Asking
<1>7. Reading'
  BY <1>1, <1>2, Zenon DEF Reading
<1>8. QED
  BY <1>6, <1>7 DEF AnswerInv

LEMMA ReadStep ==
    ASSUME AnswerInv, ClientReads
    PROVE  AnswerInv'
<1>1. /\ answer # <<>> /\ received' = TRUE
      /\ question' = question /\ answer' = answer
  BY Zenon DEF ClientReads
<1>2. PICK behind \in {0, 255} :
          got' = Understood(question.op, Packed(question.op, answer), behind)
  BY Zenon DEF ClientReads
<1>3. behind \in Byte
  BY DEF Byte
<1>4. Asking'
  <2>1. /\ question \in Question \cup {Notified}
        /\ answer \in Seq(ItemsOf(question.op)) /\ Len(answer) <= MaxItems
        /\ answer # <<>> => Packable(question.op, answer)
    BY Zenon DEF AnswerInv, Asking
  <2>2. received' \in BOOLEAN
    BY <1>1
  <2>3. QED
    BY <1>1, <2>1, <2>2, Zenon DEF Asking
<1>5. Reading'
  BY <1>1, <1>2, <1>3, Zenon DEF Reading
<1>6. QED
  BY <1>4, <1>5 DEF AnswerInv

LEMMA ReturnStep ==
    ASSUME AnswerInv, CallbackReturns
    PROVE  AnswerInv'
<1>1. /\ answer' = <<>> /\ received' = FALSE /\ got' = <<>> /\ question' = question
  BY Zenon DEF CallbackReturns
<1>2. question \in Question \cup {Notified}
  BY Zenon DEF AnswerInv, Asking
<1>3. answer' \in Seq(ItemsOf(question'.op)) /\ Len(answer') <= MaxItems
  BY <1>1, NothingAnswered, Zenon
<1>4. received' \in BOOLEAN /\ ~ received'
  BY <1>1
<1>5. Asking'
  BY <1>1, <1>2, <1>3, <1>4, Zenon DEF Asking
<1>6. Reading'
  BY <1>1, <1>4, Zenon DEF Reading
<1>7. QED
  BY <1>5, <1>6 DEF AnswerInv

LEMMA NotifyStep ==
    ASSUME AnswerInv, NEW item \in ItemsOf("Notification"), ClientIsNotified(item)
    PROVE  AnswerInv'
<1>1. /\ question' = Notified /\ answer' = <<item>> /\ received' = TRUE
      /\ got' = Understood("Notification", Packed("Notification", answer'), 0)
  BY Zenon DEF ClientIsNotified, Notified
<1>2. Notified.op = "Notification"
  BY DEF Notified, Q
<1>3. question'.op = "Notification"
  BY <1>1, <1>2, Zenon
<1>4. Packable("Notification", answer') /\ Len(answer') <= MaxItems /\ answer' # <<>>
  BY <1>1, OneAnswered, Zenon
<1>5. answer' \in Seq(ItemsOf("Notification"))
  BY <1>4, Zenon DEF Packable
<1>6. question' \in Question \cup {Notified} /\ received' \in BOOLEAN
  BY <1>1
<1>7. 0 \in Byte
  BY DEF Byte
<1>8. Asking'
  BY <1>3, <1>4, <1>5, <1>6, Zenon DEF Asking
<1>9. Reading'
  BY <1>1, <1>3, <1>4, <1>7, Zenon DEF Reading
<1>10. QED
  BY <1>8, <1>9 DEF AnswerInv

LEMMA AnswerInvariant == Spec => []AnswerInv
<1>1. AnswerInv /\ [Next]_vars => AnswerInv'
  <2> SUFFICES ASSUME AnswerInv, [Next]_vars PROVE AnswerInv'
    OBVIOUS
  <2>1. ASSUME NEW q \in Question, Ask(q) PROVE AnswerInv'
    BY <2>1, AskStep
  <2>2. ASSUME NEW item \in ItemsOf(question.op), ServerPacks(item) PROVE AnswerInv'
    BY <2>2, PackStep
  <2>3. CASE ClientReads
    BY <2>3, ReadStep
  <2>4. CASE CallbackReturns
    BY <2>4, ReturnStep
  <2>5. ASSUME NEW item \in ItemsOf("Notification"), ClientIsNotified(item) PROVE AnswerInv'
    BY <2>5, NotifyStep
  <2>6. CASE UNCHANGED vars
    BY <2>6, Zenon DEF vars, AnswerInv, Asking, Reading
  <2>7. QED
    BY <2>1, <2>2, <2>3, <2>4, <2>5, <2>6, Zenon DEF Next
<1>2. QED
  BY <1>1, InitAnswer, PTL DEF Spec

LEMMA WhatWasGot ==
    ASSUME AnswerInv, received
    PROVE  Packable(question.op, answer) /\ AsPacked(question.op, answer, got)
<1>1. Packable(question.op, answer)
  BY DEF AnswerInv, Asking, Reading
<1>2. PICK behind \in Byte : got = Understood(question.op, Packed(question.op, answer), behind)
  BY DEF AnswerInv, Reading
<1>3. AsPacked(question.op, answer, got)
  BY <1>1, <1>2, WhatIsRead, Zenon
<1>4. QED
  BY <1>1, <1>3

(***************************************************************************)
(* Whatever a server packs into its answer or event, as many items as it   *)
(* likes and UUIDs of any length, the parsers of gatoattclient.cpp and     *)
(* gatoperipheral.cpp find in the packet.                                  *)
(***************************************************************************)
THEOREM AnswersAlwaysUnderstood == Spec => []AnswersAreUnderstood
<1>1. AnswerInv => AnswersAreUnderstood
  BY WhatWasGot, Zenon DEF AnswersAreUnderstood, AsPacked, RangesFound
<1>2. QED
  BY <1>1, AnswerInvariant, PTL

-----------------------------------------------------------------------------
(***************************************************************************)
(* Types.                                                                  *)
(***************************************************************************)
NumbersFit(item) == \A n \in Numbers(item) : n \in Nat /\ n <= 65535

LEMMA WordsFit ==
    ASSUME NEW n, Word(n)
    PROVE  n \in Nat /\ n <= 65535
BY DEF Word

LEMMA ItemNumbers ==
    ASSUME NEW op, NEW item \in ItemsOf(op)
    PROVE  NumbersFit(item)
<1>0. op \in AnswerOps
  BY OnlyAnswersHaveItems
<1>1. \A h \in Handle : h \in Nat /\ h <= 65535
  BY PduAssumption
<1>2. CASE op = "ExchangeMTU"
  <2>1. item \in [mtu : {23, Mtu}]
    BY <1>2, ItemsOfKinds, Zenon
  <2>2. Mtu \in Nat /\ Mtu <= 65535
    BY PduAssumption
  <2>3. QED
    BY <2>1, <2>2 DEF NumbersFit, Numbers
<1>3. CASE op = "FindInformation"
  <2>1. item \in [handle : Handle, uuid : ItemUuid]
    BY <1>3, ItemsOfKinds, Zenon
  <2>2. QED
    BY <1>1, <2>1 DEF NumbersFit, Numbers
<1>4. CASE op = "FindByTypeValue"
  <2>1. item \in [start : Handle, end : Handle]
    BY <1>4, ItemsOfKinds, Zenon
  <2>2. QED
    BY <1>1, <2>1 DEF NumbersFit, Numbers
<1>5. CASE op = "ReadByType"
  <2>1. item \in [handle : Handle, char : Characteristic]
    BY <1>5, ItemsOfKinds, Zenon
  <2>2. item.char.valueHandle \in Handle
    BY <2>1 DEF Characteristic
  <2>3. QED
    BY <1>1, <2>1, <2>2 DEF NumbersFit, Numbers
<1>6. CASE op = "ReadByGroupType"
  <2>1. item \in [start : Handle, end : Handle, uuid : ItemUuid]
    BY <1>6, ItemsOfKinds, Zenon
  <2>2. QED
    BY <1>1, <2>1 DEF NumbersFit, Numbers
<1>7. CASE op = "Read"
  <2>1. item \in [value : Value]
    BY <1>7, ItemsOfKinds, Zenon
  <2>2. QED
    BY <2>1 DEF NumbersFit, Numbers
<1>8. CASE op = "Notification"
  <2>1. item \in [handle : Handle, value : Value]
    BY <1>8, ItemsOfKinds, Zenon
  <2>2. QED
    BY <1>1, <2>1 DEF NumbersFit, Numbers
<1>9. QED
  BY <1>0, <1>2, <1>3, <1>4, <1>5, <1>6, <1>7, <1>8 DEF AnswerOps

LEMMA RangeNumbers ==
    ASSUME NEW m, NEW n, Word(m), Word(n), NEW item, item = [start |-> m, end |-> n]
    PROVE  NumbersFit(item)
<1>1. m \in Nat /\ m <= 65535 /\ n \in Nat /\ n <= 65535
  BY WordsFit
<1>2. QED
  BY <1>1 DEF NumbersFit, Numbers

LEMMA GotNumbers ==
    ASSUME AnswerInv
    PROVE  \A i \in DOMAIN got : NumbersFit(got[i])
<1>1. CASE ~ received
  <2>1. got = <<>>
    BY <1>1 DEF AnswerInv, Reading
  <2>2. DOMAIN got = {}
    BY <2>1
  <2>3. QED
    BY <2>2
<1>2. CASE received
  <2>1. Packable(question.op, answer) /\ AsPacked(question.op, answer, got)
    BY <1>2, WhatWasGot
  <2>2. CASE question.op = "FindByTypeValue"
    <3>1. \A i \in DOMAIN got : \E m, n : Word(m) /\ Word(n) /\ got[i] = [start |-> m, end |-> n]
      BY <2>1, <2>2, Zenon DEF AsPacked, RangesFound
    <3>2. QED
      BY <3>1, RangeNumbers, Zenon
  <2>3. CASE question.op # "FindByTypeValue"
    <3>1. got = answer /\ answer \in Seq(ItemsOf(question.op))
      BY <2>1, <2>3, Zenon DEF AsPacked, Packable
    <3>2. \A i \in DOMAIN answer : answer[i] \in ItemsOf(question.op)
      BY <3>1, SeqIsFunction, Zenon
    <3>3. QED
      BY <3>1, <3>2, ItemNumbers, Zenon
  <2>4. QED
    BY <2>2, <2>3
<1>3. QED
  BY <1>1, <1>2

LEMMA SentType ==
    ASSUME PacketInv
    PROVE  sent \in Seq(Byte) /\ Len(sent) <= Mtu + 8
<1>1. CASE sent = <<>>
  <2>1. <<>> \in Seq(Byte) /\ Len(<<>>) <= Mtu + 8
    BY PduAssumption
  <2>2. QED
    BY <1>1, <2>1, Zenon
<1>2. CASE sent # <<>>
  BY <1>2, RequestBytes, Zenon DEF PacketInv
<1>3. QED
  BY <1>1, <1>2

(***************************************************************************)
(* The variables have their types: packets are bytes, and the numbers of   *)
(* the client, even those parseHandleInformation() reads behind the        *)
(* packet, have 16 bits.                                                   *)
(***************************************************************************)
THEOREM TypeCorrect == Spec => []TypeOK
<1>1. PacketInv /\ AnswerInv => TypeOK
  <2> SUFFICES ASSUME PacketInv, AnswerInv PROVE TypeOK
    OBVIOUS
  <2>1. sent \in Seq(Byte) /\ Len(sent) <= Mtu + 8
    BY SentType
  <2>2. /\ question \in Question \cup {Q("Notification", 0, 0, NullUUID, <<>>)}
        /\ answer \in Seq(ItemsOf(question.op)) /\ Len(answer) <= MaxItems
        /\ received \in BOOLEAN
    BY Zenon DEF AnswerInv, Asking, Notified
  <2>3. \A i \in DOMAIN got : NumbersFit(got[i])
    BY GotNumbers
  <2>4. \A i \in DOMAIN got : \A n \in Numbers(got[i]) : n \in Nat /\ n <= 65535
    BY <2>3 DEF NumbersFit
  <2>5. QED
    BY <2>1, <2>2, <2>4 DEF TypeOK
<1>2. QED
  BY <1>1, PacketInvariant, AnswerInvariant, PTL
=============================================================================
