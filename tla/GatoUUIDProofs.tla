--------------------------- MODULE GatoUUIDProofs ---------------------------
(***************************************************************************)
(* Proofs about GatoUUID: numbers and UUIDs survive the wire.  On the way, *)
(* what FlattenSeq() of the community modules makes of a sequence of       *)
(* sequences, which is how the wire puts fields and items together.        *)
(***************************************************************************)
EXTENDS GatoUUID, SequenceTheorems, WellFoundedInduction, TLAPS

LEMMA TwoBytes ==
    ASSUME NEW n \in Int, 0 <= n, n <= 65535
    PROVE  /\ n % 256 \in 0..255 /\ n \div 256 \in 0..255
           /\ (n \div 256) % 256 = n \div 256
           /\ (n % 256) + 256 * (n \div 256) = n
<1>1. n % 256 \in 0..255 /\ (n % 256) + 256 * (n \div 256) = n
  OBVIOUS
<1>2. n \div 256 \in Int /\ 0 <= n \div 256 /\ n \div 256 <= 255
  OBVIOUS
<1>3. (n \div 256) % 256 = n \div 256
  <2> DEFINE d == n \div 256
  <2>1. d \in Int /\ 0 <= d /\ d <= 255
    BY <1>2
  <2> HIDE DEF d
  <2>2. d % 256 = d
    BY <2>1
  <2>3. QED
    BY <2>2 DEF d
<1>4. QED
  BY <1>1, <1>2, <1>3

(***************************************************************************)
(* read_le() and write_le() are inverse to each other on 16 bits.          *)
(***************************************************************************)
THEOREM NumberSurvives ==
    ASSUME NEW n \in Int, 0 <= n, n <= 65535
    PROVE  /\ write_le(n) \in Seq(Byte) /\ Len(write_le(n)) = 2
           /\ write_le(n)[1] + 256 * write_le(n)[2] = n
           /\ read_le(write_le(n)) = n
BY TwoBytes DEF write_le, read_le, Byte

LEMMA UuidIsSeq ==
    ASSUME NEW u \in UUID
    PROVE  u \in Seq(Byte) /\ Len(u) = 16 /\ DOMAIN u = 1..16
<1>1. u \in Seq(Byte)
  BY SeqDef DEF UUID
<1>2. QED
  BY <1>1 DEF UUID

LEMMA ReverseOf16 ==
    ASSUME NEW u \in UUID
    PROVE  /\ Reverse(u) \in UUID
           /\ Len(Reverse(u)) = 16
           /\ \A i \in 1..16 : Reverse(u)[i] = u[17 - i]
<1>1. u \in Seq(Byte) /\ Len(u) = 16 /\ DOMAIN u = 1..16
  BY UuidIsSeq
<1>2. Reverse(u) = [i \in 1..16 |-> u[(16 - i) + 1]]
  BY <1>1 DEF Reverse
<1>3. \A i \in 1..16 : (16 - i) + 1 = 17 - i /\ (16 - i) + 1 \in 1..16
  OBVIOUS
<1>4. \A i \in 1..16 : Reverse(u)[i] = u[17 - i] /\ u[17 - i] \in Byte
  BY <1>2, <1>3 DEF UUID
<1>5. Reverse(u) \in [1..16 -> Byte]
  BY <1>2, <1>3 DEF UUID
<1>6. QED
  BY <1>4, <1>5 DEF UUID

LEMMA Concat4And12 ==
    ASSUME NEW a \in Seq(Int), NEW b \in Seq(Int), Len(a) = 4, Len(b) = 12
    PROVE  a \o b \in Seq(Int) /\ Len(a \o b) = 16
<1>1. a \o b \in Seq(Int) /\ Len(a \o b) = Len(a) + Len(b)
  BY ConcatProperties, Zenon
<1>2. QED
  BY <1>1

LEMMA UuidIsShort ==
    ASSUME NEW u \in UUID, minimumSize(u) = 2
    PROVE  u = UUID16(u[3], u[4])
<1>1. u \in Seq(Byte) /\ Len(u) = 16 /\ DOMAIN u = 1..16
  BY UuidIsSeq
<1>2. SubSeq(u, 5, 16) = BaseTail /\ u[1] = 0 /\ u[2] = 0
  BY DEF minimumSize
<1>3. \A i \in 5..16 : u[i] = BaseTail[i - 4]
  <2>1. SubSeq(u, 5, 16) = [i \in 1..12 |-> u[5 + i - 1]]
    BY <1>1
  <2>2. \A i \in 5..16 : i - 4 \in 1..12 /\ 5 + (i - 4) - 1 = i
    OBVIOUS
  <2>3. QED
    BY <1>2, <2>1, <2>2
<1>4. UUID16(u[3], u[4]) \in Seq(Int) /\ Len(UUID16(u[3], u[4])) = 16
  <2>1. u[3] \in Int /\ u[4] \in Int
    BY DEF UUID, Byte
  <2>2. <<0, 0, u[3], u[4]>> \in Seq(Int) /\ Len(<<0, 0, u[3], u[4]>>) = 4
    BY <2>1
  <2>3. BaseTail \in Seq(Int) /\ Len(BaseTail) = 12
    BY DEF BaseTail
  <2>4. QED
    BY <2>2, <2>3, Concat4And12, Zenon DEF UUID16
<1>5. \A i \in 1..16 : UUID16(u[3], u[4])[i] =
          IF i <= 4 THEN <<0, 0, u[3], u[4]>>[i] ELSE BaseTail[i - 4]
  BY DEF UUID16, BaseTail
<1>6. \A i \in 1..16 : u[i] = UUID16(u[3], u[4])[i]
  BY <1>1, <1>2, <1>3, <1>5
<1>7. u \in Seq(Int)
  <2>1. Byte \subseteq Int
    BY DEF Byte
  <2>2. QED
    BY <1>1, <2>1, SeqMonotonic, Zenon
<1>8. QED
  BY <1>1, <1>4, <1>6, <1>7, SeqEqual

(***************************************************************************)
(* gatouuid_to_bytearray() and bytearray_to_gatouuid() are inverse to each *)
(* other: any UUID survives in its long form, and one with a short form    *)
(* survives in that.                                                       *)
(***************************************************************************)
THEOREM UuidSurvives ==
    ASSUME NEW u \in UUID
    PROVE  /\ bytearray_to_gatouuid(gatouuid_to_bytearray(u, FALSE, FALSE)) = u
           /\ minimumSize(u) = 2 =>
                  bytearray_to_gatouuid(gatouuid_to_bytearray(u, TRUE, FALSE)) = u
<1>1. bytearray_to_gatouuid(gatouuid_to_bytearray(u, FALSE, FALSE)) = u
  <2>1. gatouuid_to_bytearray(u, FALSE, FALSE) = Reverse(u)
    BY Zenon DEF gatouuid_to_bytearray
  <2>2. bytearray_to_gatouuid(Reverse(u)) = Reverse(Reverse(u))
    <3>1. Len(Reverse(u)) = 16 /\ Len(Reverse(u)) # 2 /\ Len(Reverse(u)) # 4
      BY ReverseOf16
    <3>2. QED
      BY <3>1, Zenon DEF bytearray_to_gatouuid
  <2>3. Reverse(Reverse(u)) \in UUID
        /\ \A i \in 1..16 : Reverse(Reverse(u))[i] = Reverse(u)[17 - i]
    BY ReverseOf16
  <2>4. \A i \in 1..16 : Reverse(u)[17 - i] = u[17 - (17 - i)] /\ 17 - (17 - i) = i
    BY ReverseOf16
  <2>5. \A i \in 1..16 : Reverse(Reverse(u))[i] = u[i]
    BY <2>3, <2>4
  <2>6. Reverse(Reverse(u)) = u
    BY <2>3, <2>5 DEF UUID
  <2>7. QED
    BY <2>1, <2>2, <2>6
<1>2. ASSUME minimumSize(u) = 2
      PROVE  bytearray_to_gatouuid(gatouuid_to_bytearray(u, TRUE, FALSE)) = u
  <2>1. gatouuid_to_bytearray(u, TRUE, FALSE) = Reverse(<<u[3], u[4]>>)
    BY Zenon DEF gatouuid_to_bytearray, toUInt16Bytes
  <2>2. Reverse(<<u[3], u[4]>>) = <<u[4], u[3]>>
    BY DEF Reverse
  <2>3. bytearray_to_gatouuid(<<u[4], u[3]>>) = UUID16(u[3], u[4])
    <3>1. DEFINE ba == <<u[4], u[3]>>
    <3>2. Len(ba) = 2 /\ Len(ba) # 4 /\ Len(ba) # 16 /\ ba[1] = u[4] /\ ba[2] = u[3]
      OBVIOUS
    <3>3. HIDE DEF ba
    <3>4. bytearray_to_gatouuid(ba) = UUID16(ba[2], ba[1])
      BY <3>2, Zenon DEF bytearray_to_gatouuid
    <3>5. QED
      BY <3>2, <3>4 DEF ba
  <2>4. QED
    BY <1>2, <2>1, <2>2, <2>3, UuidIsShort
<1>3. QED
  BY <1>1, <1>2

-----------------------------------------------------------------------------
\* FlattenSeq() is a recursive function, about which nothing can be proved by
\* the induction theorems; but where two functions that solve its equation
\* first differ is a smallest number.
LEMMA SmallestNumber ==
    ASSUME NEW S \in SUBSET Nat, S # {}
    PROVE  \E x \in S : \A y \in S : x <= y
<1>1. PICK x \in S : \A y \in S : <<y, x>> \notin OpToRel(<, Nat)
  BY WFMin, NatLessThanWellFounded, Zenon
<1>2. \A y \in S : ~ (y < x)
  BY <1>1, Zenon DEF OpToRel
<1>3. QED
  BY <1>2

(***************************************************************************)
(* FlattenSeq(): f[i] is the first i of the sequences put together.        *)
(***************************************************************************)
Accumulates(f, s, n) ==
    f = [i \in 1..n |-> IF i = 1 THEN s[i] ELSE f[i - 1] \o s[i]]

LEMMA AccumulatesOnce ==
    ASSUME NEW s, NEW n \in Nat, NEW f, NEW g, Accumulates(f, s, n), Accumulates(g, s, n)
    PROVE  f = g
<1> DEFINE T == {i \in 1..n : f[i] # g[i]}
<1>1. ASSUME T # {} PROVE FALSE
  <2>1. PICK i \in T : \A j \in T : i <= j
    <3>1. T \in SUBSET Nat
      OBVIOUS
    <3>2. QED
      BY <1>1, <3>1, SmallestNumber
  <2>2. i \in 1..n /\ f[i] # g[i]
    BY <2>1
  <2>3. f[i] = IF i = 1 THEN s[i] ELSE f[i - 1] \o s[i]
    BY <2>2 DEF Accumulates
  <2>4. g[i] = IF i = 1 THEN s[i] ELSE g[i - 1] \o s[i]
    BY <2>2 DEF Accumulates
  <2>5. i = 1 \/ f[i - 1] = g[i - 1]
    BY <2>1, <2>2
  <2>6. QED
    BY <2>2, <2>3, <2>4, <2>5
<1>2. \A i \in 1..n : f[i] = g[i]
  BY <1>1
<1>3. f = [i \in 1..n |-> f[i]] /\ g = [i \in 1..n |-> g[i]]
  BY DEF Accumulates
<1>4. QED
  BY <1>2, <1>3

LEMMA FlattenAccumulates ==
    ASSUME NEW s, Len(s) \in Nat \ {0}, NEW f, Accumulates(f, s, Len(s))
    PROVE  FlattenSeq(s) = f[Len(s)]
<1> DEFINE g == CHOOSE h : h = [i \in 1..Len(s) |-> IF i = 1 THEN s[i] ELSE h[i - 1] \o s[i]]
<1>1. Accumulates(g, s, Len(s))
  BY Zenon DEF Accumulates
<1>2. FlattenSeq(s) = g[Len(s)]
  BY Zenon DEF FlattenSeq
<1> HIDE DEF g
<1>3. f = g
  BY <1>1, AccumulatesOnce
<1>4. QED
  BY <1>2, <1>3

LEMMA Accumulated ==
    ASSUME NEW s, NEW n \in Nat, NEW f, Accumulates(f, s, n), NEW i \in 1..n
    PROVE  f[i] = IF i = 1 THEN s[i] ELSE f[i - 1] \o s[i]
BY DEF Accumulates

LEMMA OneMoreAccumulated ==
    ASSUME NEW s, NEW n \in Nat \ {0}, NEW f, Accumulates(f, s, n)
    PROVE  \E g : /\ Accumulates(g, s, n + 1)
                  /\ \A i \in 1..n : g[i] = f[i]
                  /\ g[n + 1] = f[n] \o s[n + 1]
<1> DEFINE m == n + 1
           g == [i \in 1..m |-> IF i < m THEN f[i] ELSE f[n] \o s[m]]
<1>1. m \in Nat /\ m = n + 1 /\ m # 1
  OBVIOUS
<1>2. g = [i \in 1..m |-> g[i]]
  OBVIOUS
<1>3. \A i \in 1..n : i \in 1..m /\ i < m
  OBVIOUS
<1>4. m \in 1..m /\ ~ (m < m)
  OBVIOUS
<1> HIDE DEF m
<1>5. \A i \in 1..n : g[i] = f[i]
  BY <1>3
<1>6. g[m] = f[n] \o s[m]
  BY <1>4
<1> HIDE DEF g
<1>7. ASSUME NEW i \in 1..m PROVE g[i] = IF i = 1 THEN s[i] ELSE g[i - 1] \o s[i]
  <2>1. CASE i = m
    <3>1. i - 1 = n /\ i # 1 /\ n \in 1..n
      BY <2>1, <1>1
    <3>2. g[i - 1] = f[n]
      BY <1>5, <3>1
    <3>3. QED
      BY <2>1, <1>6, <3>1, <3>2
  <2>2. CASE i # m
    <3>1. i \in 1..n
      BY <2>2, <1>1
    <3>2. f[i] = IF i = 1 THEN s[i] ELSE f[i - 1] \o s[i]
      BY <3>1, Accumulated
    <3>3. i # 1 => i - 1 \in 1..n
      BY <3>1
    <3>4. g[i] = f[i] /\ (i # 1 => g[i - 1] = f[i - 1])
      BY <1>5, <3>1, <3>3
    <3>5. QED
      BY <3>2, <3>4
  <2>3. QED
    BY <2>1, <2>2
<1>8. Accumulates(g, s, m)
  BY <1>2, <1>7 DEF Accumulates
<1>9. QED
  BY <1>5, <1>6, <1>8, Zenon DEF m

LEMMA SomeAccumulation ==
    ASSUME NEW S, NEW s, NEW m \in Nat \ {0}, \A i \in 1..m : s[i] \in Seq(S)
    PROVE  \E f : Accumulates(f, s, m) /\ \A i \in 1..m : f[i] \in Seq(S)
<1> DEFINE Good(n) == \E f : Accumulates(f, s, n) /\ \A i \in 1..n : f[i] \in Seq(S)
           T == {n \in 1..m : ~ Good(n)}
<1>1. Good(1)
  <2> DEFINE g == [i \in 1..1 |-> s[i]]
  <2>1. \A i \in 1..1 : g[i] \in Seq(S)
    OBVIOUS
  <2>2. Accumulates(g, s, 1)
    BY DEF Accumulates
  <2> HIDE DEF g
  <2>3. QED
    BY <2>1, <2>2
<1>2. ASSUME NEW n \in 1..m, n + 1 \in 1..m, Good(n) PROVE Good(n + 1)
  <2>1. PICK f : Accumulates(f, s, n) /\ \A i \in 1..n : f[i] \in Seq(S)
    BY <1>2
  <2>2. PICK g : /\ Accumulates(g, s, n + 1)
                 /\ \A i \in 1..n : g[i] = f[i]
                 /\ g[n + 1] = f[n] \o s[n + 1]
    <3>1. n \in Nat \ {0}
      OBVIOUS
    <3>2. QED
      BY <2>1, <3>1, OneMoreAccumulated, Zenon
  <2>3. f[n] \in Seq(S) /\ s[n + 1] \in Seq(S)
    BY <1>2, <2>1
  <2>4. g[n + 1] \in Seq(S)
    BY <2>2, <2>3, ConcatProperties, Zenon
  <2>5. \A i \in 1..(n + 1) : i = n + 1 \/ i \in 1..n
    OBVIOUS
  <2>6. \A i \in 1..(n + 1) : g[i] \in Seq(S)
    BY <2>1, <2>2, <2>4, <2>5
  <2>7. QED
    BY <2>2, <2>6
<1> HIDE DEF Good
<1>3. ASSUME T # {} PROVE FALSE
  <2>1. T \in SUBSET Nat
    OBVIOUS
  <2>2. PICK n \in T : \A j \in T : n <= j
    BY <1>3, <2>1, SmallestNumber
  <2>3. n \in 1..m /\ ~ Good(n) /\ n > 1
    BY <1>1, <2>2
  <2>4. PICK k \in 1..m : n = k + 1 /\ k \notin T
    <3>1. n - 1 \in 1..m /\ n = (n - 1) + 1 /\ ~ (n <= n - 1)
      BY <2>3
    <3>2. n - 1 \notin T
      BY <2>2, <3>1
    <3>3. QED
      BY <3>1, <3>2
  <2>5. QED
    BY <1>2, <2>3, <2>4
<1>4. m \in 1..m /\ m \notin T
  BY <1>3
<1>5. Good(m)
  BY <1>4
<1>6. QED
  BY <1>5 DEF Good

\* What there is to know of FlattenSeq(): it has an accumulation.
LEMMA FlattenIs ==
    ASSUME NEW S, NEW s \in Seq(Seq(S)), s # <<>>
    PROVE  /\ Len(s) \in Nat \ {0}
           /\ FlattenSeq(s) \in Seq(S)
           /\ \E f : /\ Accumulates(f, s, Len(s))
                     /\ \A i \in 1..Len(s) : f[i] \in Seq(S)
                     /\ FlattenSeq(s) = f[Len(s)]
<1> DEFINE m == Len(s)
<1>1. m \in Nat \ {0} /\ m \in 1..m
  BY EmptySeq, LenProperties
<1>2. \A i \in 1..m : s[i] \in Seq(S)
  BY ElementOfSeq
<1>3. PICK f : Accumulates(f, s, m) /\ \A i \in 1..m : f[i] \in Seq(S)
  BY <1>1, <1>2, SomeAccumulation
<1>4. FlattenSeq(s) = f[m]
  BY <1>1, <1>3, FlattenAccumulates
<1>5. QED
  BY <1>1, <1>3, <1>4

LEMMA FlattenNothing == FlattenSeq(<<>>) = <<>>
BY DEF FlattenSeq

LEMMA FlattenType ==
    ASSUME NEW S, NEW s \in Seq(Seq(S))
    PROVE  FlattenSeq(s) \in Seq(S)
BY FlattenIs, FlattenNothing, EmptySeq

LEMMA FlattenLonger ==
    ASSUME NEW S, NEW s \in Seq(Seq(S)), NEW a \in Seq(Seq(S)), NEW n \in Nat,
           Len(s) = n, Len(a) = n + 1, \A i \in 1..n : a[i] = s[i]
    PROVE  FlattenSeq(a) = FlattenSeq(s) \o a[n + 1]
<1>1. a # <<>> /\ a[n + 1] \in Seq(S)
  BY EmptySeq, ElementOfSeq
<1>2. CASE s = <<>>
  <2>1. n = 0 /\ FlattenSeq(s) = <<>>
    BY <1>2, FlattenNothing, EmptySeq
  <2>2. PICK f : Accumulates(f, a, 1) /\ FlattenSeq(a) = f[1]
    <3>1. Len(a) = 1
      BY <1>1, <2>1
    <3>2. PICK f : Accumulates(f, a, Len(a)) /\ FlattenSeq(a) = f[Len(a)]
      BY <1>1, FlattenIs, Zenon
    <3>3. QED
      BY <3>1, <3>2
  <2>3. f[1] = a[1]
    BY <2>2, Accumulated
  <2>4. <<>> \o a[n + 1] = a[n + 1]
    BY <1>1, ConcatEmptySeq
  <2>5. QED
    BY <1>1, <2>1, <2>2, <2>3, <2>4
<1>3. CASE s # <<>>
  <2>1. PICK f : Accumulates(f, s, n) /\ FlattenSeq(s) = f[n]
    BY <1>1, <1>3, FlattenIs
  <2>2. n \in 1..n /\ n + 1 \in 1..(n + 1) /\ n + 1 # 1
    BY <1>1, <1>3, FlattenIs
  <2>3. PICK g : Accumulates(g, a, n + 1) /\ FlattenSeq(a) = g[n + 1]
    BY <1>1, FlattenIs
  <2>4. PICK h : /\ Accumulates(h, a, n + 1)
                 /\ h[n + 1] = f[n] \o a[n + 1]
    <3>1. Accumulates(f, a, n)
      <4>1. ASSUME NEW i \in 1..n PROVE f[i] = IF i = 1 THEN a[i] ELSE f[i - 1] \o a[i]
        <5>1. f[i] = IF i = 1 THEN s[i] ELSE f[i - 1] \o s[i]
          BY <2>1, Accumulated, Zenon
        <5>2. QED
          BY <5>1
      <4>2. f = [i \in 1..n |-> f[i]]
        BY <2>1 DEF Accumulates
      <4>3. QED
        BY <4>1, <4>2 DEF Accumulates
    <3>2. n \in Nat \ {0}
      BY <1>1, <2>2
    <3>3. PICK h : /\ Accumulates(h, a, n + 1)
                   /\ \A i \in 1..n : h[i] = f[i]
                   /\ h[n + 1] = f[n] \o a[n + 1]
      BY <3>1, <3>2, OneMoreAccumulated, Zenon
    <3>4. QED
      BY <1>1, <3>3, Zenon
  <2>5. g[n + 1] = h[n + 1]
    <3>1. PICK m \in Nat : m = n + 1
      OBVIOUS
    <3>2. Accumulates(g, a, m) /\ Accumulates(h, a, m)
      BY <2>3, <2>4, <3>1
    <3>3. QED
      BY <3>2, AccumulatesOnce, Zenon
  <2>6. QED
    BY <2>1, <2>3, <2>4, <2>5
<1>4. QED
  BY <1>2, <1>3

LEMMA AccumulatedNext ==
    ASSUME NEW s, NEW n \in Nat, NEW f, Accumulates(f, s, n), NEW q \in 1..n, q + 1 \in 1..n
    PROVE  f[q + 1] = f[q] \o s[q + 1]
<1>1. PICK i \in 1..n : i = q + 1 /\ i # 1 /\ i - 1 = q
  OBVIOUS
<1>2. f[i] = IF i = 1 THEN s[i] ELSE f[i - 1] \o s[i]
  BY Accumulated
<1>3. QED
  BY <1>1, <1>2

LEMMA AccumulatesByNext ==
    ASSUME NEW s, NEW n \in Nat \ {0}, NEW g, g = [i \in 1..n |-> g[i]], g[1] = s[1],
           \A q \in 1..n : q + 1 \in 1..n => g[q + 1] = g[q] \o s[q + 1]
    PROVE  Accumulates(g, s, n)
<1>1. ASSUME NEW i \in 1..n PROVE g[i] = IF i = 1 THEN s[i] ELSE g[i - 1] \o s[i]
  <2>1. CASE i = 1
    BY <2>1
  <2>2. CASE i # 1
    <3>1. PICK q \in 1..n : i = q + 1 /\ i - 1 = q
      <4>1. i - 1 \in 1..n /\ i = (i - 1) + 1
        BY <2>2
      <4>2. QED
        BY <4>1
    <3>2. g[q + 1] = g[q] \o s[q + 1]
      BY <3>1
    <3>3. QED
      BY <2>2, <3>1, <3>2
  <2>3. QED
    BY <2>1, <2>2
<1>2. QED
  BY <1>1 DEF Accumulates

LEMMA ConcatenationAssociates ==
    ASSUME NEW S
    PROVE  \A x, y, z \in Seq(S) : (x \o y) \o z = x \o (y \o z)
BY ConcatAssociative

AllSequences(S, f, n) == \A i \in 1..n : f[i] \in Seq(S)

Shifted(s, t, n) == \A i \in 1..n : t[i] = s[i + 1]

\* What f accumulates, with a sequence before it.
Prefixed(x, f, n) == [i \in 1..(n + 1) |-> IF i = 1 THEN x ELSE x \o f[i - 1]]

LEMMA AccumulatedBehind ==
    ASSUME NEW S, NEW s \in Seq(Seq(S)), NEW t \in Seq(Seq(S)), NEW n \in Nat, n # 0,
           s[1] \in Seq(S), Shifted(s, t, n), AllSequences(S, t, n),
           NEW f, Accumulates(f, t, n), AllSequences(S, f, n)
    PROVE  Accumulates(Prefixed(s[1], f, n), s, n + 1)
<1>0. \A x, y, z \in Seq(S) : (x \o y) \o z = x \o (y \o z)
  BY ONLY ConcatenationAssociates
<1> USE DEF AllSequences, Shifted
<1> DEFINE g == Prefixed(s[1], f, n)
<1>1. g = [i \in 1..(n + 1) |-> g[i]] /\ g[1] = s[1]
  BY DEF Prefixed
<1>2. ASSUME NEW i \in 1..n PROVE g[i + 1] = s[1] \o f[i]
  <2>1. PICK j \in 1..(n + 1) : j = i + 1 /\ j # 1 /\ j - 1 = i
    OBVIOUS
  <2>2. g[j] = s[1] \o f[j - 1]
    BY <2>1 DEF Prefixed
  <2> HIDE DEF g
  <2>3. QED
    BY <2>1, <2>2
<1> HIDE DEF g
<1>3. ASSUME NEW q \in 1..(n + 1), q + 1 \in 1..(n + 1)
      PROVE  g[q + 1] = g[q] \o s[q + 1]
  <2>1. q \in 1..n
    BY <1>3
  <2>2. g[q + 1] = s[1] \o f[q]
    BY <1>2, <2>1
  <2>3. CASE q = 1
    <3>1. f[1] = t[1] /\ t[1] = s[2]
      BY <2>1, <2>3, Accumulated
    <3>2. s[q + 1] = t[1] /\ g[q] = s[1]
      BY <1>1, <2>3, <3>1
    <3>3. QED
      BY <2>2, <2>3, <3>1, <3>2, Zenon
  <2>4. CASE q # 1
    <3>1. PICK p \in 1..n : q = p + 1
      <4>1. q - 1 \in 1..n /\ q = (q - 1) + 1
        BY <2>1, <2>4
      <4>2. QED
        BY <4>1
    <3>2. f[p + 1] = f[p] \o t[p + 1]
      BY <2>1, <3>1, AccumulatedNext, Zenon
    <3>3. f[q] = f[p] \o t[q]
      BY <3>1, <3>2
    <3>4. g[p + 1] = s[1] \o f[p]
      BY <1>2, <3>1
    <3>5. f[p] \in Seq(S) /\ t[q] \in Seq(S) /\ t[q] = s[q + 1]
      BY <2>1, <3>1
    <3>6. s[1] \o (f[p] \o t[q]) = (s[1] \o f[p]) \o t[q]
      <4>1. PICK x \in Seq(S), y \in Seq(S), z \in Seq(S) : x = s[1] /\ y = f[p] /\ z = t[q]
        BY <3>5
      <4>2. (x \o y) \o z = x \o (y \o z)
        BY <1>0
      <4>3. QED
        BY <4>1, <4>2, Zenon
    <3>7. g[q] = s[1] \o f[p]
      BY <3>1, <3>4
    <3>8. QED
      BY <2>2, <3>3, <3>5, <3>6, <3>7, Zenon
  <2>5. QED
    BY <2>3, <2>4
<1>4. Accumulates(g, s, n + 1)
  <2>1. n + 1 \in Nat \ {0}
    OBVIOUS
  <2>2. QED
    BY <1>1, <1>3, <2>1, AccumulatesByNext, Zenon
<1>5. QED
  BY <1>4 DEF g

LEMMA FlattenFirst ==
    ASSUME NEW S, NEW s \in Seq(Seq(S)), NEW t \in Seq(Seq(S)), NEW n \in Nat,
           Len(s) = n + 1, Len(t) = n, \A i \in 1..n : t[i] = s[i + 1]
    PROVE  FlattenSeq(s) = s[1] \o FlattenSeq(t)
<1>1. s # <<>> /\ s[1] \in Seq(S)
  BY EmptySeq, ElementOfSeq
<1>2. CASE n = 0
  <2>1. t = <<>> /\ FlattenSeq(t) = <<>>
    BY <1>2, FlattenNothing, EmptySeq
  <2>2. PICK f : Accumulates(f, s, Len(s)) /\ FlattenSeq(s) = f[Len(s)]
    BY <1>1, FlattenIs, Zenon
  <2>3. f[1] = s[1]
    BY <1>2, <2>2, Accumulated
  <2>4. s[1] \o <<>> = s[1]
    BY <1>1, ConcatEmptySeq
  <2>5. QED
    BY <1>2, <2>1, <2>2, <2>3, <2>4
<1>3. CASE n > 0
  <2>1. t # <<>> /\ n \in Nat \ {0}
    BY <1>3, EmptySeq
  <2>2. PICK f : /\ Accumulates(f, t, n) /\ \A i \in 1..n : f[i] \in Seq(S)
                 /\ FlattenSeq(t) = f[n]
    BY <2>1, FlattenIs, Zenon
  <2>3. Shifted(s, t, n) /\ AllSequences(S, t, n)
    BY ElementOfSeq DEF Shifted, AllSequences
  <2> DEFINE g == Prefixed(s[1], f, n)
  <2>4. Accumulates(g, s, n + 1)
    <3>1. s[1] \in Seq(S) /\ n # 0
      BY <1>1, <2>1
    <3>2. Accumulates(f, t, n) /\ AllSequences(S, f, n)
      BY <2>2 DEF AllSequences
    <3>3. QED
      BY <2>3, <3>1, <3>2, AccumulatedBehind
  <2>5. g[n + 1] = s[1] \o f[n]
    <3>1. PICK m \in 1..(n + 1) : m = n + 1 /\ m # 1 /\ m - 1 = n
      BY <1>3
    <3>2. g[m] = s[1] \o f[m - 1]
      BY <3>1 DEF Prefixed
    <3> HIDE DEF g
    <3>3. QED
      BY <3>1, <3>2
  <2> HIDE DEF g
  <2>6. Len(s) \in Nat \ {0} /\ Accumulates(g, s, Len(s)) /\ g[Len(s)] = g[n + 1]
    BY <2>4
  <2>7. FlattenSeq(s) = g[Len(s)]
    BY <2>6, FlattenAccumulates
  <2>8. QED
    BY <2>2, <2>5, <2>6, <2>7, Zenon
<1>4. QED
  BY <1>2, <1>3

-----------------------------------------------------------------------------
(***************************************************************************)
(* Sequences of the same length, such as the items of a list, one after    *)
(* the other.                                                              *)
(***************************************************************************)
LEMMA Product == \A a, b \in Nat : a * b \in Nat
OBVIOUS

LEMMA ProductOfSum == \A a, b, c \in Nat : a * (b + 1 + c) = a * b + a + a * c
OBVIOUS

LEMMA PlaceOfItem ==
    ASSUME NEW size \in Nat \ {0}, NEW m \in Nat, NEW i \in 1..m, NEW k \in 1..size
    PROVE  size * (i - 1) + k \in 1..(size * m)
<1>1. PICK p \in Nat : i = p + 1
  <2>1. i - 1 \in Nat /\ i = (i - 1) + 1
    OBVIOUS
  <2>2. QED
    BY <2>1
<1>2. PICK d \in Nat : m = p + 1 + d
  <2>1. m - i \in Nat /\ m = p + 1 + (m - i)
    BY <1>1
  <2>2. QED
    BY <2>1
<1>3. size * m = size * p + size + size * d
  BY <1>2, ProductOfSum
<1>4. size * p \in Nat /\ size * d \in Nat /\ size * (i - 1) = size * p
  BY <1>1, Product
<1> DEFINE x == size * p
           y == size * d
<1> HIDE DEF x, y
<1>5. x \in Nat /\ y \in Nat /\ size * m = x + size + y /\ size * (i - 1) = x
  BY <1>3, <1>4 DEF x, y
<1>6. QED
  BY <1>5

LEMMA OneItemMore ==
    ASSUME NEW size \in Nat \ {0}, NEW m \in Nat
    PROVE  size * m \in Nat /\ size * (m + 1) = size * m + size
OBVIOUS

Itemised(list, s, size, m) ==
    /\ Len(list) = size * m
    /\ \A i \in 1..m : \A k \in 1..size : list[size * (i - 1) + k] = s[i][k]

LEMMA ItemAppended ==
    ASSUME NEW S, NEW s \in Seq(Seq(S)), NEW size \in Nat \ {0},
           NEW list \in Seq(S), NEW m \in Nat, m + 1 \in 1..Len(s),
           Itemised(list, s, size, m), Len(s[m + 1]) = size
    PROVE  Itemised(list \o s[m + 1], s, size, m + 1)
<1>0. PICK item \in Seq(S) : item = s[m + 1] /\ Len(item) = size
  BY ElementOfSeq
<1>1. /\ Len(list \o item) = Len(list) + Len(item)
      /\ \A j \in 1..(Len(list) + Len(item)) :
            (list \o item)[j] = IF j <= Len(list) THEN list[j] ELSE item[j - Len(list)]
  BY ConcatProperties, Zenon
<1>2. PICK w \in Nat : w = size * m /\ size * (m + 1) = w + size
  BY OneItemMore
<1>3. Len(list) = w /\ Len(list \o item) = size * (m + 1) /\ size \in Nat
  BY <1>0, <1>1, <1>2 DEF Itemised
<1>4. ASSUME NEW i \in 1..(m + 1), NEW k \in 1..size
      PROVE  (list \o item)[size * (i - 1) + k] = s[i][k]
  <2>1. CASE i = m + 1
    <3>1. size * (i - 1) + k = w + k
      BY <2>1, <1>2
    <3>2. w + k \in 1..(w + size) /\ ~ (w + k <= w) /\ (w + k) - w = k
      BY <1>3
    <3>3. (list \o item)[w + k] = item[k]
      BY <1>0, <1>1, <1>3, <3>2
    <3>4. QED
      BY <1>0, <2>1, <3>1, <3>3
  <2>2. CASE i # m + 1
    <3>1. i \in 1..m
      BY <2>2
    <3>2. PICK p : p = size * (i - 1) + k /\ p \in 1..w
      BY <1>2, <3>1, PlaceOfItem
    <3>3. (list \o item)[p] = list[p]
      BY <1>0, <1>1, <1>3, <3>2
    <3>4. list[p] = s[i][k]
      BY <3>1, <3>2 DEF Itemised
    <3>5. QED
      BY <3>2, <3>3, <3>4
  <2>3. QED
    BY <2>1, <2>2
<1>5. QED
  BY <1>0, <1>3, <1>4 DEF Itemised

LEMMA FlattenItems ==
    ASSUME NEW S, NEW s \in Seq(Seq(S)), NEW size \in Nat \ {0},
           \A i \in 1..Len(s) : Len(s[i]) = size
    PROVE  Itemised(FlattenSeq(s), s, size, Len(s))
<1>1. CASE s = <<>>
  BY <1>1, FlattenNothing DEF Itemised
<1>2. CASE s # <<>>
  <2>1. PICK f : /\ Accumulates(f, s, Len(s)) /\ \A i \in 1..Len(s) : f[i] \in Seq(S)
                 /\ FlattenSeq(s) = f[Len(s)]
    BY <1>2, FlattenIs
  <2>2. Len(s) \in Nat \ {0}
    BY <1>2, FlattenIs
  <2> DEFINE Good(m) == Itemised(f[m], s, size, m)
             T == {m \in 1..Len(s) : ~ Good(m)}
  <2>3. Good(1)
    <3>1. f[1] = s[1] /\ Len(s[1]) = size
      BY <2>1, <2>2, Accumulated
    <3>2. \A i \in 1..1 : i = 1
      OBVIOUS
    <3>3. \A k \in 1..size : size * (1 - 1) + k = k
      OBVIOUS
    <3>4. size * 1 = size
      OBVIOUS
    <3>5. QED
      BY <3>1, <3>2, <3>3, <3>4 DEF Itemised
  <2>4. ASSUME NEW m \in 1..Len(s), m + 1 \in 1..Len(s), Good(m) PROVE Good(m + 1)
    <3>1. f[m + 1] = f[m] \o s[m + 1]
      BY <2>1, <2>2, <2>4, AccumulatedNext
    <3>2. f[m] \in Seq(S) /\ m \in Nat /\ Len(s[m + 1]) = size
      BY <2>1, <2>4
    <3>3. Itemised(f[m] \o s[m + 1], s, size, m + 1)
      BY <2>4, <3>2, ItemAppended
    <3>4. QED
      BY <3>1, <3>3, Zenon
  <2> HIDE DEF Good
  <2>5. ASSUME T # {} PROVE FALSE
    <3>1. T \in SUBSET Nat
      BY <2>2
    <3>2. PICK m \in T : \A j \in T : m <= j
      BY <2>5, <3>1, SmallestNumber
    <3>3. m \in 1..Len(s) /\ ~ Good(m) /\ m # 1
      BY <2>3, <3>2
    <3>4. PICK k \in 1..Len(s) : m = k + 1 /\ k \notin T
      <4>1. m - 1 \in 1..Len(s) /\ m = (m - 1) + 1 /\ ~ (m <= m - 1)
        BY <2>2, <3>3
      <4>2. m - 1 \notin T
        BY <3>2, <4>1
      <4>3. QED
        BY <4>1, <4>2
    <3>5. QED
      BY <2>4, <3>3, <3>4
  <2>6. Len(s) \in 1..Len(s) /\ Len(s) \notin T
    BY <2>2, <2>5
  <2>7. Good(Len(s))
    BY <2>6
  <2>8. QED
    BY <2>1, <2>7 DEF Good
<1>3. QED
  BY <1>1, <1>2

-----------------------------------------------------------------------------
(***************************************************************************)
(* What bytearray_to_gatouuid() makes of the three lengths.                *)
(***************************************************************************)
LEMMA SpelledType ==
    ASSUME NEW u \in UUID, NEW size \in {2, 4, 16}
    PROVE  Spelled(u, size) \in Seq(Byte) /\ Len(Spelled(u, size)) = size
<1>1. \A k \in 1..size : (IF size = 16 THEN 17 ELSE 5) - k \in 1..16
  OBVIOUS
<1>2. Spelled(u, size) \in [1..size -> Byte]
  BY <1>1 DEF Spelled, UUID
<1>3. size \in Nat
  OBVIOUS
<1>4. QED
  BY <1>2, <1>3, SeqDef

LEMMA ReadShort ==
    ASSUME NEW ba, Len(ba) = 2, Len(ba) # 4, Len(ba) # 16
    PROVE  bytearray_to_gatouuid(ba) = UUID16(ba[2], ba[1])
BY Zenon DEF bytearray_to_gatouuid

LEMMA ReadLong ==
    ASSUME NEW ba, Len(ba) = 4, Len(ba) # 2, Len(ba) # 16
    PROVE  bytearray_to_gatouuid(ba) = UUID32(Reverse(ba))
BY Zenon DEF bytearray_to_gatouuid

LEMMA ReadFull ==
    ASSUME NEW ba, Len(ba) = 16, Len(ba) # 2, Len(ba) # 4
    PROVE  bytearray_to_gatouuid(ba) = Reverse(ba)
BY Zenon DEF bytearray_to_gatouuid

LEMMA ReadUuidType ==
    ASSUME NEW ba \in Seq(Byte), Len(ba) \in {2, 4, 16}
    PROVE  bytearray_to_gatouuid(ba) \in UUID
<1>0. BaseTail \in Seq(Byte) /\ Len(BaseTail) = 12
  BY DEF BaseTail, Byte
<1>1. ASSUME NEW d \in Seq(Byte), Len(d) = 4 PROVE d \o BaseTail \in UUID
  <2>1. d \o BaseTail \in Seq(Byte) /\ Len(d \o BaseTail) = 16
    <3>1. d \o BaseTail \in Seq(Byte) /\ Len(d \o BaseTail) = Len(d) + Len(BaseTail)
      BY <1>0, ConcatProperties, Zenon
    <3>2. QED
      BY <1>0, <1>1, <3>1
  <2>2. QED
    BY <2>1, LenProperties DEF UUID
<1>2. CASE Len(ba) = 2
  <2>1. bytearray_to_gatouuid(ba) = UUID16(ba[2], ba[1])
    <3>1. Len(ba) = 2 /\ Len(ba) # 4 /\ Len(ba) # 16
      BY <1>2
    <3>2. QED
      BY <3>1, ReadShort, Zenon
  <2>2. ba[1] \in Byte /\ ba[2] \in Byte
    BY <1>2
  <2>3. <<0, 0, ba[2], ba[1]>> \in Seq(Byte) /\ Len(<<0, 0, ba[2], ba[1]>>) = 4
    BY <2>2 DEF Byte
  <2>4. QED
    BY <1>1, <2>1, <2>3 DEF UUID16
<1>3. Reverse(ba) \in Seq(Byte) /\ Len(Reverse(ba)) = Len(ba)
  <2>1. \A i \in 1..Len(ba) : (Len(ba) - i) + 1 \in 1..Len(ba)
    OBVIOUS
  <2>2. Reverse(ba) \in [1..Len(ba) -> Byte]
    BY <2>1 DEF Reverse
  <2>3. QED
    BY <2>2, SeqDef
<1>4. CASE Len(ba) = 4
  <2>1. bytearray_to_gatouuid(ba) = UUID32(Reverse(ba))
    <3>1. Len(ba) = 4 /\ Len(ba) # 2 /\ Len(ba) # 16
      BY <1>4
    <3>2. QED
      BY <3>1, ReadLong, Zenon
  <2>2. QED
    BY <1>1, <1>3, <1>4, <2>1 DEF UUID32
<1>5. CASE Len(ba) = 16
  <2>1. bytearray_to_gatouuid(ba) = Reverse(ba)
    <3>1. Len(ba) = 16 /\ Len(ba) # 2 /\ Len(ba) # 4
      BY <1>5
    <3>2. QED
      BY <3>1, ReadFull, Zenon
  <2>2. QED
    BY <1>3, <1>5, <2>1, LenProperties DEF UUID
<1>6. QED
  BY <1>2, <1>4, <1>5

(***************************************************************************)
(* bytearray_to_gatouuid() understands a UUID in whatever length another   *)
(* device has put it into a list: two bytes, four or sixteen.              *)
(***************************************************************************)
THEOREM SpellingsAreRead ==
    ASSUME NEW u \in UUID, NEW size \in {2, 4, 16}, HasSpelling(u, size)
    PROVE  bytearray_to_gatouuid(Spelled(u, size)) = u
<1> DEFINE ba == Spelled(u, size)
<1>0. /\ u \in Seq(Byte) /\ Len(u) = 16 /\ DOMAIN u = 1..16
      /\ ba \in Seq(Byte) /\ Len(ba) = size
      /\ \A k \in 1..size : ba[k] = u[(IF size = 16 THEN 17 ELSE 5) - k]
  BY UuidIsSeq, SpelledType DEF Spelled
<1> HIDE DEF ba
<1>1. CASE size = 2
  <2>1. minimumSize(u) = 2
    BY <1>1 DEF HasSpelling, minimumSize
  <2>2. ba[1] = u[4] /\ ba[2] = u[3]
    BY <1>0, <1>1
  <2>3. bytearray_to_gatouuid(ba) = UUID16(ba[2], ba[1])
    <3>1. Len(ba) = 2 /\ Len(ba) # 4 /\ Len(ba) # 16
      BY <1>0, <1>1
    <3>2. QED
      BY <3>1, ReadShort, Zenon
  <2>4. QED
    BY <2>1, <2>2, <2>3, UuidIsShort DEF ba
<1>2. CASE size = 4
  <2>1. SubSeq(u, 5, 16) = BaseTail
    BY <1>2 DEF HasSpelling, minimumSize
  <2>2. bytearray_to_gatouuid(ba) = Reverse(ba) \o BaseTail
    <3>1. Len(ba) # 2 /\ Len(ba) = 4 /\ Len(ba) # 16
      BY <1>0, <1>2
    <3>2. bytearray_to_gatouuid(ba) = UUID32(Reverse(ba))
      BY <3>1, ReadLong
    <3>3. QED
      BY <3>2, Zenon DEF UUID32
  <2>3. Reverse(ba) = SubSeq(u, 1, 4)
    <3>1. Reverse(ba) = [i \in 1..4 |-> ba[(4 - i) + 1]]
      BY <1>0, <1>2 DEF Reverse
    <3>2. \A i \in 1..4 : ba[(4 - i) + 1] = u[i]
      BY <1>0, <1>2
    <3>3. SubSeq(u, 1, 4) = [i \in 1..4 |-> u[i]]
      BY <1>0
    <3>4. QED
      BY <3>1, <3>2, <3>3
  <2>4. SubSeq(u, 1, 4) \o SubSeq(u, 4 + 1, 16) = SubSeq(u, 1, 16)
    BY <1>0, ConcatAdjacentSubSeq
  <2>5. SubSeq(u, 1, 16) = u
    BY <1>0, SubSeqFull
  <2>6. SubSeq(u, 4 + 1, 16) = BaseTail
    BY <2>1
  <2>7. bytearray_to_gatouuid(ba) = u
    BY ONLY <2>2, <2>3, <2>4, <2>5, <2>6, Zenon
  <2>8. QED
    BY <2>7, Zenon DEF ba
<1>3. CASE size = 16
  <2>1. bytearray_to_gatouuid(ba) = Reverse(ba)
    <3>1. Len(ba) = 16 /\ Len(ba) # 2 /\ Len(ba) # 4
      BY <1>0, <1>3
    <3>2. QED
      BY <3>1, ReadFull, Zenon
  <2>2. Reverse(ba) = [i \in 1..16 |-> ba[(16 - i) + 1]]
    BY <1>0, <1>3 DEF Reverse
  <2>3. \A i \in 1..16 : ba[(16 - i) + 1] = u[i]
    BY <1>0, <1>3
  <2>4. u = [i \in 1..16 |-> u[i]]
    BY DEF UUID
  <2>5. QED
    BY <2>1, <2>2, <2>3, <2>4 DEF ba
<1>4. QED
  BY <1>1, <1>2, <1>3
=============================================================================
