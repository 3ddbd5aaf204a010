------------------------ MODULE GatoPeripheralProofs ------------------------
(***************************************************************************)
(* Proofs about GatoPeripheral, for every database whose handle ranges are *)
(* nested, every way to cut it into pages, and every bound.                *)
(***************************************************************************)
EXTENDS GatoPeripheral, SequenceTheorems, FiniteSetTheorems, WellFoundedInduction, TLAPS

-----------------------------------------------------------------------------
(***************************************************************************)
(* Sets of handles have a largest and a smallest element.                  *)
(***************************************************************************)
LEMMA SmallestOfNaturals ==
    ASSUME NEW S \in SUBSET Nat, S # {}
    PROVE  \E x \in S : \A y \in S : x <= y
<1>1. PICK x \in S : \A y \in S : <<y, x>> \notin OpToRel(<, Nat)
  BY WFMin, NatLessThanWellFounded, Zenon
<1>2. \A y \in S : ~ (y < x)
  BY <1>1, Zenon DEF OpToRel
<1>3. QED
  BY <1>2

LEMMA HandlesHaveMin ==
    ASSUME NEW S \in SUBSET Handle, S # {}
    PROVE  Min(S) \in S /\ \A y \in S : Min(S) <= y
<1>1. S \in SUBSET Nat
  BY PeripheralAssumption DEF Handle
<1>2. \E x \in S : \A y \in S : x <= y
  BY <1>1, SmallestOfNaturals
<1>3. QED
  BY <1>2 DEF Min

LEMMA HandlesHaveMax ==
    ASSUME NEW S \in SUBSET Handle, S # {}
    PROVE  Max(S) \in S /\ \A y \in S : y <= Max(S)
<1> DEFINE T == {MaxHandle - x : x \in S}
<1>1. MaxHandle \in Nat /\ \A x \in S : x \in Nat /\ x <= MaxHandle
  BY PeripheralAssumption DEF Handle
<1>2. T \in SUBSET Nat /\ T # {}
  BY <1>1
<1>3. PICK t \in T : \A u \in T : t <= u
  BY <1>2, SmallestOfNaturals
<1>4. PICK x \in S : t = MaxHandle - x
  BY <1>3
<1>5. \A y \in S : MaxHandle - x <= MaxHandle - y
  BY <1>3, <1>4
<1>6. \A y \in S : y <= x
  BY <1>1, <1>5
<1>7. QED
  BY <1>1, <1>6 DEF Max

-----------------------------------------------------------------------------
(***************************************************************************)
(* Maps.                                                                   *)
(***************************************************************************)
LEMMA NoEntries == DOMAIN EmptyMap = {}
BY DEF EmptyMap

LEMMA OneEntry ==
    ASSUME NEW key, NEW value
    PROVE  DOMAIN Entry(key, value) = {key} /\ Entry(key, value)[key] = value
BY DEF Entry

LEMMA WithEntries ==
    ASSUME NEW f, NEW new
    PROVE  /\ DOMAIN With(f, new) = DOMAIN f \cup DOMAIN new
           /\ \A k \in DOMAIN new : With(f, new)[k] = new[k]
           /\ \A k \in DOMAIN f \ DOMAIN new : With(f, new)[k] = f[k]
BY DEF With

LEMMA WithoutKeys ==
    ASSUME NEW f, NEW keys
    PROVE  /\ DOMAIN Without(f, keys) = DOMAIN f \ keys
           /\ \A k \in DOMAIN f \ keys : Without(f, keys)[k] = f[k]
BY DEF Without, Restrict

-----------------------------------------------------------------------------
(***************************************************************************)
(* The queue of requests and the entries they have in the pending maps.    *)
(***************************************************************************)
Entered(q) == {q[i].id : i \in {j \in DOMAIN q : q[j].op \notin Unremembered}}

\* Those behind the last exchange of the MTU, which are of the link that is up.
Current(q) ==
    {q[i].id : i \in {j \in DOMAIN q : /\ q[j].op \notin Unremembered
                                       /\ \A k \in DOMAIN q : j < k => q[k].op # "mtu"}}

\* Ids grow, and stay below bound.
Numbered(q, bound) ==
    /\ \A i \in DOMAIN q : q[i].id < bound
    /\ \A i, j \in DOMAIN q : i < j => q[i].id < q[j].id

HandleValues(f) == \A x \in DOMAIN f : f[x] \in Handle

LEMMA WithHandles ==
    ASSUME NEW f, NEW new, HandleValues(f), HandleValues(new)
    PROVE  HandleValues(With(f, new))
BY DEF With, HandleValues

LEMMA WithoutHandles ==
    ASSUME NEW f, NEW keys, HandleValues(f)
    PROVE  HandleValues(Without(f, keys))
BY DEF Without, Restrict, HandleValues

(***************************************************************************)
(* On a live link every request made on it that needs an entry has one; an *)
(* entry without its request is that of a null UUID, and no entry awaits   *)
(* the requests to come.                                                   *)
(***************************************************************************)
Queued ==
    /\ connected \in BOOLEAN /\ out \in BOOLEAN
    /\ requests \in Seq(Request)
    /\ next_id \in Nat \ {0}
    /\ Numbered(requests, next_id)
    /\ DOMAIN pending \subseteq Nat /\ HandleValues(pending)
    /\ \A id \in DOMAIN pending :
          id < next_id /\ (pending[id] # NullUuid => id \in Entered(requests))
    /\ connected => Current(requests) \subseteq DOMAIN pending

(***************************************************************************)
(* The types of what is known of the peripheral.                           *)
(***************************************************************************)
HandleMap(f) == DOMAIN f \subseteq Handle /\ HandleValues(f)

CharsTyped(chars) ==
    /\ DOMAIN chars \subseteq Handle
    /\ \A c \in DOMAIN chars : chars[c] \in CharRecord

ServicesTyped(svs) ==
    /\ DOMAIN svs \subseteq Handle
    /\ \A sv \in DOMAIN svs :
          /\ svs[sv] = [end |-> svs[sv].end, chars |-> svs[sv].chars]
          /\ svs[sv].end \in Handle
          /\ CharsTyped(svs[sv].chars)

KnownTyped ==
    /\ complete_services \in BOOLEAN
    /\ ServicesTyped(services)
    /\ service_uuids \cup announced \cup bare \subseteq Handle
    /\ HandleMap(characteristic_to_service)
    /\ HandleMap(value_to_characteristic)
    /\ HandleMap(descriptor_to_characteristic)
    /\ DOMAIN pending_set_notify \subseteq Handle
    /\ \A c \in DOMAIN pending_set_notify : pending_set_notify[c] \in BOOLEAN

(***************************************************************************)
(* What is known agrees with the server, and the three maps with it: what  *)
(* is mapped is held by its service, with that value or that descriptor.   *)
(***************************************************************************)
OfServer ==
    \A sv \in DOMAIN services :
        /\ sv \in DOMAIN Db
        /\ services[sv].end = Db[sv].end
        /\ \A c \in DOMAIN services[sv].chars :
              /\ c \in DOMAIN Db[sv].chars
              /\ services[sv].chars[c].value = Char_Db[c].value

Mapped ==
    /\ \A c \in DOMAIN characteristic_to_service : Held(c)
    /\ \A v \in DOMAIN value_to_characteristic :
          /\ Known(value_to_characteristic[v])
          /\ Char(value_to_characteristic[v]).value = v
    /\ \A d \in DOMAIN descriptor_to_characteristic :
          /\ Known(descriptor_to_characteristic[d])
          /\ d \in Char(descriptor_to_characteristic[d]).descs

(***************************************************************************)
(* A discovery whose answer will be used, because it has its entry or      *)
(* needs none, asks for handles beyond all it has found, and is the only   *)
(* one that finds them.                                                    *)
(***************************************************************************)
Out == {r \in Range(requests) : r.id \in DOMAIN pending \/ r.op \in Unremembered}

ServicesAhead ==
    \A r \in Out : r.op = "primary" =>
        /\ r.start # 0 => \A sv \in DOMAIN services : sv < r.start
        /\ \A s \in Out : s.op = "primary" => s = r

CharacteristicsAhead ==
    \A r \in Out : r.op = "characteristics" =>
        /\ pending[r.id] \in DOMAIN services
        /\ r.end = Db[pending[r.id]].end
        /\ pending[r.id] <= r.start
        /\ \A c \in DOMAIN services[pending[r.id]].chars : c < r.start
        /\ \A s \in Out : s.op = "characteristics" /\ pending[s.id] = pending[r.id] => s = r

Ahead == ServicesAhead /\ CharacteristicsAhead

\* The inductive invariants: of every application, and of a disciplined one.
Typed == Queued /\ KnownTyped

Agreed ==
    /\ OfServer
    /\ Mapped
    /\ Ahead

LEMMA RequestFields ==
    ASSUME NEW q \in Seq(Request), NEW i \in DOMAIN q
    PROVE  /\ q[i] \in Request /\ q[i].id \in Nat \ {0}
           /\ q[i].start \in Handle /\ q[i].end \in Handle /\ q[i].op \in Operation
<1>1. q[i] \in Request
  BY ElementOfSeq, LenProperties
<1>2. QED
  BY <1>1 DEF Request

LEMMA EnteredConcat ==
    ASSUME NEW q \in Seq(Request), NEW r \in Seq(Request)
    PROVE  Entered(q \o r) = Entered(q) \cup Entered(r)
<1> DEFINE t == q \o r
<1>1. /\ Len(q) \in Nat /\ Len(r) \in Nat
      /\ DOMAIN q = 1..Len(q) /\ DOMAIN r = 1..Len(r) /\ DOMAIN t = 1..(Len(q) + Len(r))
      /\ \A i \in 1..Len(q) : t[i] = q[i]
      /\ \A i \in 1..Len(r) : t[Len(q) + i] = r[i]
  BY LenProperties, ConcatProperties
<1> HIDE DEF t
<1>2. ASSUME NEW x \in Entered(t) PROVE x \in Entered(q) \cup Entered(r)
  <2>1. PICK i \in DOMAIN t : t[i].op \notin Unremembered /\ x = t[i].id
    BY <1>2 DEF Entered
  <2>2. CASE i \in 1..Len(q)
    BY <1>1, <2>1, <2>2 DEF Entered
  <2>3. CASE i \notin 1..Len(q)
    <3>1. PICK j \in 1..Len(r) : i = Len(q) + j
      <4>1. i - Len(q) \in 1..Len(r) /\ i = Len(q) + (i - Len(q))
        BY <1>1, <2>3
      <4>2. QED
        BY <4>1
    <3>2. QED
      BY <1>1, <2>1, <3>1 DEF Entered
  <2>4. QED
    BY <2>2, <2>3
<1>3. ASSUME NEW x \in Entered(q) PROVE x \in Entered(t)
  <2>1. PICK i \in DOMAIN q : q[i].op \notin Unremembered /\ x = q[i].id
    BY <1>3 DEF Entered
  <2>2. i \in DOMAIN t /\ t[i] = q[i]
    BY <1>1
  <2>3. QED
    BY <2>1, <2>2 DEF Entered
<1>4. ASSUME NEW x \in Entered(r) PROVE x \in Entered(t)
  <2>1. PICK i \in DOMAIN r : r[i].op \notin Unremembered /\ x = r[i].id
    BY <1>4 DEF Entered
  <2>2. Len(q) + i \in DOMAIN t /\ t[Len(q) + i] = r[i]
    BY <1>1
  <2>3. QED
    BY <2>1, <2>2 DEF Entered
<1>5. QED
  BY <1>2, <1>3, <1>4 DEF t

LEMMA EnteredTail ==
    ASSUME NEW q \in Seq(Request), q # <<>>, NEW bound, Numbered(q, bound)
    PROVE  Entered(Tail(q)) = Entered(q) \ {Head(q).id}
<1> DEFINE t == Tail(q)
<1>1. /\ Len(q) \in Nat \ {0} /\ DOMAIN q = 1..Len(q) /\ DOMAIN t = 1..(Len(q) - 1)
      /\ Head(q) = q[1] /\ \A i \in 1..(Len(q) - 1) : t[i] = q[i + 1]
  BY LenProperties, EmptySeq, HeadTailProperties
<1> HIDE DEF t
<1>2. \A i \in DOMAIN q : q[i].id \in Nat
  BY RequestFields
<1>3. ASSUME NEW x \in Entered(t) PROVE x \in Entered(q) /\ x # Head(q).id
  <2>1. PICK i \in DOMAIN t : t[i].op \notin Unremembered /\ x = t[i].id
    BY <1>3 DEF Entered
  <2>2. i + 1 \in DOMAIN q /\ t[i] = q[i + 1] /\ 1 \in DOMAIN q /\ 1 < i + 1
    BY <1>1
  <2>3. q[1].id < q[i + 1].id
    BY <2>2 DEF Numbered
  <2>4. q[1].id \in Nat /\ q[i + 1].id \in Nat
    BY <1>2, <2>2
  <2>5. x # Head(q).id
    BY <1>1, <2>1, <2>2, <2>3, <2>4
  <2>6. QED
    BY <2>1, <2>2, <2>5 DEF Entered
<1>4. ASSUME NEW x \in Entered(q), x # Head(q).id PROVE x \in Entered(t)
  <2>1. PICK i \in DOMAIN q : q[i].op \notin Unremembered /\ x = q[i].id
    BY <1>4 DEF Entered
  <2>2. i # 1
    BY <1>1, <1>4, <2>1
  <2>3. i - 1 \in DOMAIN t /\ i = (i - 1) + 1
    BY <1>1, <2>2
  <2>4. t[i - 1] = q[i]
    BY <1>1, <2>3
  <2>5. QED
    BY <2>1, <2>3, <2>4 DEF Entered
<1>5. QED
  BY <1>3, <1>4 DEF t

LEMMA CurrentIsEntered == ASSUME NEW q PROVE Current(q) \subseteq Entered(q)
BY DEF Current, Entered

LEMMA CurrentConcat ==
    ASSUME NEW q \in Seq(Request), NEW r \in Seq(Request)
    PROVE  Current(q \o r) \subseteq Current(q) \cup Entered(r)
<1> DEFINE t == q \o r
<1>1. /\ Len(q) \in Nat /\ Len(r) \in Nat
      /\ DOMAIN q = 1..Len(q) /\ DOMAIN r = 1..Len(r) /\ DOMAIN t = 1..(Len(q) + Len(r))
      /\ \A i \in 1..Len(q) : t[i] = q[i]
      /\ \A i \in 1..Len(r) : t[Len(q) + i] = r[i]
  BY LenProperties, ConcatProperties
<1> HIDE DEF t
<1>2. ASSUME NEW x \in Current(t) PROVE x \in Current(q) \cup Entered(r)
  <2>1. PICK i \in DOMAIN t :
           /\ t[i].op \notin Unremembered /\ x = t[i].id
           /\ \A k \in DOMAIN t : i < k => t[k].op # "mtu"
    BY <1>2 DEF Current
  <2>2. CASE i \in 1..Len(q)
    <3>1. \A k \in 1..Len(q) : k \in DOMAIN t
      BY <1>1
    <3>2. \A k \in DOMAIN q : i < k => q[k].op # "mtu"
      BY <1>1, <2>1, <3>1
    <3>3. QED
      BY <1>1, <2>1, <2>2, <3>2 DEF Current
  <2>3. CASE i \notin 1..Len(q)
    <3>1. PICK j \in 1..Len(r) : i = Len(q) + j
      <4>1. i - Len(q) \in 1..Len(r) /\ i = Len(q) + (i - Len(q))
        BY <1>1, <2>3
      <4>2. QED
        BY <4>1
    <3>2. QED
      BY <1>1, <2>1, <3>1 DEF Entered
  <2>4. QED
    BY <2>2, <2>3
<1>3. QED
  BY <1>2 DEF t

LEMMA CurrentTail ==
    ASSUME NEW q \in Seq(Request), q # <<>>, NEW bound, Numbered(q, bound)
    PROVE  Current(Tail(q)) \subseteq Current(q) \ {Head(q).id}
<1> DEFINE t == Tail(q)
<1>1. /\ Len(q) \in Nat \ {0} /\ DOMAIN q = 1..Len(q) /\ DOMAIN t = 1..(Len(q) - 1)
      /\ Head(q) = q[1] /\ \A i \in 1..(Len(q) - 1) : t[i] = q[i + 1]
  BY LenProperties, EmptySeq, HeadTailProperties
<1> HIDE DEF t
<1>2. ASSUME NEW x \in Current(t) PROVE x \in Current(q)
  <2>1. PICK i \in DOMAIN t :
           /\ t[i].op \notin Unremembered /\ x = t[i].id
           /\ \A k \in DOMAIN t : i < k => t[k].op # "mtu"
    BY <1>2 DEF Current
  <2>2. i + 1 \in DOMAIN q /\ t[i] = q[i + 1] /\ i \in Nat
    BY <1>1, <2>1
  <2>3. ASSUME NEW k \in DOMAIN q, i + 1 < k PROVE q[k].op # "mtu"
    <3>1. k - 1 \in DOMAIN t /\ i < k - 1 /\ (k - 1) + 1 = k
      BY <1>1, <2>2, <2>3
    <3>2. t[k - 1] = q[k]
      BY <1>1, <3>1
    <3>3. QED
      BY <2>1, <3>1, <3>2
  <2>4. QED
    BY <2>1, <2>2, <2>3 DEF Current
<1>3. Current(t) \subseteq Entered(q) \ {Head(q).id}
  BY CurrentIsEntered, EnteredTail DEF t
<1>4. QED
  BY <1>2, <1>3 DEF t

LEMMA CurrentMtu ==
    ASSUME NEW q \in Seq(Request), NEW r, r.op = "mtu"
    PROVE  Current(Append(q, r)) = {}
<1> DEFINE t == Append(q, r)
<1>1. /\ Len(q) \in Nat /\ DOMAIN t = 1..(Len(q) + 1) /\ t[Len(q) + 1] = r
  BY LenProperties
<1> HIDE DEF t
<1>2. ASSUME NEW i \in DOMAIN t, t[i].op \notin Unremembered,
             \A k \in DOMAIN t : i < k => t[k].op # "mtu"
      PROVE  FALSE
  <2>1. i # Len(q) + 1
    BY <1>1, <1>2 DEF Unremembered
  <2>2. i < Len(q) + 1 /\ Len(q) + 1 \in DOMAIN t
    BY <1>1, <2>1
  <2>3. QED
    BY <1>1, <1>2, <2>2
<1>3. QED
  BY <1>2 DEF Current, t

\* Requests follow with ids from bound on.
NumberedFrom(r, bound) == \A i \in DOMAIN r : r[i].id = bound + i - 1

LEMMA NumberedConcat ==
    ASSUME NEW q \in Seq(Request), NEW r \in Seq(Request), NEW bound \in Nat,
           Numbered(q, bound), NumberedFrom(r, bound)
    PROVE  Numbered(q \o r, bound + Len(r))
<1> DEFINE t == q \o r
<1> DEFINE m == Len(q)
<1> DEFINE n == Len(r)
<1>1. /\ m \in Nat /\ n \in Nat
      /\ DOMAIN q = 1..m /\ DOMAIN r = 1..n /\ DOMAIN t = 1..(m + n)
      /\ \A i \in 1..m : t[i] = q[i]
      /\ \A i \in 1..n : t[m + i] = r[i]
  BY LenProperties, ConcatProperties
<1>2. \A i \in 1..m : q[i].id \in Nat /\ q[i].id < bound
  BY <1>1, RequestFields DEF Numbered
<1> HIDE DEF t, m, n
<1>3. \A i \in (m + 1)..(m + n) : i - m \in 1..n /\ t[i] = r[i - m] /\ t[i].id = bound + (i - m) - 1
  <2>1. ASSUME NEW i \in (m + 1)..(m + n)
        PROVE i - m \in 1..n /\ t[i] = r[i - m] /\ t[i].id = bound + (i - m) - 1
    <3>1. i - m \in 1..n /\ m + (i - m) = i
      BY <1>1
    <3>2. t[i] = r[i - m]
      BY <1>1, <3>1
    <3>3. r[i - m].id = bound + (i - m) - 1
      BY <1>1, <3>1 DEF NumberedFrom
    <3>4. QED
      BY <3>1, <3>2, <3>3
  <2>2. QED
    BY <2>1
<1>4. ASSUME NEW i \in DOMAIN t PROVE t[i].id < bound + n
  <2>1. CASE i \in 1..m
    BY <1>1, <1>2, <2>1
  <2>2. CASE i \notin 1..m
    <3>1. i \in (m + 1)..(m + n)
      BY <1>1, <2>2
    <3>2. t[i].id = bound + (i - m) - 1
      BY <1>3, <3>1
    <3>3. QED
      BY <1>1, <3>1, <3>2
  <2>3. QED
    BY <2>1, <2>2
<1>5. ASSUME NEW i \in DOMAIN t, NEW j \in DOMAIN t, i < j PROVE t[i].id < t[j].id
  <2>1. CASE j \in 1..m
    <3>1. i \in 1..m
      BY <1>1, <1>5, <2>1
    <3>2. QED
      BY <1>1, <1>5, <2>1, <3>1 DEF Numbered
  <2>2. CASE j \notin 1..m
    <3>1. j \in (m + 1)..(m + n)
      BY <1>1, <2>2
    <3>2. t[j].id = bound + (j - m) - 1
      BY <1>3, <3>1
    <3>3. CASE i \in 1..m
      <4>1. t[i].id \in Nat /\ t[i].id < bound
        BY <1>1, <1>2, <3>3
      <4>2. QED
        BY <1>1, <3>1, <3>2, <4>1
    <3>4. CASE i \notin 1..m
      <4>1. i \in (m + 1)..(m + n)
        BY <1>1, <3>4
      <4>2. t[i].id = bound + (i - m) - 1
        BY <1>3, <4>1
      <4>3. QED
        BY <1>1, <1>5, <3>1, <3>2, <4>1, <4>2
    <3>5. QED
      BY <3>3, <3>4
  <2>3. QED
    BY <2>1, <2>2
<1>6. QED
  BY <1>4, <1>5 DEF Numbered, t, n

LEMMA NumberedTail ==
    ASSUME NEW q \in Seq(Request), q # <<>>, NEW bound, Numbered(q, bound)
    PROVE  Tail(q) \in Seq(Request) /\ Numbered(Tail(q), bound)
<1> DEFINE t == Tail(q)
<1>1. /\ Len(q) \in Nat \ {0} /\ DOMAIN q = 1..Len(q) /\ DOMAIN t = 1..(Len(q) - 1)
      /\ t \in Seq(Request) /\ \A i \in 1..(Len(q) - 1) : t[i] = q[i + 1]
  BY LenProperties, EmptySeq, HeadTailProperties
<1> HIDE DEF t
<1>2. \A i, j \in 1..(Len(q) - 1) : /\ i + 1 \in 1..Len(q) /\ j + 1 \in 1..Len(q)
                                    /\ i < j => i + 1 < j + 1
  BY <1>1
<1>3. QED
  BY <1>1, <1>2 DEF Numbered, t

-----------------------------------------------------------------------------
(***************************************************************************)
(* What the three ways to change the queue make of Queued.                 *)
(***************************************************************************)
LEMMA AskAllQueues ==
    ASSUME Queued,
           NEW reqs \in Seq(Request), NumberedFrom(reqs, next_id),
           NEW entries, DOMAIN entries = Entered(reqs), HandleValues(entries),
           connected, AskAll(reqs, entries)
    PROVE  Queued'
<1>1. /\ requests' = requests \o reqs /\ next_id' = next_id + Len(reqs)
      /\ \/ connected' = connected /\ pending' = With(pending, entries)
         \/ requests = <<>> /\ connected' = FALSE /\ pending' = entries
      /\ out' \in BOOLEAN
  BY DEF AskAll, Queued
<1>2. requests' \in Seq(Request)
  BY <1>1, ConcatProperties DEF Queued
<1>3. Len(reqs) \in Nat /\ next_id' \in Nat \ {0} /\ next_id \in Nat
  BY <1>1, LenProperties DEF Queued
<1>4. Numbered(requests', next_id')
  BY <1>1, NumberedConcat DEF Queued
<1>5. /\ Entered(requests') = Entered(requests) \cup Entered(reqs)
      /\ Current(requests') \subseteq Current(requests) \cup Entered(reqs)
  BY <1>1, EnteredConcat, CurrentConcat DEF Queued
<1>6. \A id \in DOMAIN entries : id \in Nat /\ id < next_id'
  <2>1. ASSUME NEW i \in DOMAIN reqs PROVE reqs[i].id \in Nat /\ reqs[i].id < next_id'
    <3> DEFINE n == Len(reqs)
    <3>1. i \in 1..n /\ reqs[i].id = next_id + i - 1 /\ n \in Nat
      BY LenProperties DEF NumberedFrom
    <3>2. next_id' = next_id + n
      BY <1>1
    <3> HIDE DEF n
    <3>3. QED
      BY <1>3, <3>1, <3>2
  <2>2. QED
    BY <2>1 DEF Entered
<1>7. /\ DOMAIN With(pending, entries) = DOMAIN pending \cup DOMAIN entries
      /\ HandleValues(With(pending, entries))
      /\ \A id \in DOMAIN pending \ DOMAIN entries : With(pending, entries)[id] = pending[id]
  BY WithEntries, WithHandles DEF Queued
<1>8. \A id \in DOMAIN pending : id \in Nat /\ id < next_id'
  BY <1>1, <1>3 DEF Queued
<1>9. CASE connected' = connected /\ pending' = With(pending, entries)
  <2>1. ASSUME NEW id \in DOMAIN pending'
        PROVE  id \in Nat /\ id < next_id' /\ (pending'[id] # NullUuid => id \in Entered(requests'))
    <3>1. CASE id \in DOMAIN entries
      BY <1>5, <1>6, <3>1
    <3>2. CASE id \notin DOMAIN entries
      BY <1>5, <1>7, <1>8, <1>9, <2>1, <3>2 DEF Queued
    <3>3. QED
      BY <3>1, <3>2
  <2>2. Current(requests') \subseteq DOMAIN pending'
    BY <1>5, <1>7, <1>9 DEF Queued
  <2>3. QED
    BY <1>1, <1>2, <1>3, <1>4, <1>7, <1>9, <2>1, <2>2 DEF Queued
<1>10. CASE connected' = FALSE /\ pending' = entries
  BY <1>1, <1>2, <1>3, <1>4, <1>5, <1>6, <1>10 DEF Queued
<1>11. QED
  BY <1>1, <1>9, <1>10

RequestValue == {"none", "data", "notify", "off"}

\* The entry that a request of operation op needs.
EntryFor(op, entry) ==
    /\ op \in Unremembered => entry = EmptyMap
    /\ op \notin Unremembered => \E h \in Handle : entry = Entry(next_id, h)

LEMMA OneRequest ==
    ASSUME next_id \in Nat \ {0}, NEW op \in Operation, NEW start \in Handle, NEW end \in Handle,
           NEW value \in RequestValue, NEW entry, EntryFor(op, entry)
    PROVE  LET req == MakeRequest(op, start, end, value) IN
           /\ req \in Request /\ <<req>> \in Seq(Request) /\ <<req>> # <<>> /\ Len(<<req>>) = 1
           /\ req.id = next_id /\ req.op = op
           /\ NumberedFrom(<<req>>, next_id)
           /\ DOMAIN entry = Entered(<<req>>) /\ HandleValues(entry)
<1> DEFINE req == MakeRequest(op, start, end, value)
<1>1. req \in Request
  BY DEF MakeRequest, Request, RequestValue
<1>2. req.id = next_id /\ req.op = op
  BY DEF MakeRequest
<1> HIDE DEF req
<1>3. <<req>> \in Seq(Request) /\ <<req>> # <<>> /\ Len(<<req>>) = 1
      /\ DOMAIN <<req>> = {1} /\ <<req>>[1] = req
  BY <1>1
<1>4. NumberedFrom(<<req>>, next_id)
  BY <1>2, <1>3 DEF NumberedFrom
<1>5. Entered(<<req>>) = IF op \in Unremembered THEN {} ELSE {next_id}
  BY <1>2, <1>3 DEF Entered
<1>6. DOMAIN entry = Entered(<<req>>) /\ HandleValues(entry)
  BY <1>5, NoEntries, OneEntry DEF EntryFor, HandleValues
<1>7. QED
  BY <1>1, <1>2, <1>3, <1>4, <1>6 DEF req

LEMMA AskQueues ==
    ASSUME Queued, connected,
           NEW op \in Operation, NEW start \in Handle, NEW end \in Handle,
           NEW value \in RequestValue, NEW entry, EntryFor(op, entry),
           Ask(MakeRequest(op, start, end, value), entry)
    PROVE  Queued'
<1> DEFINE req == MakeRequest(op, start, end, value)
<1>1. /\ <<req>> \in Seq(Request) /\ <<req>> # <<>>
      /\ NumberedFrom(<<req>>, next_id)
      /\ DOMAIN entry = Entered(<<req>>) /\ HandleValues(entry)
  BY OneRequest DEF Queued
<1>2. AskAll(<<req>>, entry)
  BY DEF Ask
<1> HIDE DEF req
<1>3. QED
  BY <1>1, <1>2, AskAllQueues

LEMMA AskMoreAllQueues ==
    ASSUME Queued, requests # <<>>, connected' = connected,
           NEW reqs \in Seq(Request), NumberedFrom(reqs, next_id),
           NEW entry, DOMAIN entry = Entered(reqs), HandleValues(entry),
           AskMoreAll(reqs, entry)
    PROVE  Queued'
<1> DEFINE head == Head(requests).id
<1> DEFINE rest == Without(pending, {head})
<1>1. /\ requests' = Tail(requests) \o reqs /\ next_id' = next_id + Len(reqs)
      /\ pending' = With(rest, entry) /\ out' \in BOOLEAN
  BY DEF AskMoreAll
<1>2. Tail(requests) \in Seq(Request) /\ Numbered(Tail(requests), next_id)
  BY NumberedTail DEF Queued
<1>3. requests' \in Seq(Request)
  BY <1>1, <1>2, ConcatProperties
<1>4. Len(reqs) \in Nat /\ next_id' \in Nat \ {0} /\ next_id \in Nat
  BY <1>1, LenProperties DEF Queued
<1>5. Numbered(requests', next_id')
  BY <1>1, <1>2, NumberedConcat DEF Queued
<1>6. /\ Entered(requests') = (Entered(requests) \ {head}) \cup Entered(reqs)
      /\ Current(requests') \subseteq (Current(requests) \ {head}) \cup Entered(reqs)
  <2>1. /\ Entered(Tail(requests)) = Entered(requests) \ {head}
        /\ Current(Tail(requests)) \subseteq Current(requests) \ {head}
    BY EnteredTail, CurrentTail DEF Queued
  <2>2. /\ Entered(requests') = Entered(Tail(requests)) \cup Entered(reqs)
        /\ Current(requests') \subseteq Current(Tail(requests)) \cup Entered(reqs)
    BY <1>1, <1>2, EnteredConcat, CurrentConcat
  <2>3. QED
    BY <2>1, <2>2
<1>7. \A id \in DOMAIN entry : id \in Nat /\ id < next_id'
  <2>1. ASSUME NEW i \in DOMAIN reqs PROVE reqs[i].id \in Nat /\ reqs[i].id < next_id'
    <3> DEFINE n == Len(reqs)
    <3>1. i \in 1..n /\ reqs[i].id = next_id + i - 1 /\ n \in Nat
      BY LenProperties DEF NumberedFrom
    <3>2. next_id' = next_id + n
      BY <1>1
    <3> HIDE DEF n
    <3>3. QED
      BY <1>4, <3>1, <3>2
  <2>2. QED
    BY <2>1 DEF Entered
<1>8. /\ DOMAIN rest = DOMAIN pending \ {head} /\ HandleValues(rest)
      /\ \A id \in DOMAIN rest : rest[id] = pending[id]
  BY WithoutKeys, WithoutHandles DEF Queued
<1> HIDE DEF rest, head
<1>9. /\ DOMAIN pending' = DOMAIN rest \cup DOMAIN entry /\ HandleValues(pending')
      /\ \A id \in DOMAIN rest \ DOMAIN entry : pending'[id] = rest[id]
  BY <1>1, <1>8, WithEntries, WithHandles
<1>10. \A id \in DOMAIN pending : id \in Nat /\ id < next_id'
  BY <1>1, <1>4 DEF Queued
<1>11. ASSUME NEW id \in DOMAIN pending'
       PROVE  id \in Nat /\ id < next_id' /\ (pending'[id] # NullUuid => id \in Entered(requests'))
  <2>1. CASE id \in DOMAIN entry
    BY <1>6, <1>7, <2>1
  <2>2. CASE id \notin DOMAIN entry
    <3>1. id \in DOMAIN pending /\ id # head /\ pending'[id] = pending[id]
      BY <1>8, <1>9, <1>11, <2>2
    <3>2. pending[id] # NullUuid => id \in Entered(requests)
      BY <3>1 DEF Queued
    <3>3. QED
      BY <1>6, <1>10, <3>1, <3>2
  <2>3. QED
    BY <2>1, <2>2
<1>12. connected' => Current(requests') \subseteq DOMAIN pending'
  BY <1>6, <1>8, <1>9 DEF Queued
<1>13. QED
  BY <1>1, <1>3, <1>4, <1>5, <1>9, <1>11, <1>12 DEF Queued

LEMMA FinishQueues ==
    ASSUME Queued, requests # <<>>, Finish, connected' = connected
    PROVE  Queued'
<1> DEFINE head == Head(requests).id
<1>1. requests' = Tail(requests) /\ pending' = Without(pending, {head})
      /\ next_id' = next_id /\ out' \in BOOLEAN
  BY DEF Finish
<1>2. requests' \in Seq(Request) /\ Numbered(requests', next_id)
  BY <1>1, NumberedTail DEF Queued
<1>3. /\ Entered(requests') = Entered(requests) \ {head}
      /\ Current(requests') \subseteq Current(requests) \ {head}
  BY <1>1, EnteredTail, CurrentTail DEF Queued
<1> HIDE DEF head
<1>4. /\ DOMAIN pending' = DOMAIN pending \ {head} /\ HandleValues(pending')
      /\ \A id \in DOMAIN pending' : pending'[id] = pending[id]
  <2>1. HandleValues(pending')
    BY <1>1, WithoutHandles DEF Queued
  <2> DEFINE keys == {head}
  <2>2. pending' = Without(pending, keys)
    BY <1>1
  <2> HIDE DEF keys
  <2>3. /\ DOMAIN pending' = DOMAIN pending \ keys
        /\ \A id \in DOMAIN pending' : pending'[id] = pending[id]
    BY <2>2 DEF Without, Restrict
  <2>4. QED
    BY <2>1, <2>3 DEF keys
<1>5. QED
  BY <1>1, <1>2, <1>3, <1>4 DEF Queued

LEMMA AskMoreQueues ==
    ASSUME Queued, requests # <<>>, connected' = connected,
           NEW op \in Operation, NEW start \in Handle, NEW end \in Handle,
           NEW value \in RequestValue, NEW entry, EntryFor(op, entry),
           AskMore(MakeRequest(op, start, end, value), entry)
    PROVE  Queued'
<1> DEFINE req == MakeRequest(op, start, end, value)
<1>1. /\ <<req>> \in Seq(Request) /\ NumberedFrom(<<req>>, next_id)
      /\ DOMAIN entry = Entered(<<req>>) /\ HandleValues(entry)
  BY OneRequest DEF Queued
<1>2. AskMoreAll(<<req>>, entry)
  BY DEF AskMore
<1> HIDE DEF req
<1>3. QED
  BY <1>1, <1>2, AskMoreAllQueues

LEMMA NotMadeQueues ==
    ASSUME Queued, HandleNotMade
    PROVE  Queued' /\ requests # <<>> /\ requests' = Tail(requests) /\ pending' = pending
<1>1. /\ requests # <<>> /\ requests' = Tail(requests) /\ UNCHANGED <<connected, pending, next_id>>
      /\ out' \in BOOLEAN /\ ~ Made
  BY DEF HandleNotMade, Answering
<1>2. requests' \in Seq(Request) /\ Numbered(requests', next_id)
  BY <1>1, NumberedTail DEF Queued
<1>3. /\ Entered(requests') = Entered(requests) \ {Head(requests).id}
      /\ Current(requests') \subseteq Current(requests)
  BY <1>1, EnteredTail, CurrentTail DEF Queued
<1>4. \A id \in DOMAIN pending : pending[id] # NullUuid => id \in Entered(requests')
  BY <1>1, <1>3 DEF Queued, Made, NullUuid
<1>5. QED
  BY <1>1, <1>2, <1>3, <1>4 DEF Queued

LEMMA ConnectQueues ==
    ASSUME Queued, Connect
    PROVE  Queued'
<1> DEFINE req == MakeRequest("mtu", 0, 0, "none")
<1>1. /\ requests' = Append(requests, req) /\ next_id' = next_id + 1 /\ connected' = TRUE
      /\ pending' = pending /\ out' \in BOOLEAN
  BY DEF Connect, Queued
<1>2. /\ req \in Request /\ <<req>> \in Seq(Request) /\ Len(<<req>>) = 1
      /\ req.op = "mtu" /\ NumberedFrom(<<req>>, next_id) /\ Entered(<<req>>) = {}
  <2>1. EntryFor("mtu", EmptyMap)
    BY DEF EntryFor, Unremembered
  <2>2. "mtu" \in Operation /\ "none" \in RequestValue /\ 0 \in Handle
    BY PeripheralAssumption DEF Operation, RequestValue, Handle
  <2>3. QED
    BY <2>1, <2>2, OneRequest, NoEntries DEF Queued
<1> HIDE DEF req
<1>3. requests' = requests \o <<req>> /\ requests' \in Seq(Request)
  BY <1>1, <1>2, AppendIsConcat, AppendProperties DEF Queued
<1>4. Numbered(requests', next_id')
  BY <1>1, <1>2, <1>3, NumberedConcat DEF Queued
<1>5. Entered(requests') = Entered(requests)
  <2>1. Entered(requests \o <<req>>) = Entered(requests) \cup Entered(<<req>>)
    BY <1>2, EnteredConcat DEF Queued
  <2>2. QED
    BY <1>2, <1>3, <2>1
<1>6. Current(requests') = {}
  BY <1>1, <1>2, CurrentMtu DEF Queued
<1>7. QED
  BY <1>1, <1>3, <1>4, <1>5, <1>6 DEF Queued

-----------------------------------------------------------------------------
(***************************************************************************)
(* Types of what the handlers compute.                                     *)
(***************************************************************************)
LEMMA Handles ==
    /\ MaxHandle \in Nat \ {0} /\ 0 \in Handle /\ 1 \in Handle /\ MaxHandle \in Handle
    /\ \A h \in Handle : h \in Nat /\ Following(h) \in Handle
BY PeripheralAssumption DEF Handle, Following

LEMMA CharacteristicsOfServer ==
    ASSUME NEW c \in DOMAIN Char_Db
    PROVE  \E sv \in DOMAIN Db : c \in DOMAIN Db[sv].chars /\ Char_Db[c] = Db[sv].chars[c]
<1>1. /\ \E sv \in DOMAIN Db : c \in DOMAIN Db[sv].chars
      /\ Char_Db[c] = LET sv == CHOOSE sv \in DOMAIN Db : c \in DOMAIN Db[sv].chars
                      IN  Db[sv].chars[c]
  BY DEF Char_Db
<1> DEFINE s == CHOOSE sv \in DOMAIN Db : c \in DOMAIN Db[sv].chars
<1>2. s \in DOMAIN Db /\ c \in DOMAIN Db[s].chars
  BY <1>1, Zenon
<1>3. Char_Db[c] = Db[s].chars[c]
  BY <1>1
<1>4. QED
  BY <1>2, <1>3

LEMMA ServerHandles ==
    /\ \A sv \in DOMAIN Db : sv \in Handle /\ sv # 0 /\ Db[sv].end \in Handle
    /\ \A c \in DOMAIN Char_Db :
          /\ c \in Handle /\ c # 0
          /\ Char_Db[c].value \in Handle /\ Char_Db[c].descs \subseteq Handle
    /\ Attributes \subseteq Handle
<1>1. \A sv \in DOMAIN Db : sv \in Handle /\ sv # 0 /\ Db[sv].end \in Handle
  BY DbAssumption, PeripheralAssumption DEF Handle
<1>2. ASSUME NEW c \in DOMAIN Char_Db
      PROVE  /\ c \in Handle /\ c # 0
             /\ Char_Db[c].value \in Handle /\ Char_Db[c].descs \subseteq Handle
  <2>1. PICK sv \in DOMAIN Db : c \in DOMAIN Db[sv].chars /\ Char_Db[c] = Db[sv].chars[c]
    BY CharacteristicsOfServer
  <2>2. /\ sv \in 1..MaxHandle /\ Db[sv].end \in sv..MaxHandle /\ c \in sv..Db[sv].end
        /\ Db[sv].chars[c].value \in 0..MaxHandle
        /\ Db[sv].chars[c].descs \subseteq 0..MaxHandle
    BY <2>1, DbAssumption
  <2>3. c \in Handle /\ c # 0
    BY <2>2, PeripheralAssumption DEF Handle
  <2>4. QED
    BY <2>1, <2>2, <2>3 DEF Handle
<1>3. Attributes \subseteq Handle
  BY <1>1, <1>2 DEF Attributes
<1>4. QED
  BY <1>1, <1>2, <1>3

LEMMA HandleMaps ==
    /\ HandleMap(EmptyMap)
    /\ \A f, new : HandleMap(f) /\ HandleMap(new) => HandleMap(With(f, new))
    /\ \A f, keys : HandleMap(f) => HandleMap(Without(f, keys))
<1>1. HandleMap(EmptyMap)
  BY NoEntries DEF HandleMap, HandleValues
<1>2. ASSUME NEW f, NEW new, HandleMap(f), HandleMap(new)
      PROVE  HandleMap(With(f, new))
  BY <1>2, WithEntries, WithHandles DEF HandleMap
<1>3. ASSUME NEW f, NEW keys, HandleMap(f)
      PROVE  HandleMap(Without(f, keys))
  BY <1>3, WithoutHandles DEF HandleMap, Without, Restrict
<1>4. QED
  BY <1>1, <1>2, <1>3

LEMMA NoCharacteristics == CharsTyped(EmptyMap)
BY NoEntries DEF CharsTyped

LEMMA ServicesAndCharacteristicsMerge ==
    /\ \A f, new : ServicesTyped(f) /\ ServicesTyped(new) => ServicesTyped(With(f, new))
    /\ \A f, new : CharsTyped(f) /\ CharsTyped(new) => CharsTyped(With(f, new))
<1>1. ASSUME NEW f, NEW new PROVE \A k \in DOMAIN With(f, new) :
            \/ k \in DOMAIN f /\ With(f, new)[k] = f[k]
            \/ k \in DOMAIN new /\ With(f, new)[k] = new[k]
  BY DEF With
<1>2. ASSUME NEW f, NEW new, ServicesTyped(f), ServicesTyped(new)
      PROVE  ServicesTyped(With(f, new))
  <2>1. DOMAIN With(f, new) \subseteq Handle
    BY <1>2, WithEntries DEF ServicesTyped
  <2>2. QED
    BY <1>1, <1>2, <2>1 DEF ServicesTyped
<1>3. ASSUME NEW f, NEW new, CharsTyped(f), CharsTyped(new)
      PROVE  CharsTyped(With(f, new))
  <2>1. DOMAIN With(f, new) \subseteq Handle
    BY <1>3, WithEntries DEF CharsTyped
  <2>2. QED
    BY <1>1, <1>3, <2>1 DEF CharsTyped
<1>4. QED
  BY <1>2, <1>3

\* What the handlers do to services, as operators.
SetChars(svs, sv, chars) == [svs EXCEPT ![sv].chars = chars]
SetDescs(svs, sv, c, descs) == SetChars(svs, sv, [svs[sv].chars EXCEPT ![c].descs = descs])

LEMMA CharsSet ==
    ASSUME NEW svs, ServicesTyped(svs), NEW sv \in DOMAIN svs, NEW chars, CharsTyped(chars)
    PROVE  /\ ServicesTyped(SetChars(svs, sv, chars))
           /\ DOMAIN SetChars(svs, sv, chars) = DOMAIN svs
           /\ SetChars(svs, sv, chars)[sv].chars = chars
           /\ \A s \in DOMAIN svs :
                 /\ SetChars(svs, sv, chars)[s].end = svs[s].end
                 /\ s # sv => SetChars(svs, sv, chars)[s].chars = svs[s].chars
<1> DEFINE new == SetChars(svs, sv, chars)
<1>1. svs[sv] = [end |-> svs[sv].end, chars |-> svs[sv].chars]
  BY DEF ServicesTyped
<1>2. DOMAIN new = DOMAIN svs /\ new[sv] = [end |-> svs[sv].end, chars |-> chars]
  BY <1>1 DEF SetChars
<1>3. \A s \in DOMAIN svs : s # sv => new[s] = svs[s]
  BY DEF SetChars
<1> HIDE DEF new
<1>4. ASSUME NEW s \in DOMAIN new
      PROVE  /\ new[s] = [end |-> new[s].end, chars |-> new[s].chars]
             /\ new[s].end \in Handle /\ CharsTyped(new[s].chars)
  <2>1. CASE s = sv
    BY <1>2, <2>1 DEF ServicesTyped
  <2>2. CASE s # sv
    BY <1>2, <1>3, <2>2 DEF ServicesTyped
  <2>3. QED
    BY <2>1, <2>2
<1>5. ServicesTyped(new)
  BY <1>2, <1>4 DEF ServicesTyped
<1>6. QED
  BY <1>2, <1>3, <1>5 DEF new

LEMMA DescsSet ==
    ASSUME NEW svs, ServicesTyped(svs), NEW sv \in DOMAIN svs,
           NEW c \in DOMAIN svs[sv].chars, NEW descs \in SUBSET Handle
    PROVE  /\ ServicesTyped(SetDescs(svs, sv, c, descs))
           /\ DOMAIN SetDescs(svs, sv, c, descs) = DOMAIN svs
           /\ SetDescs(svs, sv, c, descs)[sv].chars[c].descs = descs
           /\ \A s \in DOMAIN svs :
                 /\ SetDescs(svs, sv, c, descs)[s].end = svs[s].end
                 /\ DOMAIN SetDescs(svs, sv, c, descs)[s].chars = DOMAIN svs[s].chars
                 /\ \A d \in DOMAIN svs[s].chars :
                       /\ SetDescs(svs, sv, c, descs)[s].chars[d].value = svs[s].chars[d].value
                       /\ SetDescs(svs, sv, c, descs)[s].chars[d].end = svs[s].chars[d].end
                       /\ s # sv \/ d # c =>
                             SetDescs(svs, sv, c, descs)[s].chars[d] = svs[s].chars[d]
<1> DEFINE new == SetDescs(svs, sv, c, descs)
<1> DEFINE chars == [svs[sv].chars EXCEPT ![c].descs = descs]
<1>1. new = SetChars(svs, sv, chars)
  BY DEF SetDescs
<1>2. CharsTyped(svs[sv].chars)
  BY DEF ServicesTyped
<1>3. svs[sv].chars[c] \in CharRecord
  BY <1>2 DEF CharsTyped
<1>4. /\ DOMAIN chars = DOMAIN svs[sv].chars
      /\ chars[c] = [svs[sv].chars[c] EXCEPT !.descs = descs]
      /\ \A d \in DOMAIN svs[sv].chars : d # c => chars[d] = svs[sv].chars[d]
  OBVIOUS
<1>5. /\ chars[c] \in CharRecord /\ chars[c].descs = descs
      /\ chars[c].value = svs[sv].chars[c].value /\ chars[c].end = svs[sv].chars[c].end
  BY <1>3, <1>4 DEF CharRecord
<1> HIDE DEF chars, new
<1>6. CharsTyped(chars)
  BY <1>2, <1>4, <1>5 DEF CharsTyped
<1>7. /\ ServicesTyped(new) /\ DOMAIN new = DOMAIN svs
      /\ new[sv].chars = chars
      /\ \A s \in DOMAIN svs : /\ new[s].end = svs[s].end
                               /\ s # sv => new[s].chars = svs[s].chars
  BY <1>1, <1>6, CharsSet
<1>8. ASSUME NEW s \in DOMAIN svs
      PROVE  /\ DOMAIN new[s].chars = DOMAIN svs[s].chars
             /\ \A d \in DOMAIN svs[s].chars :
                   /\ new[s].chars[d].value = svs[s].chars[d].value
                   /\ new[s].chars[d].end = svs[s].chars[d].end
                   /\ s # sv \/ d # c => new[s].chars[d] = svs[s].chars[d]
  <2>1. CASE s = sv
    BY <1>4, <1>5, <1>7, <2>1
  <2>2. CASE s # sv
    BY <1>7, <2>2
  <2>3. QED
    BY <2>1, <2>2
<1>9. new[sv].chars[c].descs = descs
  BY <1>5, <1>7
<1>10. QED
  BY <1>7, <1>8, <1>9 DEF new

LEMMA SetByPath ==
    ASSUME NEW svs, ServicesTyped(svs), NEW sv \in DOMAIN svs, NEW c, NEW descs
    PROVE  [svs EXCEPT ![sv].chars[c].descs = descs] = SetDescs(svs, sv, c, descs)
BY DEF SetDescs, SetChars

LEMMA HeldCharacteristic ==
    ASSUME KnownTyped, NEW c, Known(c), Held(c)
    PROVE  /\ c \in Handle /\ ServiceOf(c) \in DOMAIN services
           /\ c \in DOMAIN services[ServiceOf(c)].chars
           /\ Char(c) \in CharRecord
           /\ Char(c).end \in Handle /\ Char(c).value \in Handle /\ Char(c).descs \subseteq Handle
<1>1. ServiceOf(c) \in DOMAIN services /\ c \in DOMAIN services[ServiceOf(c)].chars
  BY DEF Held
<1>2. CharsTyped(services[ServiceOf(c)].chars)
  BY <1>1 DEF KnownTyped, ServicesTyped
<1>3. c \in Handle /\ Char(c) \in CharRecord
  BY <1>1, <1>2 DEF CharsTyped, Char
<1>4. QED
  BY <1>1, <1>3 DEF CharRecord

LEMMA EntriesFor ==
    /\ EntryFor("primary", EmptyMap) /\ EntryFor("write", EmptyMap)
    /\ \A h \in Handle : /\ EntryFor("characteristics", Entry(next_id, h))
                         /\ EntryFor("descriptors", Entry(next_id, h))
                         /\ EntryFor("readCharacteristic", Entry(next_id, h))
                         /\ EntryFor("readDescriptor", Entry(next_id, h))
BY DEF EntryFor, Unremembered

LEMMA KnownUnchanged ==
    ASSUME KnownTyped, UNCHANGED known, UNCHANGED pending_set_notify
    PROVE  KnownTyped'
BY DEF known, maps, KnownTyped

-----------------------------------------------------------------------------
(***************************************************************************)
(* Every step keeps the types and the queue.                               *)
(***************************************************************************)
LEMMA ConnectTyped == ASSUME Typed, Connect PROVE Typed'
<1>1. KnownTyped'
  BY KnownUnchanged DEF Typed, Connect
<1>2. QED
  BY <1>1, ConnectQueues DEF Typed

LEMMA DisconnectTyped == ASSUME Typed, Disconnect PROVE Typed'
<1>1. KnownTyped'
  BY KnownUnchanged DEF Typed, Disconnect
<1>2. /\ connected' = FALSE /\ pending' = EmptyMap
      /\ requests' = requests /\ next_id' = next_id /\ out' \in BOOLEAN
  BY DEF Disconnect, Typed, Queued
<1>3. DOMAIN pending' = {} /\ HandleValues(pending')
  BY <1>2, NoEntries DEF HandleValues
<1>4. Queued'
  BY <1>2, <1>3 DEF Queued, Typed
<1>5. QED
  BY <1>1, <1>4 DEF Typed

LEMMA DiscoverServicesTyped == ASSUME Typed, DiscoverServices PROVE Typed'
<1>1. Ask(MakeRequest("primary", 1, MaxHandle, "none"), EmptyMap) /\ connected
  BY DEF DiscoverServices, Calling
<1>2. "primary" \in Operation /\ "none" \in RequestValue
  BY DEF Operation, RequestValue
<1>3. Queued'
  BY <1>1, <1>2, AskQueues, EntriesFor, Handles DEF Typed
<1>4. /\ services' = EmptyMap /\ characteristic_to_service' = EmptyMap
      /\ value_to_characteristic' = EmptyMap /\ descriptor_to_characteristic' = EmptyMap
      /\ announced' = {}
      /\ UNCHANGED <<complete_services, service_uuids, bare, pending_set_notify>>
  BY DEF DiscoverServices
<1>5. ServicesTyped(EmptyMap) /\ HandleMap(EmptyMap)
  BY NoEntries, HandleMaps DEF ServicesTyped
<1>6. KnownTyped'
  BY <1>4, <1>5 DEF KnownTyped, Typed
<1>7. QED
  BY <1>3, <1>6 DEF Typed

\* The requests of a filtered discovery, and their entries.
UuidRequests(n) ==
    [i \in 1..n |-> [MakeRequest("primaryByUuid", 1, MaxHandle, "none")
                        EXCEPT !.id = next_id + i - 1]]
UuidEntries(n, uuids) == [id \in next_id..(next_id + n - 1) |-> uuids[id - next_id + 1]]

LEMMA UuidRequestsAreNumbered ==
    ASSUME next_id \in Nat \ {0}, NEW n \in 1..MaxFilter,
           NEW uuids \in [1..n -> {NullUuid, SomeUuid}]
    PROVE  /\ UuidRequests(n) \in Seq(Request) /\ UuidRequests(n) # <<>>
           /\ NumberedFrom(UuidRequests(n), next_id)
           /\ \A i \in DOMAIN UuidRequests(n) : UuidRequests(n)[i].op = "primaryByUuid"
           /\ DOMAIN UuidEntries(n, uuids) = Entered(UuidRequests(n))
           /\ HandleValues(UuidEntries(n, uuids))
<1> DEFINE req(i) == [MakeRequest("primaryByUuid", 1, MaxHandle, "none")
                         EXCEPT !.id = next_id + i - 1]
<1> DEFINE reqs == UuidRequests(n)
<1> DEFINE entries == UuidEntries(n, uuids)
<1>1. reqs = [i \in 1..n |-> req(i)]
  BY DEF UuidRequests
<1>2. n \in Nat /\ n >= 1
  BY PeripheralAssumption
<1>3. \A i \in 1..n : req(i) = [id |-> next_id + i - 1, op |-> "primaryByUuid", start |-> 1,
                                end |-> MaxHandle, value |-> "none"]
  BY DEF MakeRequest
<1>4. \A i \in 1..n : req(i) \in Request /\ req(i).id = next_id + i - 1
                      /\ req(i).op = "primaryByUuid"
  <2>1. \A i \in 1..n : next_id + i - 1 \in Nat \ {0}
    BY <1>2
  <2>2. "primaryByUuid" \in Operation
    BY DEF Operation
  <2>3. QED
    BY <1>3, <2>1, <2>2, Handles DEF Request
<1> HIDE DEF req, reqs
<1>5. reqs \in Seq(Request) /\ DOMAIN reqs = 1..n /\ reqs # <<>>
  <2>1. reqs \in Seq(Request) /\ DOMAIN reqs = 1..n
    BY <1>1, <1>2, <1>4, IsASeq
  <2>2. reqs # <<>>
    BY <1>2, <2>1
  <2>3. QED
    BY <2>1, <2>2
<1>6. \A i \in 1..n : reqs[i].id = next_id + i - 1 /\ reqs[i].op = "primaryByUuid"
  BY <1>1, <1>4
<1>7. NumberedFrom(reqs, next_id)
  BY <1>5, <1>6 DEF NumberedFrom
<1>8. /\ DOMAIN entries = next_id..(next_id + n - 1)
      /\ \A id \in DOMAIN entries : entries[id] \in {NullUuid, SomeUuid}
  <2>1. \A id \in next_id..(next_id + n - 1) : id - next_id + 1 \in 1..n
    BY <1>2
  <2>2. QED
    BY <2>1 DEF UuidEntries
<1> HIDE DEF entries
<1>9. Entered(reqs) = {reqs[i].id : i \in 1..n}
  BY <1>5, <1>6 DEF Entered, Unremembered
<1>10. DOMAIN entries = Entered(reqs)
  <2>1. ASSUME NEW id \in next_id..(next_id + n - 1) PROVE id \in {reqs[i].id : i \in 1..n}
    <3>1. id - next_id + 1 \in 1..n
      BY <1>2, <2>1
    <3>2. id = next_id + (id - next_id + 1) - 1
      BY <1>2, <2>1
    <3>3. reqs[id - next_id + 1].id = id
      BY <1>6, <3>1, <3>2
    <3>4. QED
      BY <3>1, <3>3
  <2>2. ASSUME NEW i \in 1..n PROVE reqs[i].id \in next_id..(next_id + n - 1)
    <3>1. reqs[i].id = next_id + i - 1
      BY <1>6
    <3>2. QED
      BY <1>2, <3>1
  <2>3. QED
    BY <1>8, <1>9, <2>1, <2>2
<1>11. HandleValues(entries)
  BY <1>8, Handles DEF HandleValues, NullUuid, SomeUuid
<1>12. QED
  BY <1>5, <1>6, <1>7, <1>10, <1>11 DEF reqs, entries

LEMMA ByUuidAsks ==
    ASSUME NEW n \in 1..MaxFilter, NEW uuids \in [1..n -> {NullUuid, SomeUuid}],
           DiscoverServicesByUuid(uuids)
    PROVE  /\ connected /\ AskAll(UuidRequests(n), UuidEntries(n, uuids))
           /\ UNCHANGED known /\ UNCHANGED pending_set_notify
<1>1. n \in Nat /\ DOMAIN uuids = 1..n
  BY PeripheralAssumption
<1>2. uuids \in Seq({NullUuid, SomeUuid}) /\ Len(uuids) = n
  <2>1. uuids \in Seq({NullUuid, SomeUuid})
    BY <1>1, IsASeq
  <2>2. QED
    BY <1>1, <2>1, LenProperties
<1>3. QED
  BY <1>1, <1>2 DEF DiscoverServicesByUuid, Calling, UuidRequests, UuidEntries

LEMMA ByUuidTyped ==
    ASSUME Typed, NEW n \in 1..MaxFilter, NEW uuids \in [1..n -> {NullUuid, SomeUuid}],
           DiscoverServicesByUuid(uuids)
    PROVE  Typed'
<1>1. Queued'
  BY ByUuidAsks, UuidRequestsAreNumbered, AskAllQueues DEF Typed, Queued
<1>2. KnownTyped'
  BY ByUuidAsks, KnownUnchanged DEF Typed
<1>3. QED
  BY <1>1, <1>2 DEF Typed

LEMMA ForgettingTyped ==
    ASSUME KnownTyped, NEW chars, ForgetCharacteristics(chars)
    PROVE  /\ HandleMap(characteristic_to_service') /\ HandleMap(value_to_characteristic')
           /\ HandleMap(descriptor_to_characteristic')
BY HandleMaps DEF KnownTyped, ForgetCharacteristics

LEMMA DiscoverCharacteristicsTyped ==
    ASSUME Typed, NEW service \in DOMAIN services, DiscoverCharacteristics(service)
    PROVE  Typed'
<1>1. /\ service \in Handle /\ services[service].end \in Handle /\ ServicesTyped(services)
      /\ connected
  BY DEF Typed, KnownTyped, ServicesTyped, DiscoverCharacteristics, Calling
<1>2. /\ Ask(MakeRequest("characteristics", service, services[service].end, "none"),
             Entry(next_id, service))
      /\ services' = SetChars(services, service, EmptyMap)
      /\ ForgetCharacteristics(services[service].chars)
      /\ announced' = announced \ {service}
      /\ UNCHANGED <<complete_services, service_uuids, bare, pending_set_notify>>
  BY DEF DiscoverCharacteristics, SetChars
<1>3. "characteristics" \in Operation /\ "none" \in RequestValue
  BY DEF Operation, RequestValue
<1>4. Queued'
  BY <1>1, <1>2, <1>3, AskQueues, EntriesFor DEF Typed
<1>5. ServicesTyped(services')
  BY <1>1, <1>2, CharsSet, NoCharacteristics
<1>6. KnownTyped'
  BY <1>2, <1>5, ForgettingTyped DEF KnownTyped, Typed
<1>7. QED
  BY <1>4, <1>6 DEF Typed

LEMMA FindDescriptorsTyped ==
    ASSUME Typed, connected, NEW char, Known(char), Held(char), FindDescriptors(char)
    PROVE  /\ Queued'
           /\ DOMAIN pending_set_notify' \subseteq Handle
              /\ (\A c \in DOMAIN pending_set_notify' : pending_set_notify'[c] \in BOOLEAN)
                => KnownTyped'
<1>1. /\ char \in Handle /\ ServiceOf(char) \in DOMAIN services
      /\ char \in DOMAIN services[ServiceOf(char)].chars
      /\ Char(char).end \in Handle /\ ServicesTyped(services)
  BY HeldCharacteristic DEF Typed, KnownTyped
<1>2. /\ Ask(MakeRequest("descriptors", Following(char), Char(char).end, "none"),
             Entry(next_id, char))
      /\ services' = [services EXCEPT ![ServiceOf(char)].chars[char].descs = {}]
      /\ descriptor_to_characteristic' =
            Without(descriptor_to_characteristic, Char(char).descs)
      /\ UNCHANGED <<complete_services, service_uuids, characteristic_to_service,
                     value_to_characteristic, announced, bare>>
  BY DEF FindDescriptors
<1>3. "descriptors" \in Operation /\ "none" \in RequestValue /\ Following(char) \in Handle
  BY <1>1, Handles DEF Operation, RequestValue
<1>4. Queued'
  BY <1>1, <1>2, <1>3, AskQueues, EntriesFor DEF Typed
<1>5. services' = SetDescs(services, ServiceOf(char), char, {})
  BY <1>1, <1>2, SetByPath
<1>6. ServicesTyped(services')
  BY <1>1, <1>5, DescsSet
<1>7. HandleMap(descriptor_to_characteristic')
  BY <1>2, HandleMaps DEF Typed, KnownTyped
<1>8. QED
  BY <1>2, <1>4, <1>6, <1>7 DEF KnownTyped, Typed

LEMMA DiscoverDescriptorsTyped ==
    ASSUME Typed, NEW char \in DOMAIN characteristic_to_service, DiscoverDescriptors(char)
    PROVE  Typed'
<1>1. /\ connected /\ Known(char) /\ Held(char) /\ FindDescriptors(char)
      /\ pending_set_notify' = pending_set_notify
  BY DEF DiscoverDescriptors, Calling, Known
<1>2. QED
  BY <1>1, FindDescriptorsTyped DEF Typed, KnownTyped

LEMMA ReadCharacteristicTyped ==
    ASSUME Typed, NEW char \in DOMAIN characteristic_to_service, ReadCharacteristic(char)
    PROVE  Typed'
<1>1. /\ connected /\ Known(char) /\ Held(char)
      /\ Ask(MakeRequest("readCharacteristic", Char(char).value, 0, "none"), Entry(next_id, char))
      /\ UNCHANGED known /\ UNCHANGED pending_set_notify
  BY DEF ReadCharacteristic, Calling, Known
<1>2. char \in Handle /\ Char(char).value \in Handle
  BY <1>1, HeldCharacteristic DEF Typed
<1>3. "readCharacteristic" \in Operation /\ "none" \in RequestValue
  BY DEF Operation, RequestValue
<1>4. Queued'
  BY <1>1, <1>2, <1>3, AskQueues, EntriesFor, Handles DEF Typed
<1>5. QED
  BY <1>1, <1>4, KnownUnchanged DEF Typed

LEMMA ReadDescriptorTyped ==
    ASSUME Typed, NEW desc \in DOMAIN descriptor_to_characteristic, ReadDescriptor(desc)
    PROVE  Typed'
<1> DEFINE char == descriptor_to_characteristic[desc]
<1>1. /\ connected
      /\ Ask(MakeRequest("readDescriptor", desc, 0, "none"), Entry(next_id, char))
      /\ UNCHANGED known /\ UNCHANGED pending_set_notify
  BY DEF ReadDescriptor, Calling
<1>2. desc \in Handle /\ char \in Handle
  BY DEF Typed, KnownTyped, HandleMap, HandleValues
<1>3. "readDescriptor" \in Operation /\ "none" \in RequestValue
  BY DEF Operation, RequestValue
<1> HIDE DEF char
<1>4. Queued'
  BY <1>1, <1>2, <1>3, AskQueues, EntriesFor, Handles DEF Typed
<1>5. QED
  BY <1>1, <1>4, KnownUnchanged DEF Typed

LEMMA WriteQueues ==
    ASSUME Queued, connected, NEW handle \in Handle, NEW value \in RequestValue,
           Ask(MakeRequest("write", handle, 0, value), EmptyMap)
    PROVE  Queued'
<1>1. "write" \in Operation
  BY DEF Operation
<1>2. QED
  BY <1>1, AskQueues, EntriesFor, Handles

LEMMA WriteCharacteristicTyped ==
    ASSUME Typed, NEW char \in DOMAIN characteristic_to_service, WriteCharacteristic(char)
    PROVE  Typed'
<1>1. /\ connected /\ Known(char) /\ Held(char)
      /\ Ask(MakeRequest("write", Char(char).value, 0, "data"), EmptyMap)
      /\ UNCHANGED known /\ UNCHANGED pending_set_notify
  BY DEF WriteCharacteristic, Calling, Known
<1>2. Char(char).value \in Handle /\ "data" \in RequestValue
  BY <1>1, HeldCharacteristic DEF Typed, RequestValue
<1>3. QED
  BY <1>1, <1>2, WriteQueues, KnownUnchanged DEF Typed

LEMMA WriteDescriptorTyped ==
    ASSUME Typed, NEW desc \in DOMAIN descriptor_to_characteristic, WriteDescriptor(desc)
    PROVE  Typed'
<1>1. /\ connected
      /\ Ask(MakeRequest("write", desc, 0, "data"), EmptyMap)
      /\ UNCHANGED known /\ UNCHANGED pending_set_notify
  BY DEF WriteDescriptor, Calling
<1>2. desc \in Handle /\ "data" \in RequestValue
  BY DEF Typed, KnownTyped, HandleMap, RequestValue
<1>3. QED
  BY <1>1, <1>2, WriteQueues, KnownUnchanged DEF Typed

LEMMA ConfigurationValue == \A b \in BOOLEAN : Configuration(b) \in RequestValue
BY DEF Configuration, RequestValue

LEMMA SetNotificationTyped ==
    ASSUME Typed, NEW char \in DOMAIN characteristic_to_service, NEW enabled \in BOOLEAN,
           SetNotification(char, enabled)
    PROVE  Typed'
<1> DEFINE notify(c) == pending_set_notify'[c] \in BOOLEAN
<1>1. /\ connected /\ Known(char) /\ Held(char)
      /\ char \in Handle /\ Char(char).value \in Handle
  BY HeldCharacteristic DEF SetNotification, Calling, Known, Typed
<1>2. CASE /\ pending_set_notify' = Without(pending_set_notify, {char})
           /\ Ask(MakeRequest("write", Char(char).value, 0, Configuration(TRUE)), EmptyMap)
           /\ UNCHANGED known
  <2>1. Queued'
    BY <1>1, <1>2, WriteQueues, ConfigurationValue DEF Typed
  <2>2. /\ DOMAIN pending_set_notify' \subseteq Handle
        /\ \A c \in DOMAIN pending_set_notify' : notify(c)
    BY <1>2 DEF Without, Restrict, Typed, KnownTyped
  <2>3. KnownTyped'
    BY <1>2, <2>2 DEF known, maps, KnownTyped, Typed
  <2>4. QED
    BY <2>1, <2>3 DEF Typed
<1>3. CASE /\ pending_set_notify' = With(pending_set_notify, Entry(char, enabled))
           /\ FindDescriptors(char)
  <2>1. /\ DOMAIN pending_set_notify' \subseteq Handle
        /\ \A c \in DOMAIN pending_set_notify' : notify(c)
    BY <1>1, <1>3 DEF With, Entry, Typed, KnownTyped
  <2>2. QED
    BY <1>1, <1>3, <2>1, FindDescriptorsTyped DEF Typed
<1>4. QED
  BY <1>2, <1>3 DEF SetNotification

-----------------------------------------------------------------------------
(***************************************************************************)
(* The handlers of answers.                                                *)
(***************************************************************************)
LEMMA HeadOfQueue ==
    ASSUME Queued, requests # <<>>
    PROVE  /\ Head(requests) \in Request /\ Head(requests).id \in Nat \ {0}
           /\ 1 \in DOMAIN requests /\ Head(requests) = requests[1]
           /\ Head(requests).start \in Handle /\ Head(requests).end \in Handle
           /\ Head(requests).op \in Operation
<1>1. Head(requests) \in Request /\ 1 \in DOMAIN requests /\ Head(requests) = requests[1]
  BY HeadTailProperties, LenProperties, EmptySeq DEF Queued
<1>2. QED
  BY <1>1 DEF Request

\* A page is not empty and lies in the range that was asked for.
LEMMA PageOfMatches ==
    ASSUME NEW req, req.start \in Handle, req.end \in Handle, NEW attributes \in SUBSET Handle,
           NEW page \in Pages(Matches(req, attributes))
    PROVE  /\ page # {} /\ page \subseteq attributes /\ page \in SUBSET Handle
           /\ req.start # 0
           /\ \A h \in page : req.start <= h /\ h <= req.end
           /\ Max(page) \in page /\ \A h \in page : h <= Max(page)
           /\ Min(page) \in page /\ \A h \in page : Min(page) <= h
<1> DEFINE matches == Matches(req, attributes)
<1>1. matches \subseteq attributes /\ \A h \in matches : req.start # 0 /\ req.start <= h /\ h <= req.end
  BY DEF Matches
<1> HIDE DEF matches
<1>2. PICK cut \in matches : page = {h \in matches : h <= cut}
  BY DEF Pages, matches
<1>3. cut \in Nat
  BY <1>1, <1>2, Handles
<1>4. cut \in page /\ page \subseteq matches
  BY <1>2, <1>3
<1>5. page # {} /\ page \subseteq attributes /\ page \in SUBSET Handle
  BY <1>1, <1>4
<1>6. req.start # 0 /\ \A h \in page : req.start <= h /\ h <= req.end
  BY <1>1, <1>4
<1>7. QED
  BY <1>5, <1>6, HandlesHaveMin, HandlesHaveMax

LEMMA FinishTyped ==
    ASSUME Typed, connected, requests # <<>>, Finish, connected' = connected, UNCHANGED known,
           UNCHANGED pending_set_notify
    PROVE  Typed'
BY FinishQueues, KnownUnchanged DEF Typed

LEMMA NotMadeTyped == ASSUME Typed, HandleNotMade PROVE Typed'
<1>1. UNCHANGED known /\ UNCHANGED pending_set_notify
  BY DEF HandleNotMade
<1>2. QED
  BY <1>1, NotMadeQueues, KnownUnchanged DEF Typed

LEMMA PrimaryTyped == ASSUME Typed, HandlePrimary PROVE Typed'
<1>1. /\ connected /\ requests # <<>> /\ connected' = connected
      /\ UNCHANGED <<maps, announced, bare, pending_set_notify>>
  BY DEF HandlePrimary, Answering
<1>2. CASE complete_services' = TRUE /\ Finish /\ UNCHANGED <<services, service_uuids>>
  <2>1. Queued'
    BY <1>1, <1>2, FinishQueues DEF Typed
  <2>2. KnownTyped'
    BY <1>1, <1>2 DEF KnownTyped, Typed, maps
  <2>3. QED
    BY <2>1, <2>2 DEF Typed
<1>3. ASSUME NEW page \in Pages(Matches(Head(requests), DOMAIN Db)),
             services' = With(services, [sv \in page |-> [end |-> Db[sv].end, chars |-> EmptyMap]]),
             service_uuids' = service_uuids \cup page,
             AskMore(MakeRequest("primary", Following(Db[Max(page)].end), MaxHandle, "none"),
                     EmptyMap),
             UNCHANGED complete_services
      PROVE  Typed'
  <2>1. page \subseteq DOMAIN Db /\ Max(page) \in page
    BY <1>1, PageOfMatches, HeadOfQueue, ServerHandles DEF Typed
  <2>2. Following(Db[Max(page)].end) \in Handle
    BY <2>1, ServerHandles, Handles
  <2>3. "primary" \in Operation /\ "none" \in RequestValue
    BY DEF Operation, RequestValue
  <2>4. Queued'
    BY <1>1, <1>3, <2>2, <2>3, AskMoreQueues, EntriesFor, Handles DEF Typed
  <2> DEFINE new == [sv \in page |-> [end |-> Db[sv].end, chars |-> EmptyMap]]
  <2>5. ServicesTyped(new)
    BY <2>1, ServerHandles, NoCharacteristics DEF ServicesTyped
  <2> HIDE DEF new
  <2>6. ServicesTyped(With(services, new))
    BY <2>5, ServicesAndCharacteristicsMerge DEF Typed, KnownTyped
  <2>7. KnownTyped'
    BY <1>1, <1>3, <2>1, <2>6, ServerHandles DEF KnownTyped, Typed, maps, new
  <2>8. QED
    BY <2>4, <2>7 DEF Typed
<1>4. QED
  BY <1>2, <1>3 DEF HandlePrimary

\* What a page adds to the characteristics of a service.
Found(service, page) ==
    [c \in page |->
        [end   |-> IF {d \in page : d > c} = {} THEN services[service].end
                   ELSE Min({d \in page : d > c}) - 1,
         value |-> Char_Db[c].value,
         descs |-> {}]]

Shortened(service, page) ==
    IF services[service].chars = EmptyMap THEN services[service].chars
    ELSE [services[service].chars EXCEPT ![Max(DOMAIN services[service].chars)].end = Min(page) - 1]

LEMMA ExtendedIs ==
    ASSUME NEW service, NEW page
    PROVE  Extended(service, page) = With(Shortened(service, page), Found(service, page))
BY DEF Extended, Found, Shortened

LEMMA ShortenedCharacteristics ==
    ASSUME KnownTyped, NEW service \in DOMAIN services, NEW page, Min(page) - 1 \in Handle
    PROVE  /\ CharsTyped(Shortened(service, page))
           /\ DOMAIN Shortened(service, page) = DOMAIN services[service].chars
           /\ \A c \in DOMAIN services[service].chars :
                 /\ Shortened(service, page)[c].value = services[service].chars[c].value
                 /\ Shortened(service, page)[c].descs = services[service].chars[c].descs
<1> DEFINE old == services[service].chars
<1> DEFINE short == Shortened(service, page)
<1> DEFINE last == Max(DOMAIN services[service].chars)
<1>1. CharsTyped(old)
  BY DEF KnownTyped, ServicesTyped
<1>2. CASE old = EmptyMap
  BY <1>1, <1>2 DEF Shortened
<1>3. CASE old # EmptyMap
  <2>1. short = [old EXCEPT ![last].end = Min(page) - 1]
    BY <1>3 DEF Shortened
  <2> HIDE DEF old, short, last
  <2>2. DOMAIN short = DOMAIN old
    BY <2>1
  <2>3. ASSUME NEW c \in DOMAIN old
        PROVE  short[c] \in CharRecord /\ short[c].value = old[c].value /\ short[c].descs = old[c].descs
    <3>1. old[c] \in CharRecord
      BY <1>1 DEF CharsTyped
    <3>2. short[c] = old[c] \/ short[c] = [old[c] EXCEPT !.end = Min(page) - 1]
      BY <2>1
    <3>3. QED
      BY <3>1, <3>2 DEF CharRecord
  <2>4. CharsTyped(short)
    BY <1>1, <2>2, <2>3 DEF CharsTyped
  <2>5. QED
    BY <2>2, <2>3, <2>4 DEF old, short
<1>4. QED
  BY <1>2, <1>3

LEMMA FoundCharacteristics ==
    ASSUME KnownTyped, NEW service \in DOMAIN services,
           NEW page \in SUBSET DOMAIN Char_Db
    PROVE  /\ CharsTyped(Found(service, page))
           /\ DOMAIN Found(service, page) = page
           /\ \A c \in page : Found(service, page)[c].value = Char_Db[c].value
<1>1. services[service].end \in Handle
  BY DEF KnownTyped, ServicesTyped
<1>2. ASSUME NEW c \in page
      PROVE  /\ Found(service, page)[c] \in CharRecord
             /\ Found(service, page)[c].value = Char_Db[c].value
             /\ c \in Handle
  <2> DEFINE after == {d \in page : d > c}
  <2> DEFINE end == IF after = {} THEN services[service].end ELSE Min(after) - 1
  <2>1. after \in SUBSET Handle /\ c \in Nat
    BY ServerHandles, Handles
  <2>2. end \in Handle
    <3>1. CASE after = {}
      BY <1>1, <3>1
    <3>2. CASE after # {}
      <4>1. Min(after) \in after
        BY <2>1, <3>2, HandlesHaveMin
      <4>2. Min(after) \in Handle /\ Min(after) > c
        BY <2>1, <4>1
      <4>3. Min(after) - 1 \in Handle
        BY <2>1, <4>2, PeripheralAssumption DEF Handle
      <4>4. QED
        BY <3>2, <4>3
    <3>3. QED
      BY <3>1, <3>2
  <2>3. Found(service, page)[c] = [end |-> end, value |-> Char_Db[c].value, descs |-> {}]
    BY DEF Found
  <2> HIDE DEF end, after
  <2>4. QED
    BY <2>2, <2>3, ServerHandles DEF CharRecord
<1>3. DOMAIN Found(service, page) = page
  BY DEF Found
<1>4. QED
  BY <1>2, <1>3 DEF CharsTyped

LEMMA ExtendedCharacteristics ==
    ASSUME KnownTyped, NEW service \in DOMAIN services,
           NEW page \in SUBSET DOMAIN Char_Db, Min(page) \in page
    PROVE  /\ CharsTyped(Extended(service, page))
           /\ DOMAIN Extended(service, page) = DOMAIN services[service].chars \cup page
           /\ \A c \in page : Extended(service, page)[c].value = Char_Db[c].value
           /\ \A c \in DOMAIN services[service].chars \ page :
                 /\ Extended(service, page)[c].value = services[service].chars[c].value
                 /\ Extended(service, page)[c].descs = services[service].chars[c].descs
<1>1. Min(page) - 1 \in Handle
  <2>1. Min(page) \in Handle /\ Min(page) # 0
    BY ServerHandles
  <2>2. QED
    BY <2>1, PeripheralAssumption DEF Handle
<1> DEFINE short == Shortened(service, page)
<1> DEFINE new == Found(service, page)
<1>2. /\ CharsTyped(short)
      /\ DOMAIN short = DOMAIN services[service].chars
      /\ \A c \in DOMAIN services[service].chars :
            /\ short[c].value = services[service].chars[c].value
            /\ short[c].descs = services[service].chars[c].descs
  BY <1>1, ShortenedCharacteristics
<1>3. /\ CharsTyped(new) /\ DOMAIN new = page
      /\ \A c \in page : new[c].value = Char_Db[c].value
  BY FoundCharacteristics
<1>4. Extended(service, page) = With(short, new)
  BY ExtendedIs
<1> HIDE DEF short, new
<1>5. /\ DOMAIN With(short, new) = DOMAIN short \cup page
      /\ \A c \in page : With(short, new)[c] = new[c]
      /\ \A c \in DOMAIN short \ page : With(short, new)[c] = short[c]
  BY <1>3 DEF With
<1>6. CharsTyped(With(short, new))
  BY <1>2, <1>3, ServicesAndCharacteristicsMerge
<1>7. QED
  BY <1>2, <1>3, <1>4, <1>5, <1>6

LEMMA CharacteristicTyped == ASSUME Typed, HandleCharacteristic PROVE Typed'
<1> DEFINE service == pending[Head(requests).id]
<1>1. /\ connected /\ requests # <<>> /\ connected' = connected
      /\ service \in DOMAIN services /\ service \in Handle
      /\ announced' \subseteq announced \cup {service}
      /\ UNCHANGED <<complete_services, service_uuids, bare, pending_set_notify>>
  BY DEF HandleCharacteristic, Discovered, Answering, Typed, KnownTyped, ServicesTyped
<1>2. CASE Finish /\ UNCHANGED <<services, maps>>
  <2>1. Queued'
    BY <1>1, <1>2, FinishQueues DEF Typed
  <2>2. KnownTyped'
    BY <1>1, <1>2 DEF KnownTyped, Typed, maps
  <2>3. QED
    BY <2>1, <2>2 DEF Typed
<1>3. ASSUME NEW page \in Pages(Matches(Head(requests), DOMAIN Char_Db)),
             services' = [services EXCEPT ![service].chars = Extended(service, page)],
             characteristic_to_service' =
                With(characteristic_to_service, [c \in page |-> service]),
             value_to_characteristic' =
                With(value_to_characteristic,
                     [v \in {Char_Db[c].value : c \in page} |->
                         CHOOSE c \in page : Char_Db[c].value = v]),
             \/ Finish
             \/ AskMore(MakeRequest("characteristics", Following(Max(page)),
                                    services[service].end, "none"),
                        Entry(next_id, service)),
             UNCHANGED descriptor_to_characteristic
      PROVE  Typed'
  <2>1. /\ page \subseteq DOMAIN Char_Db /\ page \in SUBSET Handle
        /\ Max(page) \in page /\ Min(page) \in page
    BY <1>1, PageOfMatches, HeadOfQueue, ServerHandles DEF Typed
  <2>2. service \in Handle /\ services[service].end \in Handle /\ ServicesTyped(services)
    BY <1>1 DEF Typed, KnownTyped, ServicesTyped
  <2>3. Queued'
    <3>1. CASE Finish
      BY <1>1, <3>1, FinishQueues DEF Typed
    <3>2. CASE AskMore(MakeRequest("characteristics", Following(Max(page)),
                                   services[service].end, "none"),
                       Entry(next_id, service))
      <4>1. "characteristics" \in Operation /\ "none" \in RequestValue
        BY DEF Operation, RequestValue
      <4>2. Following(Max(page)) \in Handle
        BY <2>1, Handles
      <4>3. EntryFor("characteristics", Entry(next_id, service))
        BY <2>2, EntriesFor
      <4> HIDE DEF service
      <4>4. QED
        BY <1>1, <2>2, <3>2, <4>1, <4>2, <4>3, AskMoreQueues DEF Typed
    <3>3. QED
      BY <1>3, <3>1, <3>2
  <2>4. CharsTyped(Extended(service, page))
    BY <1>1, <2>1, ExtendedCharacteristics DEF Typed
  <2>5. services' = SetChars(services, service, Extended(service, page))
    BY <1>3 DEF SetChars
  <2>6. HandleMap([c \in page |-> service])
    BY <2>1, <2>2 DEF HandleMap, HandleValues
  <2> DEFINE values == [v \in {Char_Db[c].value : c \in page} |->
                            CHOOSE c \in page : Char_Db[c].value = v]
  <2>7. HandleMap(values)
    <3>1. ASSUME NEW v \in DOMAIN values PROVE v \in Handle /\ values[v] \in Handle
      <4>1. PICK c \in page : v = Char_Db[c].value
        OBVIOUS
      <4>2. values[v] \in page
        BY <4>1
      <4>3. QED
        BY <2>1, <4>1, <4>2, ServerHandles
    <3> HIDE DEF values
    <3>2. QED
      BY <3>1 DEF HandleMap, HandleValues
  <2> DEFINE owners == [c \in page |-> service]
  <2> HIDE DEF values, owners
  <2>8. HandleMap(characteristic_to_service') /\ HandleMap(value_to_characteristic')
    BY <1>3, <2>6, <2>7, HandleMaps DEF Typed, KnownTyped, values, owners
  <2>9. ServicesTyped(services')
    BY <1>1, <2>2, <2>4, <2>5, CharsSet
  <2>10. KnownTyped'
    BY <1>1, <1>3, <2>8, <2>9 DEF KnownTyped, Typed
  <2>11. QED
    BY <2>3, <2>10 DEF Typed
<1>4. QED
  BY <1>2, <1>3 DEF HandleCharacteristic, Discovered

(***************************************************************************)
(* The configurations that finishSetNotifyOperations() writes.             *)
(***************************************************************************)
Writes(order, value) ==
    [i \in DOMAIN order |->
        [MakeRequest("write", order[i], 0, value) EXCEPT !.id = next_id + i - 1]]

LEMMA WritesInOrder ==
    ASSUME next_id \in Nat \ {0}, NEW S \in SUBSET Handle, NEW order \in Ascending(S),
           NEW value \in RequestValue
    PROVE  /\ Writes(order, value) \in Seq(Request)
           /\ NumberedFrom(Writes(order, value), next_id)
           /\ DOMAIN EmptyMap = Entered(Writes(order, value)) /\ HandleValues(EmptyMap)
           /\ \A i \in DOMAIN Writes(order, value) :
                 /\ Writes(order, value)[i].op = "write"
                 /\ Writes(order, value)[i].start \in S
                 /\ Writes(order, value)[i].value = value
           /\ \A d \in S : \E i \in DOMAIN Writes(order, value) :
                 Writes(order, value)[i].start = d
<1> DEFINE n == Cardinality(S)
<1> DEFINE reqs == Writes(order, value)
<1> DEFINE req(i) == [MakeRequest("write", order[i], 0, value) EXCEPT !.id = next_id + i - 1]
<1>1. n \in Nat
  <2>1. IsFiniteSet(Handle)
    BY FS_Interval, PeripheralAssumption DEF Handle
  <2>2. QED
    BY <2>1, FS_Subset, FS_CardinalityType
<1>2. order \in [1..n -> S] /\ \A d \in S : \E i \in 1..n : order[i] = d
  BY DEF Ascending, Bijection, Injection, Surjection
<1>3. DOMAIN reqs = 1..n /\ reqs = [i \in 1..n |-> req(i)]
  BY <1>2 DEF Writes
<1>4. \A i \in 1..n : req(i) = [id |-> next_id + i - 1, op |-> "write", start |-> order[i],
                                end |-> 0, value |-> value]
  BY DEF MakeRequest
<1> HIDE DEF n, reqs, req
<1>5. \A i \in 1..n : /\ reqs[i].id = next_id + i - 1 /\ reqs[i].op = "write"
                      /\ reqs[i].start = order[i] /\ reqs[i].value = value
                      /\ req(i) \in Request
  <2>1. \A i \in 1..n : next_id + i - 1 \in Nat \ {0} /\ order[i] \in Handle
    BY <1>1, <1>2
  <2>2. "write" \in Operation /\ 0 \in Handle
    BY PeripheralAssumption DEF Operation, Handle
  <2>3. \A i \in 1..n : req(i) \in Request
    BY <1>4, <2>1, <2>2 DEF Request, RequestValue
  <2>4. QED
    BY <1>3, <1>4, <2>3
<1>6. reqs \in Seq(Request)
  BY <1>1, <1>3, <1>5, IsASeq
<1>7. NumberedFrom(reqs, next_id)
  BY <1>3, <1>5 DEF NumberedFrom
<1>8. Entered(reqs) = {}
  BY <1>3, <1>5 DEF Entered, Unremembered
<1>9. \A i \in DOMAIN reqs : reqs[i].start \in S
  BY <1>2, <1>3, <1>5
<1>10. \A d \in S : \E i \in DOMAIN reqs : reqs[i].start = d
  BY <1>2, <1>3, <1>5
<1>11. DOMAIN EmptyMap = Entered(reqs) /\ HandleValues(EmptyMap)
  BY <1>8, NoEntries DEF HandleValues
<1>12. QED
  BY <1>3, <1>5, <1>6, <1>7, <1>9, <1>10, <1>11 DEF reqs

LEMMA FinishDescriptorsCases ==
    ASSUME NEW char, NEW descs, NEW mapped, FinishDescriptors(char, descs, mapped)
    PROVE  /\ signal' = <<"descriptorsDiscovered", char>>
           /\ pending_set_notify' = Without(pending_set_notify, {char})
           /\ \/ char \notin DOMAIN pending_set_notify /\ Finish
              \/ /\ char \in DOMAIN pending_set_notify
                 /\ \E order \in Ascending(descs \cap Cccd \cap mapped) :
                       AskMoreAll(Writes(order, Configuration(pending_set_notify[char])), EmptyMap)
BY DEF FinishDescriptors, Writes

LEMMA FinishDescriptorsTyped ==
    ASSUME Typed, connected, requests # <<>>, connected' = connected,
           NEW char, NEW descs \in SUBSET Handle, NEW mapped,
           FinishDescriptors(char, descs, mapped)
    PROVE  /\ Queued'
           /\ DOMAIN pending_set_notify' \subseteq Handle
           /\ \A c \in DOMAIN pending_set_notify' : pending_set_notify'[c] \in BOOLEAN
<1>1. pending_set_notify' = Without(pending_set_notify, {char})
  BY DEF FinishDescriptors
<1>2. /\ DOMAIN pending_set_notify' \subseteq Handle
      /\ \A c \in DOMAIN pending_set_notify' : pending_set_notify'[c] \in BOOLEAN
  BY <1>1 DEF Without, Restrict, Typed, KnownTyped
<1>3. CASE Finish
  BY <1>2, <1>3, FinishQueues DEF Typed
<1> DEFINE S == descs \cap Cccd \cap mapped
<1> DEFINE value == Configuration(pending_set_notify[char])
<1>4. ASSUME char \in DOMAIN pending_set_notify, NEW order \in Ascending(S),
             AskMoreAll(Writes(order, value), EmptyMap)
      PROVE  Queued'
  <2>1. S \in SUBSET Handle
    OBVIOUS
  <2>2. value \in RequestValue
    BY <1>4, ConfigurationValue DEF Typed, KnownTyped
  <2> HIDE DEF S, value
  <2>3. /\ Writes(order, value) \in Seq(Request)
        /\ NumberedFrom(Writes(order, value), next_id)
        /\ DOMAIN EmptyMap = Entered(Writes(order, value)) /\ HandleValues(EmptyMap)
    BY <2>1, <2>2, WritesInOrder DEF Typed, Queued
  <2>4. QED
    BY <1>4, <2>3, AskMoreAllQueues DEF Typed
<1>5. QED
  BY <1>2, <1>3, <1>4, FinishDescriptorsCases

LEMMA DescriptorPageTyped ==
    ASSUME Typed, connected, requests # <<>>, connected' = connected,
           NEW char, Known(char), Held(char), NEW page \in SUBSET Handle,
           HandleDescriptorPage(char, page),
           UNCHANGED <<complete_services, service_uuids, characteristic_to_service,
                       value_to_characteristic, announced>>
    PROVE  Typed'
<1> DEFINE new == page \ {Char(char).value}
<1> DEFINE last == IF new = {} THEN 0 ELSE Max(new)
<1> DEFINE descs == Char(char).descs \cup new
<1>1. /\ char \in Handle /\ ServiceOf(char) \in DOMAIN services
      /\ char \in DOMAIN services[ServiceOf(char)].chars
      /\ Char(char).end \in Handle /\ Char(char).descs \subseteq Handle /\ ServicesTyped(services)
  BY HeldCharacteristic DEF Typed, KnownTyped
<1>2. new \in SUBSET Handle /\ descs \in SUBSET Handle
  BY <1>1
<1>3. last \in Handle
  BY <1>2, HandlesHaveMax, Handles
<1> DEFINE mapped == DOMAIN With(descriptor_to_characteristic, [d \in new |-> char])
<1>4. /\ services' = [services EXCEPT ![ServiceOf(char)].chars[char].descs = descs]
      /\ descriptor_to_characteristic' = With(descriptor_to_characteristic, [d \in new |-> char])
      /\ bare' \subseteq bare \cup {char}
      /\ \/ FinishDescriptors(char, descs, mapped)
         \/ /\ AskMore(MakeRequest("descriptors", Following(last), Char(char).end, "none"),
                       Entry(next_id, char))
            /\ UNCHANGED pending_set_notify
  BY DEF HandleDescriptorPage
<1> HIDE DEF new, last, descs, mapped
<1>5. /\ Queued'
      /\ DOMAIN pending_set_notify' \subseteq Handle
      /\ \A c \in DOMAIN pending_set_notify' : pending_set_notify'[c] \in BOOLEAN
  <2>1. CASE FinishDescriptors(char, descs, mapped)
    BY <1>2, <2>1, FinishDescriptorsTyped
  <2>2. CASE /\ AskMore(MakeRequest("descriptors", Following(last), Char(char).end, "none"),
                        Entry(next_id, char))
             /\ UNCHANGED pending_set_notify
    <3>1. "descriptors" \in Operation /\ "none" \in RequestValue
      BY DEF Operation, RequestValue
    <3>2. Following(last) \in Handle
      BY <1>3, Handles
    <3>3. Queued'
      BY <1>1, <2>2, <3>1, <3>2, AskMoreQueues, EntriesFor DEF Typed
    <3>4. QED
      BY <2>2, <3>3 DEF Typed, KnownTyped
  <2>3. QED
    BY <1>4, <2>1, <2>2
<1>6. services' = SetDescs(services, ServiceOf(char), char, descs)
  BY <1>1, <1>4, SetByPath
<1>7. ServicesTyped(services')
  BY <1>1, <1>2, <1>6, DescsSet
<1>8. HandleMap([d \in new |-> char])
  BY <1>1, <1>2 DEF HandleMap, HandleValues
<1>9. HandleMap(descriptor_to_characteristic')
  BY <1>4, <1>8, HandleMaps DEF Typed, KnownTyped
<1>10. KnownTyped'
  BY <1>1, <1>4, <1>5, <1>7, <1>9 DEF KnownTyped, Typed
<1>11. QED
  BY <1>5, <1>10 DEF Typed

LEMMA DescriptorsTyped == ASSUME Typed, HandleDescriptors PROVE Typed'
<1> DEFINE char == pending[Head(requests).id]
<1>1. /\ connected /\ requests # <<>> /\ connected' = connected
      /\ UNCHANGED <<complete_services, service_uuids, characteristic_to_service,
                     value_to_characteristic, announced>>
  BY DEF HandleDescriptors, Answering
<1>2. CASE /\ Finish
           /\ UNCHANGED <<services, descriptor_to_characteristic, bare, pending_set_notify>>
  BY <1>1, <1>2, FinishTyped DEF known, maps
<1>3. CASE /\ Known(char) /\ Held(char)
           /\ FinishDescriptors(char, Char(char).descs, DOMAIN descriptor_to_characteristic)
           /\ UNCHANGED <<services, descriptor_to_characteristic, bare>>
  <2>1. Char(char).descs \in SUBSET Handle
    BY <1>3, HeldCharacteristic DEF Typed
  <2> HIDE DEF char
  <2>2. /\ Queued'
        /\ DOMAIN pending_set_notify' \subseteq Handle
        /\ \A c \in DOMAIN pending_set_notify' : pending_set_notify'[c] \in BOOLEAN
    BY <1>1, <1>3, <2>1, FinishDescriptorsTyped
  <2>3. KnownTyped'
    BY <1>1, <1>3, <2>2 DEF KnownTyped, Typed
  <2>4. QED
    BY <2>2, <2>3 DEF Typed
<1>4. ASSUME Known(char), Held(char),
             NEW page \in Pages(Matches(Head(requests), Attributes)),
             HandleDescriptorPage(char, page)
      PROVE  Typed'
  <2>1. page \in SUBSET Handle
    BY <1>1, PageOfMatches, HeadOfQueue, ServerHandles DEF Typed
  <2> HIDE DEF char
  <2>2. QED
    BY <1>1, <1>4, <2>1, DescriptorPageTyped
<1>5. QED
  BY <1>2, <1>3, <1>4 DEF HandleDescriptors

LEMMA AnswersTyped == ASSUME Typed, Answer PROVE Typed'
<1>0. CASE HandleMtu
  BY <1>0, FinishTyped DEF HandleMtu, Answering
<1>1. CASE HandlePrimaryForService
  BY <1>1, FinishTyped DEF HandlePrimaryForService, Answering
<1>2. CASE HandleCharacteristicRead
  BY <1>2, FinishTyped DEF HandleCharacteristicRead, Answering
<1>3. CASE HandleDescriptorRead
  BY <1>3, FinishTyped DEF HandleDescriptorRead, Answering
<1>4. CASE HandleWrite
  BY <1>4, FinishTyped DEF HandleWrite, Answering
<1>5. QED
  BY <1>0, <1>1, <1>2, <1>3, <1>4, NotMadeTyped, PrimaryTyped, CharacteristicTyped,
     DescriptorsTyped DEF Answer

LEMMA AppTyped == ASSUME Typed, App PROVE Typed'
<1>1. CASE \E service \in DOMAIN services : DiscoverCharacteristics(service)
  BY <1>1, DiscoverCharacteristicsTyped
<1>2. CASE \E n \in 1..MaxFilter : \E uuids \in [1..n -> {NullUuid, SomeUuid}] :
              DiscoverServicesByUuid(uuids)
  BY <1>2, ByUuidTyped
<1>3. CASE \E char \in DOMAIN characteristic_to_service :
              \/ DiscoverDescriptors(char)
              \/ ReadCharacteristic(char)
              \/ WriteCharacteristic(char)
              \/ \E enabled \in BOOLEAN : SetNotification(char, enabled)
  BY <1>3, DiscoverDescriptorsTyped, ReadCharacteristicTyped, WriteCharacteristicTyped,
     SetNotificationTyped
<1>4. CASE \E desc \in DOMAIN descriptor_to_characteristic :
              ReadDescriptor(desc) \/ WriteDescriptor(desc)
  BY <1>4, ReadDescriptorTyped, WriteDescriptorTyped
<1>5. QED
  BY <1>1, <1>2, <1>3, <1>4, ConnectTyped, DisconnectTyped, DiscoverServicesTyped DEF App

LEMMA InitTyped == Init => Typed
<1>1. SUFFICES ASSUME Init PROVE Typed
  OBVIOUS
<1>2. requests = <<>> /\ requests \in Seq(Request) /\ DOMAIN requests = {}
  BY <1>1 DEF Init
<1>3. Numbered(requests, next_id)
  BY <1>2 DEF Numbered
<1>4. HandleMap(EmptyMap) /\ DOMAIN EmptyMap = {}
  BY HandleMaps, NoEntries
<1>5. Queued
  <2>1. HandleValues(pending) /\ DOMAIN pending = {}
    BY <1>1, <1>4 DEF Init, HandleMap
  <2>2. connected \in BOOLEAN /\ ~ connected /\ out \in BOOLEAN
    BY <1>1, Zenon DEF Init
  <2>3. next_id \in Nat \ {0}
    BY <1>1 DEF Init
  <2>4. DOMAIN pending \subseteq Nat
    BY <2>1
  <2>5. QED
    BY <1>2, <1>3, <2>1, <2>2, <2>3, <2>4, Zenon DEF Queued
<1>6. ServicesTyped(EmptyMap)
  BY <1>4 DEF ServicesTyped
<1>7. KnownTyped
  BY <1>1, <1>4, <1>6 DEF Init, KnownTyped
<1>8. QED
  BY <1>5, <1>7 DEF Typed

LEMMA StutterTyped == ASSUME Typed, UNCHANGED vars PROVE Typed'
<1>1. KnownTyped'
  BY KnownUnchanged DEF Typed, vars
<1>2. Queued'
  BY DEF vars, Typed, Queued
<1>3. QED
  BY <1>1, <1>2 DEF Typed

LEMMA AlwaysTyped == Spec => []Typed
<1>1. Typed /\ [Next]_vars => Typed'
  BY AppTyped, AnswersTyped, StutterTyped DEF Next
<1>2. QED
  BY InitTyped, <1>1, PTL DEF Spec

-----------------------------------------------------------------------------
(***************************************************************************)
(* GatoPeripheral's handlers find the entry of every answer they wait for  *)
(* (gatoperipheral.cpp:698, 759, 822, 848): every request made on the link *)
(* that is up has one, and an entry left over without its request is that  *)
(* of a null UUID, whatever the application asked for, wherever a write    *)
(* failed, over links that begin with requests of the links before.        *)
(***************************************************************************)
THEOREM PendingIsRequested == Spec => []PendingMatchesRequests
<1>1. ASSUME Typed PROVE PendingMatchesRequests
  <2>1. ASSUME NEW id \in DOMAIN pending, pending[id] # NullUuid
        PROVE  \E i \in DOMAIN requests :
                  requests[i].id = id /\ requests[i].op \notin Unremembered
    BY <1>1, <2>1 DEF Typed, Queued, Entered
  <2>2. ASSUME connected, NEW i \in DOMAIN requests, OfThisLink(i),
               requests[i].op \notin Unremembered
        PROVE  requests[i].id \in DOMAIN pending
    <3>1. requests[i].id \in Current(requests)
      BY <2>2 DEF OfThisLink, Current
    <3>2. QED
      BY <1>1, <2>2, <3>1 DEF Typed, Queued
  <2>3. QED
    BY <2>1, <2>2 DEF PendingMatchesRequests
<1>2. QED
  BY <1>1, AlwaysTyped, PTL

(***************************************************************************)
(* Handles stay within their width, and a request's id is below the next   *)
(* one (gatoperipheral.h, gatoattclient.cpp:537).                          *)
(***************************************************************************)
THEOREM TypeCorrect == Spec => []TypeOK
<1>1. Typed => TypeOK
  <2>1. SUFFICES ASSUME Typed PROVE TypeOK
    OBVIOUS
  <2>2. /\ {connected, complete_services, out} \subseteq BOOLEAN
        /\ service_uuids \cup announced \cup bare \subseteq Handle
    BY <2>1 DEF Typed, Queued, KnownTyped
  <2>3. IsMap(services, Handle, IsService)
    BY <2>1 DEF Typed, KnownTyped, ServicesTyped, CharsTyped, IsMap, IsService
  <2>4. /\ IsMap(characteristic_to_service, Handle, IsHandle)
        /\ IsMap(value_to_characteristic, Handle, IsHandle)
        /\ IsMap(descriptor_to_characteristic, Handle, IsHandle)
    BY <2>1 DEF Typed, KnownTyped, HandleMap, HandleValues, IsMap, IsHandle
  <2>5. IsMap(pending, Nat, IsHandle)
    BY <2>1 DEF Typed, Queued, HandleValues, IsMap, IsHandle
  <2>6. IsMap(pending_set_notify, Handle, IsBoolean)
    BY <2>1 DEF Typed, KnownTyped, IsMap, IsBoolean
  <2>7. /\ next_id \in Nat /\ requests \in Seq(Request)
        /\ \A i \in DOMAIN requests : requests[i].id < next_id
    BY <2>1 DEF Typed, Queued, Numbered
  <2>8. QED
    BY <2>2, <2>3, <2>4, <2>5, <2>6, <2>7 DEF TypeOK
<1>2. QED
  BY <1>1, AlwaysTyped, PTL

-----------------------------------------------------------------------------
(***************************************************************************)
(* The requests that are out, as a set.                                    *)
(***************************************************************************)
LEMMA OutIsTyped ==
    ASSUME Queued
    PROVE  /\ \A r \in Range(requests) : r \in Request /\ r.id \in Nat \ {0} /\ r.id < next_id
           /\ Out \subseteq Range(requests)
           /\ \A r \in Out : r.op \notin Unremembered => r.id \in DOMAIN pending
<1>1. ASSUME NEW r \in Range(requests)
      PROVE  r \in Request /\ r.id \in Nat \ {0} /\ r.id < next_id
  <2>1. PICK i \in DOMAIN requests : r = requests[i]
    BY DEF Range
  <2>2. QED
    BY <2>1, RequestFields DEF Queued, Numbered
<1>2. QED
  BY <1>1 DEF Out

LEMMA HeadIsOut ==
    ASSUME Queued, requests # <<>>, Made \/ Head(requests).op \in Unremembered
    PROVE  Head(requests) \in Out
BY HeadOfQueue DEF Out, Range, Made

\* Without the first, all those are left that are not the first.
LEMMA RangeOfTail ==
    ASSUME Queued, requests # <<>>
    PROVE  /\ Range(Tail(requests)) = Range(requests) \ {Head(requests)}
           /\ \A r \in Range(Tail(requests)) : r.id # Head(requests).id
<1> DEFINE t == Tail(requests)
<1>1. /\ Len(requests) \in Nat \ {0} /\ DOMAIN requests = 1..Len(requests)
      /\ DOMAIN t = 1..(Len(requests) - 1)
      /\ Head(requests) = requests[1] /\ \A i \in 1..(Len(requests) - 1) : t[i] = requests[i + 1]
  BY LenProperties, EmptySeq, HeadTailProperties DEF Queued
<1> HIDE DEF t
<1>2. ASSUME NEW r \in Range(t) PROVE r \in Range(requests) /\ r.id # Head(requests).id
  <2>1. PICK i \in DOMAIN t : r = t[i]
    BY DEF Range
  <2>2. i + 1 \in DOMAIN requests /\ r = requests[i + 1] /\ 1 \in DOMAIN requests /\ 1 < i + 1
    BY <1>1, <2>1
  <2>3. requests[1].id < r.id
    BY <2>2 DEF Queued, Numbered
  <2>4. requests[1].id \in Nat /\ r.id \in Nat
    BY <2>2, RequestFields DEF Queued
  <2>5. QED
    BY <1>1, <2>2, <2>3, <2>4 DEF Range
<1>3. ASSUME NEW r \in Range(requests), r # Head(requests) PROVE r \in Range(t)
  <2>1. PICK i \in DOMAIN requests : r = requests[i]
    BY DEF Range
  <2>2. i # 1
    BY <1>1, <1>3, <2>1
  <2>3. i - 1 \in DOMAIN t /\ i = (i - 1) + 1
    BY <1>1, <2>2
  <2>4. t[i - 1] = r
    BY <1>1, <2>1, <2>3
  <2>5. QED
    BY <2>3, <2>4 DEF Range
<1>4. QED
  BY <1>2, <1>3 DEF t

LEMMA OutAfterAskAll ==
    ASSUME Queued,
           NEW reqs \in Seq(Request), NumberedFrom(reqs, next_id),
           NEW entries, DOMAIN entries = Entered(reqs), AskAll(reqs, entries)
    PROVE  /\ Out' = Out \cup Range(reqs)
           /\ \A r \in Out : r.op \notin Unremembered => pending'[r.id] = pending[r.id]
           /\ \A id \in DOMAIN entries : pending'[id] = entries[id]
<1>1. /\ requests' = requests \o reqs
      /\ \/ pending' = With(pending, entries)
         \/ requests = <<>> /\ pending' = entries
  BY DEF AskAll
<1>2. Range(requests') = Range(requests) \cup Range(reqs)
  <2>1. requests \in Seq(Request)
    BY DEF Queued
  <2>2. Range(requests \o reqs) = Range(requests) \cup Range(reqs)
    BY ONLY <2>1, RangeConcatenation, reqs \in Seq(Request), Zenon
  <2>3. QED
    BY <1>1, <2>2
<1>3. \A id \in DOMAIN entries : id >= next_id
  <2>1. ASSUME NEW id \in DOMAIN entries PROVE id >= next_id
    <3>1. PICK i \in DOMAIN reqs : id = reqs[i].id
      BY DEF Entered
    <3>2. id = next_id + i - 1 /\ i \in Nat /\ i >= 1 /\ next_id \in Nat
      BY <3>1, LenProperties DEF NumberedFrom, Queued
    <3>3. QED
      BY <3>2
  <2>2. QED
    BY <2>1
<1>4. \A r \in Range(requests) : r.id \notin DOMAIN entries
  <2>1. ASSUME NEW r \in Range(requests) PROVE r.id \notin DOMAIN entries
    <3>1. r.id < next_id /\ r.id \in Nat /\ next_id \in Nat
      BY OutIsTyped DEF Queued
    <3>2. QED
      BY <1>3, <3>1
  <2>2. QED
    BY <2>1
<1>5. \A r \in Range(reqs) : r.op \notin Unremembered => r.id \in DOMAIN entries
  BY DEF Range, Entered
<1>6. CASE pending' = With(pending, entries)
  <2>1. /\ DOMAIN pending' = DOMAIN pending \cup DOMAIN entries
        /\ \A id \in DOMAIN entries : pending'[id] = entries[id]
        /\ \A id \in DOMAIN pending \ DOMAIN entries : pending'[id] = pending[id]
    BY <1>6 DEF With
  <2>2. Out' = Out \cup Range(reqs)
    BY <1>2, <1>4, <1>5, <2>1 DEF Out
  <2>3. \A r \in Out : r.op \notin Unremembered => pending'[r.id] = pending[r.id]
    BY <1>4, <2>1, OutIsTyped
  <2>4. QED
    BY <2>1, <2>2, <2>3
<1>7. CASE requests = <<>> /\ pending' = entries
  <2>1. Range(requests) = {} /\ Out = {}
    BY <1>7, EmptySeq DEF Range, Out
  <2>2. Out' = Range(reqs)
    BY <1>2, <1>5, <1>7, <2>1 DEF Out
  <2>3. QED
    BY <1>7, <2>1, <2>2
<1>8. QED
  BY <1>1, <1>6, <1>7

LEMMA OutAfterAsk ==
    ASSUME Queued,
           NEW op \in Operation, NEW start \in Handle, NEW end \in Handle,
           NEW value \in RequestValue, NEW entry, EntryFor(op, entry),
           Ask(MakeRequest(op, start, end, value), entry)
    PROVE  /\ Out' = Out \cup {MakeRequest(op, start, end, value)}
           /\ \A r \in Out : r.op \notin Unremembered => pending'[r.id] = pending[r.id]
           /\ op \notin Unremembered => pending'[next_id] = entry[next_id]
<1> DEFINE req == MakeRequest(op, start, end, value)
<1>1. /\ <<req>> \in Seq(Request) /\ Len(<<req>>) = 1 /\ <<req>>[1] = req
      /\ NumberedFrom(<<req>>, next_id) /\ DOMAIN entry = Entered(<<req>>)
  BY OneRequest DEF Queued
<1>2. op \notin Unremembered => DOMAIN entry = {next_id}
  BY OneEntry DEF EntryFor
<1>3. AskAll(<<req>>, entry)
  BY DEF Ask
<1> HIDE DEF req
<1>4. Range(<<req>>) = {req}
  BY <1>1 DEF Range
<1>5. QED
  BY <1>1, <1>2, <1>3, <1>4, OutAfterAskAll DEF req

LEMMA OutAfterFinish ==
    ASSUME Queued, requests # <<>>, Finish
    PROVE  /\ Out' = Out \ {Head(requests)}
           /\ \A r \in Out' : r.op \notin Unremembered => pending'[r.id] = pending[r.id]
<1>1. requests' = Tail(requests) /\ pending' = Without(pending, {Head(requests).id})
  BY DEF Finish
<1>2. /\ DOMAIN pending' = DOMAIN pending \ {Head(requests).id}
      /\ \A id \in DOMAIN pending' : pending'[id] = pending[id]
  BY <1>1 DEF Without, Restrict
<1>3. /\ Range(requests') = Range(requests) \ {Head(requests)}
      /\ \A r \in Range(requests') : r.id # Head(requests).id
  BY <1>1, RangeOfTail
<1>4. Out' = Out \ {Head(requests)}
  BY <1>2, <1>3 DEF Out
<1>5. QED
  BY <1>2, <1>4 DEF Out

LEMMA OutAfterNotMade ==
    ASSUME Queued, HandleNotMade
    PROVE  /\ Out' = Out \ {Head(requests)}
           /\ pending' = pending /\ requests # <<>> /\ requests' = Tail(requests)
           /\ connected' = connected /\ UNCHANGED known /\ UNCHANGED pending_set_notify
           /\ signal' = Quiet /\ ~ Made
           /\ Head(requests).op \notin {"mtu", "primary", "write"}
<1>1. /\ pending' = pending /\ requests # <<>> /\ requests' = Tail(requests)
      /\ connected' = connected /\ UNCHANGED known /\ UNCHANGED pending_set_notify
      /\ signal' = Quiet /\ ~ Made
      /\ Head(requests).op \notin {"mtu", "primary", "write"}
  BY DEF HandleNotMade, Answering
<1>2. Range(requests') = Range(requests) \ {Head(requests)}
  BY <1>1, RangeOfTail
<1>3. Out' = Out \ {Head(requests)}
  BY <1>1, <1>2 DEF Out
<1>4. QED
  BY <1>1, <1>3

LEMMA OutAfterAskMoreAll ==
    ASSUME Queued, requests # <<>>,
           NEW reqs \in Seq(Request), NumberedFrom(reqs, next_id),
           NEW entry, DOMAIN entry = Entered(reqs), AskMoreAll(reqs, entry)
    PROVE  /\ Out' = (Out \ {Head(requests)}) \cup Range(reqs)
           /\ \A r \in Out \ {Head(requests)} :
                 r.op \notin Unremembered => pending'[r.id] = pending[r.id]
           /\ \A id \in DOMAIN entry : pending'[id] = entry[id]
<1> DEFINE rest == Without(pending, {Head(requests).id})
<1>1. requests' = Tail(requests) \o reqs /\ pending' = With(rest, entry)
  BY DEF AskMoreAll
<1>2. Tail(requests) \in Seq(Request)
  BY NumberedTail DEF Queued
<1>3. /\ Range(Tail(requests)) = Range(requests) \ {Head(requests)}
      /\ \A r \in Range(Tail(requests)) : r.id # Head(requests).id
  BY RangeOfTail
<1>4. Range(requests') = (Range(requests) \ {Head(requests)}) \cup Range(reqs)
  <2>1. Range(Tail(requests) \o reqs) = Range(Tail(requests)) \cup Range(reqs)
    BY <1>2, RangeConcatenation, Zenon
  <2>2. QED
    BY <1>1, <1>3, <2>1
<1>5. \A id \in DOMAIN entry : id >= next_id
  <2>1. ASSUME NEW id \in DOMAIN entry PROVE id >= next_id
    <3>1. PICK i \in DOMAIN reqs : id = reqs[i].id
      BY DEF Entered
    <3>2. id = next_id + i - 1 /\ i \in Nat /\ i >= 1 /\ next_id \in Nat
      BY <3>1, LenProperties DEF NumberedFrom, Queued
    <3>3. QED
      BY <3>2
  <2>2. QED
    BY <2>1
<1>6. \A r \in Range(requests) : r.id \notin DOMAIN entry
  <2>1. ASSUME NEW r \in Range(requests) PROVE r.id \notin DOMAIN entry
    <3>1. r.id < next_id /\ r.id \in Nat /\ next_id \in Nat
      BY OutIsTyped DEF Queued
    <3>2. QED
      BY <1>5, <3>1
  <2>2. QED
    BY <2>1
<1>7. \A r \in Range(reqs) : r.op \notin Unremembered => r.id \in DOMAIN entry
  BY DEF Range, Entered
<1>8. /\ DOMAIN rest = DOMAIN pending \ {Head(requests).id}
      /\ \A id \in DOMAIN rest : rest[id] = pending[id]
  BY DEF Without, Restrict
<1> HIDE DEF rest
<1>9. /\ DOMAIN pending' = DOMAIN rest \cup DOMAIN entry
      /\ \A id \in DOMAIN entry : pending'[id] = entry[id]
      /\ \A id \in DOMAIN rest \ DOMAIN entry : pending'[id] = rest[id]
  BY <1>1 DEF With
<1>10. Out' = (Out \ {Head(requests)}) \cup Range(reqs)
  BY <1>3, <1>4, <1>6, <1>7, <1>8, <1>9 DEF Out
<1>11. ASSUME NEW r \in Out \ {Head(requests)}, r.op \notin Unremembered
       PROVE  pending'[r.id] = pending[r.id]
  <2>1. r.id \in DOMAIN pending /\ r \in Range(requests)
    BY <1>11, OutIsTyped
  <2>2. r.id # Head(requests).id /\ r.id \notin DOMAIN entry
    BY <1>3, <1>6, <1>11, <2>1
  <2>3. QED
    BY <1>8, <1>9, <2>1, <2>2
<1>12. QED
  BY <1>9, <1>10, <1>11

LEMMA OutAfterAskMore ==
    ASSUME Queued, requests # <<>>,
           NEW op \in Operation, NEW start \in Handle, NEW end \in Handle,
           NEW value \in RequestValue, NEW entry, EntryFor(op, entry),
           AskMore(MakeRequest(op, start, end, value), entry)
    PROVE  /\ Out' = (Out \ {Head(requests)}) \cup {MakeRequest(op, start, end, value)}
           /\ \A r \in Out \ {Head(requests)} :
                 r.op \notin Unremembered => pending'[r.id] = pending[r.id]
           /\ op \notin Unremembered => pending'[next_id] = entry[next_id]
<1> DEFINE req == MakeRequest(op, start, end, value)
<1>1. /\ <<req>> \in Seq(Request) /\ Len(<<req>>) = 1 /\ <<req>>[1] = req
      /\ NumberedFrom(<<req>>, next_id) /\ DOMAIN entry = Entered(<<req>>)
  BY OneRequest DEF Queued
<1>2. op \notin Unremembered => DOMAIN entry = {next_id}
  BY OneEntry DEF EntryFor
<1>3. AskMoreAll(<<req>>, entry)
  BY DEF AskMore
<1> HIDE DEF req
<1>4. Range(<<req>>) = {req}
  BY <1>1 DEF Range
<1>5. QED
  BY <1>1, <1>2, <1>3, <1>4, OutAfterAskMoreAll DEF req

\* A new link begins with one request more, the end of one forgets entries.
LEMMA OutAfterConnect ==
    ASSUME Queued, Connect
    PROVE  /\ Out' = Out \cup {MakeRequest("mtu", 0, 0, "none")}
           /\ pending' = pending
<1> DEFINE req == MakeRequest("mtu", 0, 0, "none")
<1>1. /\ requests' = Append(requests, req) /\ pending' = pending /\ req.op = "mtu"
  BY DEF Connect, MakeRequest
<1> HIDE DEF req
<1>2. /\ Len(requests) \in Nat /\ DOMAIN requests = 1..Len(requests)
      /\ DOMAIN requests' = 1..(Len(requests) + 1)
      /\ requests'[Len(requests) + 1] = req
      /\ \A i \in 1..Len(requests) : requests'[i] = requests[i]
  BY <1>1, LenProperties DEF Queued
<1>3. Range(requests') = Range(requests) \cup {req}
  <2>1. ASSUME NEW i \in DOMAIN requests' PROVE requests'[i] \in Range(requests) \cup {req}
    <3>1. i \in DOMAIN requests \/ i = Len(requests) + 1
      BY <1>2
    <3>2. QED
      BY <1>2, <3>1 DEF Range
  <2>2. \A i \in DOMAIN requests : i \in DOMAIN requests'
    BY <1>2
  <2>3. Len(requests) + 1 \in DOMAIN requests'
    BY <1>2
  <2>4. QED
    BY <1>2, <2>1, <2>2, <2>3 DEF Range
<1>4. QED
  BY <1>1, <1>3 DEF Out, Unremembered, req

LEMMA OutAfterDisconnect ==
    ASSUME Disconnect
    PROVE  Out' = {r \in Out : r.op \in Unremembered}
<1>1. requests' = requests /\ DOMAIN pending' = {}
  BY NoEntries DEF Disconnect
<1>2. QED
  BY <1>1 DEF Out

-----------------------------------------------------------------------------
(***************************************************************************)
(* A step that finds nothing new keeps every discovery ahead of what has   *)
(* been found.                                                             *)
(***************************************************************************)
FindsNothing ==
    /\ DOMAIN services' = DOMAIN services
    /\ \A sv \in DOMAIN services : DOMAIN services'[sv].chars \subseteq DOMAIN services[sv].chars

Discoveries == {"primary", "characteristics"}

LEMMA StaysAhead ==
    ASSUME Ahead, FindsNothing,
           \A r \in Out' : r.op \in Discoveries => r \in Out,
           \A r \in Out' : r.op = "characteristics" => pending'[r.id] = pending[r.id]
    PROVE  Ahead'
<1>1. ServicesAhead'
  BY DEF Ahead, ServicesAhead, FindsNothing, Discoveries
<1>2. ASSUME NEW r \in Out', r.op = "characteristics"
      PROVE  /\ pending'[r.id] \in DOMAIN services'
             /\ r.end = Db[pending'[r.id]].end
             /\ pending'[r.id] <= r.start
             /\ \A c \in DOMAIN services'[pending'[r.id]].chars : c < r.start
             /\ \A s \in Out' : s.op = "characteristics" /\ pending'[s.id] = pending'[r.id]
                                => s = r
  <2>1. r \in Out /\ pending'[r.id] = pending[r.id]
    BY <1>2 DEF Discoveries
  <2>2. /\ pending[r.id] \in DOMAIN services
        /\ r.end = Db[pending[r.id]].end
        /\ pending[r.id] <= r.start
        /\ \A c \in DOMAIN services[pending[r.id]].chars : c < r.start
    BY <1>2, <2>1 DEF Ahead, CharacteristicsAhead
  <2>3. ASSUME NEW s \in Out', s.op = "characteristics", pending'[s.id] = pending'[r.id]
        PROVE  s = r
    <3>1. s \in Out /\ pending'[s.id] = pending[s.id]
      BY <2>3 DEF Discoveries
    <3>2. QED
      BY <1>2, <2>1, <2>3, <3>1 DEF Ahead, CharacteristicsAhead
  <2>4. QED
    BY <2>1, <2>2, <2>3 DEF FindsNothing
<1>3. CharacteristicsAhead'
  BY <1>2 DEF CharacteristicsAhead
<1>4. QED
  BY <1>1, <1>3 DEF Ahead

LEMMA AskStaysAhead ==
    ASSUME Queued, Ahead, FindsNothing,
           NEW op \in Operation \ Discoveries, NEW start \in Handle, NEW end \in Handle,
           NEW value \in RequestValue, NEW entry, EntryFor(op, entry),
           Ask(MakeRequest(op, start, end, value), entry)
    PROVE  Ahead'
<1>1. /\ Out' = Out \cup {MakeRequest(op, start, end, value)}
      /\ \A r \in Out : r.op \notin Unremembered => pending'[r.id] = pending[r.id]
  BY OutAfterAsk
<1>2. MakeRequest(op, start, end, value).op = op
  BY DEF MakeRequest
<1>3. \A r \in Out' : r.op \in Discoveries => r \in Out
  BY <1>1, <1>2
<1>4. \A r \in Out' : r.op = "characteristics" => pending'[r.id] = pending[r.id]
  BY <1>1, <1>3 DEF Discoveries, Unremembered
<1>5. QED
  BY <1>3, <1>4, StaysAhead

LEMMA FinishStaysAhead ==
    ASSUME Queued, requests # <<>>, Ahead, FindsNothing, Finish
    PROVE  Ahead'
<1>1. /\ Out' = Out \ {Head(requests)}
      /\ \A r \in Out' : r.op \notin Unremembered => pending'[r.id] = pending[r.id]
  BY OutAfterFinish
<1>2. \A r \in Out' : r.op = "characteristics" => pending'[r.id] = pending[r.id]
  BY <1>1 DEF Unremembered
<1>3. QED
  BY <1>1, <1>2, StaysAhead

LEMMA AskMoreStaysAhead ==
    ASSUME Queued, requests # <<>>, Ahead, FindsNothing,
           NEW op \in Operation \ Discoveries, NEW start \in Handle, NEW end \in Handle,
           NEW value \in RequestValue, NEW entry, EntryFor(op, entry),
           AskMore(MakeRequest(op, start, end, value), entry)
    PROVE  Ahead'
<1>1. /\ Out' = (Out \ {Head(requests)}) \cup {MakeRequest(op, start, end, value)}
      /\ \A r \in Out \ {Head(requests)} :
            r.op \notin Unremembered => pending'[r.id] = pending[r.id]
  BY OutAfterAskMore
<1>2. MakeRequest(op, start, end, value).op = op
  BY DEF MakeRequest
<1>3. \A r \in Out' : r.op \in Discoveries => r \in Out \ {Head(requests)}
  BY <1>1, <1>2
<1>4. \A r \in Out' : r.op = "characteristics" => pending'[r.id] = pending[r.id]
  BY <1>1, <1>3 DEF Discoveries, Unremembered
<1>5. QED
  BY <1>3, <1>4, StaysAhead

-----------------------------------------------------------------------------
(***************************************************************************)
(* The ranges of services are disjoint: a characteristic in the range of a *)
(* service is one of that service, and of no other.                        *)
(***************************************************************************)
LEMMA RangesAreDisjoint ==
    ASSUME NEW sv \in DOMAIN Db, NEW other \in DOMAIN Db, NEW c \in DOMAIN Db[other].chars,
           sv <= c, c <= Db[sv].end
    PROVE  other = sv
<1>1. /\ sv \in 1..MaxHandle /\ other \in 1..MaxHandle /\ c \in other..Db[other].end
      /\ Db[sv].end \in sv..MaxHandle /\ Db[other].end \in other..MaxHandle
      /\ sv < other => Db[sv].end < other
      /\ other < sv => Db[other].end < sv
  BY DbAssumption
<1>2. MaxHandle \in Nat
  BY PeripheralAssumption
<1>3. QED
  BY <1>1, <1>2

LEMMA OneService ==
    ASSUME NEW sv \in DOMAIN Db, NEW c \in DOMAIN Db[sv].chars
    PROVE  /\ c \in DOMAIN Char_Db /\ sv <= c /\ c <= Db[sv].end
           /\ \A other \in DOMAIN Db : c \in DOMAIN Db[other].chars => other = sv
<1>1. c \in sv..Db[sv].end /\ sv \in 1..MaxHandle /\ Db[sv].end \in sv..MaxHandle
  BY DbAssumption
<1>2. sv <= c /\ c <= Db[sv].end
  BY <1>1, PeripheralAssumption
<1>3. c \in DOMAIN Char_Db
  BY DEF Char_Db
<1>4. QED
  BY <1>2, <1>3, RangesAreDisjoint

LEMMA InRangeOfService ==
    ASSUME NEW sv \in DOMAIN Db, NEW c \in DOMAIN Char_Db, sv <= c, c <= Db[sv].end
    PROVE  c \in DOMAIN Db[sv].chars
<1>1. PICK other \in DOMAIN Db : c \in DOMAIN Db[other].chars
  BY CharacteristicsOfServer
<1>2. QED
  BY <1>1, RangesAreDisjoint

(***************************************************************************)
(* What is known and the maps, through each kind of step.                  *)
(***************************************************************************)
LEMMA AgreementUnchanged ==
    ASSUME OfServer, Mapped, UNCHANGED known
    PROVE  OfServer' /\ Mapped' /\ FindsNothing
<1>1. /\ services' = services /\ characteristic_to_service' = characteristic_to_service
      /\ value_to_characteristic' = value_to_characteristic
      /\ descriptor_to_characteristic' = descriptor_to_characteristic
  BY DEF known, maps
<1>2. OfServer'
  BY <1>1 DEF OfServer
<1>3. Mapped'
  BY <1>1 DEF Mapped, Held, Known, Char, ServiceOf
<1>4. QED
  BY <1>1, <1>2, <1>3 DEF FindsNothing

\* The descriptors of char become descs, and the map knows only those of it.
LEMMA AgreementOfDescriptors ==
    ASSUME ServicesTyped(services), OfServer, Mapped, NEW char, Known(char), Held(char),
           NEW descs \in SUBSET Handle,
           services' = SetDescs(services, ServiceOf(char), char, descs),
           UNCHANGED <<characteristic_to_service, value_to_characteristic>>,
           \A d \in DOMAIN descriptor_to_characteristic' :
              \/ descriptor_to_characteristic'[d] = char /\ d \in descs
              \/ /\ d \in DOMAIN descriptor_to_characteristic
                 /\ descriptor_to_characteristic'[d] = descriptor_to_characteristic[d]
                 /\ descriptor_to_characteristic[d] # char
    PROVE  OfServer' /\ Mapped' /\ FindsNothing
<1> DEFINE sv == ServiceOf(char)
<1>1. sv \in DOMAIN services /\ char \in DOMAIN services[sv].chars
  BY DEF Held
<1>2. /\ DOMAIN services' = DOMAIN services
      /\ services'[sv].chars[char].descs = descs
      /\ \A s \in DOMAIN services :
            /\ services'[s].end = services[s].end
            /\ DOMAIN services'[s].chars = DOMAIN services[s].chars
            /\ \A d \in DOMAIN services[s].chars :
                  /\ services'[s].chars[d].value = services[s].chars[d].value
                  /\ s # sv \/ d # char => services'[s].chars[d] = services[s].chars[d]
  BY <1>1, DescsSet
<1>3. OfServer'
  BY <1>2 DEF OfServer
<1>4. \A c \in DOMAIN characteristic_to_service : ServiceOf(c)' = ServiceOf(c) /\ Held(c)'
  BY <1>2 DEF Mapped, Held, ServiceOf
<1>5. \A c \in DOMAIN characteristic_to_service :
         Char(c)'.value = Char(c).value /\ (c # char => Char(c)' = Char(c))
  BY <1>2 DEF Mapped, Held, ServiceOf, Char
<1>6. Char(char)'.descs = descs
  BY <1>2 DEF Char, ServiceOf
<1>7. Mapped'
  BY <1>4, <1>5, <1>6 DEF Mapped, Known
<1>8. FindsNothing
  BY <1>2 DEF FindsNothing
<1>9. QED
  BY <1>3, <1>7, <1>8

LEMMA AgreementOfForgetting ==
    ASSUME ServicesTyped(services), OfServer, Mapped, NEW service \in DOMAIN services,
           services' = SetChars(services, service, EmptyMap),
           ForgetCharacteristics(services[service].chars)
    PROVE  OfServer' /\ Mapped' /\ FindsNothing /\ DOMAIN services'[service].chars = {}
<1>1. /\ DOMAIN services' = DOMAIN services
      /\ DOMAIN services'[service].chars = {}
      /\ \A s \in DOMAIN services : /\ services'[s].end = services[s].end
                                    /\ s # service => services'[s].chars = services[s].chars
  BY CharsSet, NoCharacteristics, NoEntries
<1>2. OfServer' /\ FindsNothing
  BY <1>1 DEF OfServer, FindsNothing
<1> DEFINE gone == services[service].chars
<1>3. /\ characteristic_to_service' = Without(characteristic_to_service, DOMAIN gone)
      /\ value_to_characteristic' =
            Without(value_to_characteristic, {gone[c].value : c \in DOMAIN gone})
      /\ descriptor_to_characteristic' =
            Without(descriptor_to_characteristic, UNION {gone[c].descs : c \in DOMAIN gone})
  BY DEF ForgetCharacteristics
<1>4. /\ DOMAIN characteristic_to_service' = DOMAIN characteristic_to_service \ DOMAIN gone
      /\ \A c \in DOMAIN characteristic_to_service' :
            characteristic_to_service'[c] = characteristic_to_service[c]
  BY <1>3 DEF Without, Restrict
<1>5. ASSUME NEW c \in DOMAIN characteristic_to_service'
      PROVE  /\ Held(c)' /\ Char(c)' = Char(c)
  <2>1. Held(c) /\ c \notin DOMAIN gone /\ ServiceOf(c)' = ServiceOf(c)
    BY <1>4 DEF Mapped, ServiceOf
  <2>2. ServiceOf(c) # service
    BY <2>1 DEF Held
  <2>3. services'[ServiceOf(c)].chars = services[ServiceOf(c)].chars
    BY <1>1, <2>1, <2>2 DEF Held
  <2>4. QED
    BY <1>1, <2>1, <2>3 DEF Held, Char
<1>6. ASSUME NEW c \in DOMAIN characteristic_to_service, c \in DOMAIN gone
      PROVE  Char(c) = gone[c]
  <2>1. Held(c)
    BY DEF Mapped
  <2>2. /\ ServiceOf(c) \in DOMAIN Db /\ service \in DOMAIN Db
        /\ c \in DOMAIN Db[ServiceOf(c)].chars /\ c \in DOMAIN Db[service].chars
    BY <1>6, <2>1 DEF Held, OfServer
  <2>3. ServiceOf(c) = service
    BY <2>2, OneService
  <2>4. QED
    BY <2>3 DEF Char
<1>7. ASSUME NEW v \in DOMAIN value_to_characteristic', NEW c, c = value_to_characteristic'[v]
      PROVE  c \in DOMAIN characteristic_to_service' /\ Char(c)'.value = v
  <2>1. /\ v \in DOMAIN value_to_characteristic
        /\ c = value_to_characteristic[v]
        /\ v \notin {gone[x].value : x \in DOMAIN gone}
    BY <1>3, <1>7 DEF Without, Restrict
  <2>2. c \in DOMAIN characteristic_to_service /\ Char(c).value = v
    BY <2>1 DEF Mapped, Known
  <2>3. c \notin DOMAIN gone
    BY <1>6, <2>1, <2>2
  <2> HIDE DEF gone
  <2>4. c \in DOMAIN characteristic_to_service'
    BY <1>4, <2>2, <2>3
  <2>5. QED
    BY <1>5, <2>2, <2>4
<1>8. ASSUME NEW d \in DOMAIN descriptor_to_characteristic', NEW c,
             c = descriptor_to_characteristic'[d]
      PROVE  c \in DOMAIN characteristic_to_service' /\ d \in Char(c)'.descs
  <2>1. /\ d \in DOMAIN descriptor_to_characteristic
        /\ c = descriptor_to_characteristic[d]
        /\ d \notin UNION {gone[x].descs : x \in DOMAIN gone}
    BY <1>3, <1>8 DEF Without, Restrict
  <2>2. c \in DOMAIN characteristic_to_service /\ d \in Char(c).descs
    BY <2>1 DEF Mapped, Known
  <2>3. c \notin DOMAIN gone
    BY <1>6, <2>1, <2>2
  <2> HIDE DEF gone
  <2>4. c \in DOMAIN characteristic_to_service'
    BY <1>4, <2>2, <2>3
  <2>5. QED
    BY <1>5, <2>2, <2>4
<1> HIDE DEF gone
<1>9. Mapped'
  BY <1>5, <1>7, <1>8 DEF Mapped, Known, Held, Char, ServiceOf
<1>10. QED
  BY <1>1, <1>2, <1>9

-----------------------------------------------------------------------------
(***************************************************************************)
(* Every step of a disciplined application keeps the agreement.            *)
(***************************************************************************)
LEMMA ConnectAgreed == ASSUME Typed, Agreed, Connect PROVE Agreed'
<1>1. OfServer' /\ Mapped'
  BY AgreementUnchanged DEF Connect, Agreed
<1>2. FindsNothing
  BY AgreementUnchanged DEF Connect, Agreed
<1>3. /\ Out' = Out \cup {MakeRequest("mtu", 0, 0, "none")} /\ pending' = pending
      /\ MakeRequest("mtu", 0, 0, "none").op = "mtu"
  BY OutAfterConnect DEF Typed, MakeRequest
<1>4. Ahead'
  BY <1>2, <1>3, StaysAhead DEF Agreed, Discoveries
<1>5. QED
  BY <1>1, <1>4 DEF Agreed

LEMMA DisconnectAgreed == ASSUME Agreed, Disconnect PROVE Agreed'
<1>1. OfServer' /\ Mapped' /\ FindsNothing
  BY AgreementUnchanged DEF Disconnect, Agreed
<1>2. Out' = {r \in Out : r.op \in Unremembered}
  BY OutAfterDisconnect
<1>3. Ahead'
  BY <1>1, <1>2, StaysAhead DEF Agreed, Unremembered
<1>4. QED
  BY <1>1, <1>3 DEF Agreed

LEMMA NotMadeAgreed == ASSUME Typed, Agreed, HandleNotMade PROVE Agreed'
<1>1. /\ Out' = Out \ {Head(requests)} /\ pending' = pending /\ UNCHANGED known
  BY OutAfterNotMade DEF Typed
<1>2. OfServer' /\ Mapped' /\ FindsNothing
  BY <1>1, AgreementUnchanged DEF Agreed
<1>3. Ahead'
  BY <1>1, <1>2, StaysAhead DEF Agreed
<1>4. QED
  BY <1>2, <1>3 DEF Agreed

LEMMA BusyOut == \A op : (\E r \in Out : r.op = op) => Busy(op)
BY DEF Busy, Out, Range

LEMMA OngoingOut ==
    ASSUME NEW r \in Out, r.op \notin Unremembered
    PROVE  \E i \in Ongoing(r.op) : requests[i] = r
<1>1. PICK i \in DOMAIN requests : r = requests[i]
  BY DEF Out, Range
<1>2. r.id \in DOMAIN pending
  BY DEF Out
<1>3. QED
  BY <1>1, <1>2 DEF Ongoing

LEMMA PendingOut ==
    ASSUME NEW r \in Out, r.op \notin Unremembered
    PROVE  Pending(r.op, pending[r.id])
BY OngoingOut DEF Pending

LEMMA DiscoverServicesAgreed ==
    ASSUME Disciplined, Typed, Agreed, DiscoverServices
    PROVE  Agreed'
<1>1. /\ services' = EmptyMap /\ characteristic_to_service' = EmptyMap
      /\ value_to_characteristic' = EmptyMap /\ descriptor_to_characteristic' = EmptyMap
      /\ connected /\ ~ Busy("primary") /\ Ongoing("characteristics") = {}
      /\ Ask(MakeRequest("primary", 1, MaxHandle, "none"), EmptyMap)
  BY DEF DiscoverServices, Calling
<1>2. DOMAIN services' = {}
  BY <1>1, NoEntries
<1>3. OfServer' /\ Mapped'
  BY <1>1, <1>2, NoEntries DEF OfServer, Mapped
<1>4. Ahead'
  <2>1. "primary" \in Operation /\ "none" \in RequestValue
    BY DEF Operation, RequestValue
  <2> DEFINE req == MakeRequest("primary", 1, MaxHandle, "none")
  <2>2. Out' = Out \cup {req} /\ req.op = "primary"
    <3>1. Out' = Out \cup {req}
      BY <1>1, <2>1, EntriesFor, Handles, OutAfterAsk DEF Typed
    <3>2. QED
      BY <3>1 DEF MakeRequest
  <2> HIDE DEF req
  <2>3. \A r \in Out' : r.op \in Discoveries => r = req
    <3>1. \A r \in Out : r.op # "characteristics"
      BY <1>1, OngoingOut DEF Unremembered
    <3>2. QED
      BY <1>1, <2>2, <3>1, BusyOut DEF Discoveries
  <2>4. ServicesAhead'
    BY <1>2, <2>3 DEF ServicesAhead, Discoveries
  <2>5. CharacteristicsAhead'
    BY <2>2, <2>3 DEF CharacteristicsAhead, Discoveries
  <2>6. QED
    BY <2>4, <2>5 DEF Ahead
<1>5. QED
  BY <1>3, <1>4 DEF Agreed

LEMMA ByUuidAgreed ==
    ASSUME Typed, Agreed, NEW n \in 1..MaxFilter, NEW uuids \in [1..n -> {NullUuid, SomeUuid}],
           DiscoverServicesByUuid(uuids)
    PROVE  Agreed'
<1>1. connected /\ AskAll(UuidRequests(n), UuidEntries(n, uuids)) /\ UNCHANGED known
  BY ByUuidAsks
<1>2. OfServer' /\ Mapped' /\ FindsNothing
  BY <1>1, AgreementUnchanged DEF Agreed
<1>3. Ahead'
  <2>1. /\ UuidRequests(n) \in Seq(Request)
        /\ NumberedFrom(UuidRequests(n), next_id)
        /\ \A i \in DOMAIN UuidRequests(n) : UuidRequests(n)[i].op = "primaryByUuid"
        /\ DOMAIN UuidEntries(n, uuids) = Entered(UuidRequests(n))
    BY UuidRequestsAreNumbered DEF Typed, Queued
  <2>2. /\ Out' = Out \cup Range(UuidRequests(n))
        /\ \A r \in Out : r.op \notin Unremembered => pending'[r.id] = pending[r.id]
    BY <1>1, <2>1, OutAfterAskAll DEF Typed
  <2>3. \A r \in Range(UuidRequests(n)) : r.op = "primaryByUuid"
    BY <2>1 DEF Range
  <2>4. \A r \in Out' : r.op \in Discoveries => r \in Out
    BY <2>2, <2>3 DEF Discoveries
  <2>5. \A r \in Out' : r.op = "characteristics" => pending'[r.id] = pending[r.id]
    BY <2>2, <2>4 DEF Discoveries, Unremembered
  <2>6. QED
    BY <1>1, <1>2, <2>4, <2>5, StaysAhead DEF Agreed
<1>4. QED
  BY <1>2, <1>3 DEF Agreed

LEMMA DiscoverCharacteristicsAgreed ==
    ASSUME Disciplined, Typed, Agreed, NEW service \in DOMAIN services,
           DiscoverCharacteristics(service)
    PROVE  Agreed'
<1>1. /\ connected /\ ~ Pending("characteristics", service)
      /\ Ask(MakeRequest("characteristics", service, services[service].end, "none"),
             Entry(next_id, service))
      /\ services' = SetChars(services, service, EmptyMap)
      /\ ForgetCharacteristics(services[service].chars)
  BY DEF DiscoverCharacteristics, Calling, SetChars
<1>2. /\ ServicesTyped(services) /\ service \in Handle /\ services[service].end \in Handle
  BY DEF Typed, KnownTyped, ServicesTyped
<1>3. OfServer' /\ Mapped' /\ FindsNothing /\ DOMAIN services'[service].chars = {}
  BY <1>1, <1>2, AgreementOfForgetting DEF Agreed
<1>4. Ahead'
  <2>1. "characteristics" \in Operation /\ "none" \in RequestValue
    BY DEF Operation, RequestValue
  <2> DEFINE req == MakeRequest("characteristics", service, services[service].end, "none")
  <2>2. /\ Out' = Out \cup {req}
        /\ \A r \in Out : r.op \notin Unremembered => pending'[r.id] = pending[r.id]
        /\ pending'[next_id] = Entry(next_id, service)[next_id]
    <3>1. EntryFor("characteristics", Entry(next_id, service))
      BY <1>2, EntriesFor
    <3>2. "characteristics" \notin Unremembered
      BY DEF Unremembered
    <3>3. QED
      BY <1>1, <1>2, <2>1, <3>1, <3>2, OutAfterAsk DEF Typed
  <2>3. /\ req.id = next_id /\ req.op = "characteristics" /\ req.start = service
        /\ req.end = services[service].end
    BY DEF MakeRequest
  <2> HIDE DEF req
  <2>4. pending'[req.id] = service
    <3>1. Entry(next_id, service)[next_id] = service
      BY DEF Entry
    <3>2. QED
      BY <2>2, <2>3, <3>1
  <2>5. \A r \in Out : r.op = "characteristics" =>
           pending'[r.id] = pending[r.id] /\ pending[r.id] # service
    BY <1>1, <2>2, PendingOut DEF Unremembered
  <2>6. ServicesAhead'
    BY <1>1, <1>3, <2>2, <2>3 DEF ServicesAhead, Agreed, Ahead, FindsNothing
  <2>7. ASSUME NEW r \in Out', r.op = "characteristics"
        PROVE  /\ pending'[r.id] \in DOMAIN services'
               /\ r.end = Db[pending'[r.id]].end
               /\ pending'[r.id] <= r.start
               /\ \A c \in DOMAIN services'[pending'[r.id]].chars : c < r.start
               /\ \A s \in Out' : s.op = "characteristics" /\ pending'[s.id] = pending'[r.id]
                                  => s = r
    <3>1. CASE r = req
      <4>1. service <= r.start /\ r.end = Db[service].end
        <5>1. service <= service
          BY <1>2, Handles
        <5>2. services[service].end = Db[service].end
          BY DEF Agreed, OfServer
        <5>3. QED
          BY <2>3, <3>1, <5>1, <5>2
      <4>2. QED
        BY <1>3, <2>2, <2>4, <2>5, <3>1, <4>1 DEF FindsNothing
    <3>2. CASE r # req
      <4>1. r \in Out /\ pending'[r.id] = pending[r.id] /\ pending[r.id] # service
        BY <2>2, <2>5, <2>7, <3>2
      <4>2. /\ pending[r.id] \in DOMAIN services
            /\ r.end = Db[pending[r.id]].end
            /\ pending[r.id] <= r.start
            /\ \A c \in DOMAIN services[pending[r.id]].chars : c < r.start
            /\ \A s \in Out : s.op = "characteristics" /\ pending[s.id] = pending[r.id] => s = r
        BY <1>1, <2>7, <4>1 DEF Agreed, Ahead, CharacteristicsAhead
      <4>3. ASSUME NEW s \in Out', s.op = "characteristics", pending'[s.id] = pending'[r.id]
            PROVE  s = r
        <5>1. s # req
          BY <2>4, <4>1, <4>3
        <5>2. s \in Out /\ pending'[s.id] = pending[s.id]
          BY <2>2, <2>5, <4>3, <5>1
        <5>3. QED
          BY <4>1, <4>2, <4>3, <5>2
      <4>4. QED
        BY <1>3, <4>1, <4>2, <4>3 DEF FindsNothing
    <3>3. QED
      BY <3>1, <3>2
  <2>8. CharacteristicsAhead'
    BY <2>7 DEF CharacteristicsAhead
  <2>9. QED
    BY <2>6, <2>8 DEF Ahead
<1>5. QED
  BY <1>3, <1>4 DEF Agreed

LEMMA FindDescriptorsAgreed ==
    ASSUME Typed, Agreed, connected, NEW char, Known(char), Held(char), FindDescriptors(char)
    PROVE  Agreed'
<1>1. /\ char \in Handle /\ ServiceOf(char) \in DOMAIN services
      /\ Char(char).end \in Handle /\ ServicesTyped(services)
  BY HeldCharacteristic DEF Typed, KnownTyped
<1>2. /\ Ask(MakeRequest("descriptors", Following(char), Char(char).end, "none"),
             Entry(next_id, char))
      /\ services' = [services EXCEPT ![ServiceOf(char)].chars[char].descs = {}]
      /\ descriptor_to_characteristic' =
            Without(descriptor_to_characteristic, Char(char).descs)
      /\ UNCHANGED <<characteristic_to_service, value_to_characteristic>>
  BY DEF FindDescriptors
<1>3. services' = SetDescs(services, ServiceOf(char), char, {})
  BY <1>1, <1>2, SetByPath
<1>4. ASSUME NEW d \in DOMAIN descriptor_to_characteristic'
      PROVE  /\ d \in DOMAIN descriptor_to_characteristic
             /\ descriptor_to_characteristic'[d] = descriptor_to_characteristic[d]
             /\ descriptor_to_characteristic[d] # char
  <2>1. /\ d \in DOMAIN descriptor_to_characteristic /\ d \notin Char(char).descs
        /\ descriptor_to_characteristic'[d] = descriptor_to_characteristic[d]
    BY <1>2 DEF Without, Restrict
  <2>2. d \in Char(descriptor_to_characteristic[d]).descs
    BY <2>1 DEF Agreed, Mapped
  <2>3. QED
    BY <2>1, <2>2
<1>5. OfServer' /\ Mapped' /\ FindsNothing
  <2>1. {} \in SUBSET Handle
    OBVIOUS
  <2>2. QED
    BY <1>1, <1>2, <1>3, <1>4, <2>1, AgreementOfDescriptors DEF Agreed
<1>6. Ahead'
  <2>1. "descriptors" \in Operation \ Discoveries /\ "none" \in RequestValue
        /\ Following(char) \in Handle
    BY <1>1, Handles DEF Operation, RequestValue, Discoveries
  <2>2. EntryFor("descriptors", Entry(next_id, char))
    BY <1>1, EntriesFor
  <2>3. QED
    BY <1>1, <1>2, <1>5, <2>1, <2>2, AskStaysAhead DEF Typed, Agreed
<1>7. QED
  BY <1>5, <1>6 DEF Agreed

LEMMA AskAgreed ==
    ASSUME Typed, Agreed, connected, UNCHANGED known,
           NEW op \in Operation \ Discoveries, NEW start \in Handle, NEW end \in Handle,
           NEW value \in RequestValue, NEW entry, EntryFor(op, entry),
           Ask(MakeRequest(op, start, end, value), entry)
    PROVE  Agreed'
<1>1. OfServer' /\ Mapped' /\ FindsNothing
  BY AgreementUnchanged DEF Agreed
<1>2. Ahead'
  BY <1>1, AskStaysAhead DEF Typed, Agreed
<1>3. QED
  BY <1>1, <1>2 DEF Agreed

LEMMA WriteAgreed ==
    ASSUME Typed, Agreed, connected, UNCHANGED known,
           NEW handle \in Handle, NEW value \in RequestValue,
           Ask(MakeRequest("write", handle, 0, value), EmptyMap)
    PROVE  Agreed'
<1>1. "write" \in Operation \ Discoveries
  BY DEF Operation, Discoveries
<1>2. QED
  BY <1>1, AskAgreed, EntriesFor, Handles

LEMMA CharacteristicCallsAgreed ==
    ASSUME Typed, Agreed, NEW char \in DOMAIN characteristic_to_service,
           \/ DiscoverDescriptors(char)
           \/ ReadCharacteristic(char)
           \/ WriteCharacteristic(char)
           \/ \E enabled \in BOOLEAN : SetNotification(char, enabled)
    PROVE  Agreed'
<1>1. /\ connected /\ Known(char) /\ Held(char)
      /\ char \in Handle /\ Char(char).value \in Handle
  <2>1. connected /\ Known(char) /\ Held(char)
    BY DEF DiscoverDescriptors, ReadCharacteristic, WriteCharacteristic, SetNotification,
           Calling, Known
  <2>2. QED
    BY <2>1, HeldCharacteristic DEF Typed
<1>2. CASE FindDescriptors(char)
  BY <1>1, <1>2, FindDescriptorsAgreed
<1>3. CASE /\ Ask(MakeRequest("readCharacteristic", Char(char).value, 0, "none"),
                  Entry(next_id, char))
           /\ UNCHANGED known
  <2>1. "readCharacteristic" \in Operation \ Discoveries /\ "none" \in RequestValue
    BY DEF Operation, RequestValue, Discoveries
  <2>2. EntryFor("readCharacteristic", Entry(next_id, char))
    BY <1>1, EntriesFor
  <2>3. QED
    BY <1>1, <1>3, <2>1, <2>2, AskAgreed, Handles
<1>4. ASSUME NEW value \in RequestValue,
             Ask(MakeRequest("write", Char(char).value, 0, value), EmptyMap), UNCHANGED known
      PROVE  Agreed'
  BY <1>1, <1>4, WriteAgreed
<1>5. "data" \in RequestValue /\ Configuration(TRUE) \in RequestValue
  BY ConfigurationValue DEF RequestValue
<1>6. \/ FindDescriptors(char)
      \/ /\ Ask(MakeRequest("readCharacteristic", Char(char).value, 0, "none"),
                Entry(next_id, char))
         /\ UNCHANGED known
      \/ /\ Ask(MakeRequest("write", Char(char).value, 0, "data"), EmptyMap)
         /\ UNCHANGED known
      \/ /\ Ask(MakeRequest("write", Char(char).value, 0, Configuration(TRUE)), EmptyMap)
         /\ UNCHANGED known
  BY DEF DiscoverDescriptors, ReadCharacteristic, WriteCharacteristic, SetNotification
<1>7. QED
  BY <1>2, <1>3, <1>4, <1>5, <1>6

LEMMA DescriptorCallsAgreed ==
    ASSUME Typed, Agreed, NEW desc \in DOMAIN descriptor_to_characteristic,
           ReadDescriptor(desc) \/ WriteDescriptor(desc)
    PROVE  Agreed'
<1> DEFINE char == descriptor_to_characteristic[desc]
<1>1. /\ connected /\ UNCHANGED known
      /\ \/ Ask(MakeRequest("readDescriptor", desc, 0, "none"), Entry(next_id, char))
         \/ Ask(MakeRequest("write", desc, 0, "data"), EmptyMap)
  BY DEF ReadDescriptor, WriteDescriptor, Calling
<1>2. desc \in Handle /\ char \in Handle
  BY DEF Typed, KnownTyped, HandleMap, HandleValues
<1> HIDE DEF char
<1>3. CASE Ask(MakeRequest("readDescriptor", desc, 0, "none"), Entry(next_id, char))
  <2>1. "readDescriptor" \in Operation \ Discoveries /\ "none" \in RequestValue
    BY DEF Operation, RequestValue, Discoveries
  <2>2. EntryFor("readDescriptor", Entry(next_id, char))
    BY <1>2, EntriesFor
  <2>3. QED
    BY <1>1, <1>2, <1>3, <2>1, <2>2, AskAgreed, Handles
<1>4. CASE Ask(MakeRequest("write", desc, 0, "data"), EmptyMap)
  <2>1. "data" \in RequestValue
    BY DEF RequestValue
  <2>2. QED
    BY <1>1, <1>2, <1>4, <2>1, WriteAgreed
<1>5. QED
  BY <1>1, <1>3, <1>4

LEMMA AppAgreed == ASSUME Disciplined, Typed, Agreed, App PROVE Agreed'
<1>1. CASE \E service \in DOMAIN services : DiscoverCharacteristics(service)
  BY <1>1, DiscoverCharacteristicsAgreed
<1>2. CASE \E n \in 1..MaxFilter : \E uuids \in [1..n -> {NullUuid, SomeUuid}] :
              DiscoverServicesByUuid(uuids)
  BY <1>2, ByUuidAgreed
<1>3. CASE \E char \in DOMAIN characteristic_to_service :
              \/ DiscoverDescriptors(char)
              \/ ReadCharacteristic(char)
              \/ WriteCharacteristic(char)
              \/ \E enabled \in BOOLEAN : SetNotification(char, enabled)
  BY <1>3, CharacteristicCallsAgreed
<1>4. CASE \E desc \in DOMAIN descriptor_to_characteristic :
              ReadDescriptor(desc) \/ WriteDescriptor(desc)
  BY <1>4, DescriptorCallsAgreed
<1>5. QED
  BY <1>1, <1>2, <1>3, <1>4, ConnectAgreed, DisconnectAgreed, DiscoverServicesAgreed DEF App

LEMMA FollowingIsNext ==
    ASSUME NEW h \in Handle, Following(h) # 0
    PROVE  Following(h) = h + 1
<1>1. MaxHandle \in Nat /\ h \in 0..MaxHandle
  BY PeripheralAssumption DEF Handle
<1>2. CASE h = MaxHandle
  BY <1>1, <1>2 DEF Following
<1>3. CASE h # MaxHandle
  BY <1>1, <1>3 DEF Following
<1>4. QED
  BY <1>2, <1>3

LEMMA FinishAgreed ==
    ASSUME Typed, Agreed, connected, requests # <<>>, connected' = connected, Finish,
           UNCHANGED known
    PROVE  Agreed'
<1>1. OfServer' /\ Mapped' /\ FindsNothing
  BY AgreementUnchanged DEF Agreed
<1>2. Ahead'
  BY <1>1, FinishStaysAhead DEF Typed, Agreed
<1>3. QED
  BY <1>1, <1>2 DEF Agreed

LEMMA PrimaryPageAgreed ==
    ASSUME Typed, Agreed, Answering("primary"),
           NEW page \in Pages(Matches(Head(requests), DOMAIN Db)),
           services' = With(services, [sv \in page |-> [end |-> Db[sv].end, chars |-> EmptyMap]]),
           AskMore(MakeRequest("primary", Following(Db[Max(page)].end), MaxHandle, "none"),
                   EmptyMap),
           connected' = connected, UNCHANGED maps
    PROVE  Agreed'
<1> DEFINE head == Head(requests)
<1> DEFINE last == Max(page)
<1> DEFINE new == [sv \in page |-> [end |-> Db[sv].end, chars |-> EmptyMap]]
<1>1. connected /\ requests # <<>> /\ head.op = "primary" /\ head \in Out
  BY HeadIsOut DEF Answering, Typed, Unremembered
<1>2. /\ page \subseteq DOMAIN Db /\ head.start # 0 /\ last \in page
      /\ \A sv \in page : head.start <= sv /\ sv <= last
      /\ head.start \in Handle /\ page \subseteq Handle
  BY <1>1, PageOfMatches, HeadOfQueue, ServerHandles DEF Typed
<1>3. \A sv \in DOMAIN services : sv < head.start /\ sv \in Handle
  BY <1>1, <1>2 DEF Agreed, Ahead, ServicesAhead, Typed, KnownTyped, ServicesTyped
<1>4. \A sv \in DOMAIN services : sv \notin page
  <2>1. ASSUME NEW sv \in DOMAIN services, sv \in page PROVE FALSE
    <3>1. sv < head.start /\ head.start <= sv /\ sv \in Nat /\ head.start \in Nat
      BY <1>2, <1>3, <2>1, Handles
    <3>2. QED
      BY <3>1
  <2>2. QED
    BY <2>1
<1>5. DOMAIN new = page /\ \A sv \in page : new[sv].end = Db[sv].end /\ new[sv].chars = EmptyMap
  OBVIOUS
<1> HIDE DEF new, head, last
<1>6. /\ DOMAIN services' = DOMAIN services \cup page
      /\ \A sv \in DOMAIN services : services'[sv] = services[sv]
      /\ \A sv \in page : services'[sv].end = Db[sv].end /\ services'[sv].chars = EmptyMap
  BY <1>4, <1>5 DEF With, new
<1>7. OfServer'
  BY <1>2, <1>6, NoEntries DEF OfServer, Agreed
<1>8. Mapped'
  <2>1. /\ characteristic_to_service' = characteristic_to_service
        /\ value_to_characteristic' = value_to_characteristic
        /\ descriptor_to_characteristic' = descriptor_to_characteristic
    BY DEF maps
  <2>2. \A c \in DOMAIN characteristic_to_service :
           Held(c) /\ services'[ServiceOf(c)] = services[ServiceOf(c)]
    BY <1>6 DEF Agreed, Mapped, Held
  <2>3. \A c \in DOMAIN characteristic_to_service : Held(c)' /\ Char(c)' = Char(c)
    BY <1>6, <2>1, <2>2 DEF Held, Char, ServiceOf
  <2>4. QED
    BY <2>1, <2>3 DEF Mapped, Known, Held, Char, ServiceOf, Agreed
<1> DEFINE req == MakeRequest("primary", Following(Db[last].end), MaxHandle, "none")
<1>9. /\ Out' = (Out \ {head}) \cup {req}
      /\ \A r \in Out \ {head} : r.op \notin Unremembered => pending'[r.id] = pending[r.id]
      /\ req.op = "primary" /\ req.start = Following(Db[last].end)
  <2>1. "primary" \in Operation /\ "none" \in RequestValue
    BY DEF Operation, RequestValue
  <2>2. Following(Db[last].end) \in Handle
    BY <1>2, ServerHandles, Handles
  <2>3. /\ Out' = (Out \ {head}) \cup {req}
        /\ \A r \in Out \ {head} : r.op \notin Unremembered => pending'[r.id] = pending[r.id]
    BY <1>1, <2>1, <2>2, EntriesFor, Handles, OutAfterAskMore DEF Typed, head, last
  <2>4. QED
    BY <2>3 DEF MakeRequest
<1> HIDE DEF req
<1>10. \A r \in Out' : r.op = "primary" => r = req
  BY <1>1, <1>9 DEF Agreed, Ahead, ServicesAhead
<1>11. ASSUME req.start # 0, NEW sv \in DOMAIN services' PROVE sv < req.start
  <2>1. req.start = Db[last].end + 1
    BY <1>2, <1>9, <1>11, FollowingIsNext, ServerHandles
  <2>2. last <= Db[last].end /\ last \in Nat /\ Db[last].end \in Nat
    BY <1>2, DbAssumption, Handles, ServerHandles
  <2>3. sv \in Nat /\ sv <= last
    <3>1. CASE sv \in page
      BY <1>2, <3>1, Handles
    <3>2. CASE sv \in DOMAIN services
      <4>1. sv < head.start /\ head.start <= last /\ sv \in Nat /\ head.start \in Nat
        BY <1>2, <1>3, <3>2, Handles
      <4>2. QED
        BY <2>2, <4>1
    <3>3. QED
      BY <1>6, <1>11, <3>1, <3>2
  <2>4. QED
    BY <2>1, <2>2, <2>3
<1>12. ServicesAhead'
  BY <1>10, <1>11 DEF ServicesAhead
<1>13. ASSUME NEW r \in Out', r.op = "characteristics"
       PROVE  /\ r \in Out /\ pending'[r.id] = pending[r.id]
              /\ pending[r.id] \in DOMAIN services
  <2>1. r \in Out /\ pending'[r.id] = pending[r.id]
    BY <1>9, <1>13 DEF Unremembered
  <2>2. QED
    BY <1>1, <1>13, <2>1 DEF Agreed, Ahead, CharacteristicsAhead
<1>14. CharacteristicsAhead'
  BY <1>1, <1>6, <1>13 DEF CharacteristicsAhead, Agreed, Ahead
<1>15. QED
  BY <1>7, <1>8, <1>12, <1>14 DEF Agreed, Ahead

LEMMA PrimaryAgreed == ASSUME Typed, Agreed, HandlePrimary PROVE Agreed'
<1>1. /\ Answering("primary") /\ connected /\ requests # <<>> /\ connected' = connected
      /\ UNCHANGED maps
  BY DEF HandlePrimary, Answering
<1>2. CASE Finish /\ UNCHANGED services
  <2>1. OfServer' /\ Mapped' /\ FindsNothing
    BY <1>1, <1>2 DEF Agreed, OfServer, Mapped, FindsNothing, maps, Known, Held, Char, ServiceOf
  <2>2. Ahead'
    BY <1>1, <1>2, <2>1, FinishStaysAhead DEF Typed, Agreed
  <2>3. QED
    BY <2>1, <2>2 DEF Agreed
<1>3. ASSUME NEW page \in Pages(Matches(Head(requests), DOMAIN Db)),
             services' = With(services, [sv \in page |-> [end |-> Db[sv].end, chars |-> EmptyMap]]),
             AskMore(MakeRequest("primary", Following(Db[Max(page)].end), MaxHandle, "none"),
                     EmptyMap)
      PROVE  Agreed'
  BY <1>1, <1>3, PrimaryPageAgreed
<1>4. QED
  BY <1>2, <1>3 DEF HandlePrimary

\* The characteristics of a page join those of their service, in the maps too.
LEMMA CharacteristicPageKnown ==
    ASSUME KnownTyped, OfServer, Mapped, NEW service \in DOMAIN services,
           NEW page \in SUBSET DOMAIN Char_Db, Min(page) \in page,
           \A c \in page : c \in DOMAIN Db[service].chars /\ c \notin DOMAIN services[service].chars,
           services' = SetChars(services, service, Extended(service, page)),
           characteristic_to_service' =
              With(characteristic_to_service, [c \in page |-> service]),
           value_to_characteristic' =
              With(value_to_characteristic,
                   [v \in {Char_Db[c].value : c \in page} |->
                       CHOOSE c \in page : Char_Db[c].value = v]),
           UNCHANGED descriptor_to_characteristic
    PROVE  /\ OfServer' /\ Mapped'
           /\ DOMAIN services' = DOMAIN services
           /\ DOMAIN services'[service].chars = DOMAIN services[service].chars \cup page
           /\ \A s \in DOMAIN services : s # service => services'[s].chars = services[s].chars
<1> DEFINE old == services[service].chars
<1> DEFINE ext == Extended(service, page)
<1>1. /\ CharsTyped(ext) /\ DOMAIN ext = DOMAIN old \cup page
      /\ \A c \in page : ext[c].value = Char_Db[c].value
      /\ \A c \in DOMAIN old : ext[c].value = old[c].value /\ ext[c].descs = old[c].descs
  BY ExtendedCharacteristics
<1>2. /\ DOMAIN services' = DOMAIN services /\ services'[service].chars = ext
      /\ \A s \in DOMAIN services : /\ services'[s].end = services[s].end
                                    /\ s # service => services'[s].chars = services[s].chars
  <2>1. ServicesTyped(services)
    BY DEF KnownTyped
  <2>2. QED
    BY <1>1, <2>1, CharsSet
<1> HIDE DEF ext
<1>3. OfServer'
  <2>1. ASSUME NEW sv \in DOMAIN services'
        PROVE  /\ sv \in DOMAIN Db /\ services'[sv].end = Db[sv].end
               /\ \A c \in DOMAIN services'[sv].chars :
                     /\ c \in DOMAIN Db[sv].chars
                     /\ services'[sv].chars[c].value = Char_Db[c].value
    <3>1. sv \in DOMAIN Db /\ services'[sv].end = Db[sv].end
      BY <1>2, <2>1 DEF OfServer
    <3>2. CASE sv # service
      BY <1>2, <2>1, <3>1, <3>2 DEF OfServer
    <3>3. CASE sv = service
      BY <1>1, <1>2, <2>1, <3>1, <3>3 DEF OfServer
    <3>4. QED
      BY <3>2, <3>3
  <2>2. QED
    BY <2>1 DEF OfServer
<1>4. /\ DOMAIN characteristic_to_service' = DOMAIN characteristic_to_service \cup page
      /\ \A c \in page : characteristic_to_service'[c] = service
      /\ \A c \in DOMAIN characteristic_to_service \ page :
            characteristic_to_service'[c] = characteristic_to_service[c]
  BY DEF With
<1>5. ASSUME NEW c \in DOMAIN characteristic_to_service PROVE c \notin page
  <2>1. Held(c)
    BY DEF Mapped
  <2>2. ServiceOf(c) \in DOMAIN Db /\ c \in DOMAIN Db[ServiceOf(c)].chars /\ service \in DOMAIN Db
    BY <2>1 DEF Held, OfServer
  <2>3. ASSUME c \in page PROVE FALSE
    <3>1. ServiceOf(c) = service
      BY <2>2, <2>3, OneService
    <3>2. QED
      BY <2>1, <2>3, <3>1 DEF Held
  <2>4. QED
    BY <2>3
<1>6. ASSUME NEW c \in DOMAIN characteristic_to_service
      PROVE  Held(c)' /\ Char(c)'.value = Char(c).value /\ Char(c)'.descs = Char(c).descs
  <2>1. Held(c) /\ ServiceOf(c)' = ServiceOf(c)
    BY <1>4, <1>5 DEF Mapped, ServiceOf
  <2>2. CASE ServiceOf(c) = service
    BY <1>1, <1>2, <2>1, <2>2 DEF Held, Char
  <2>3. CASE ServiceOf(c) # service
    BY <1>2, <2>1, <2>3 DEF Held, Char
  <2>4. QED
    BY <2>2, <2>3
<1>7. ASSUME NEW c \in page PROVE Held(c)' /\ Char(c)'.value = Char_Db[c].value
  BY <1>1, <1>2, <1>4 DEF Held, Char, ServiceOf
<1>8. ASSUME NEW v \in DOMAIN value_to_characteristic', NEW c, c = value_to_characteristic'[v]
      PROVE  c \in DOMAIN characteristic_to_service' /\ Char(c)'.value = v
  <2> DEFINE values == [w \in {Char_Db[x].value : x \in page} |->
                            CHOOSE x \in page : Char_Db[x].value = w]
  <2>1. value_to_characteristic' = With(value_to_characteristic, values)
    OBVIOUS
  <2>2. CASE v \in DOMAIN values
    <3>1. c = values[v]
      BY <1>8, <2>1, <2>2 DEF With
    <3>2. PICK x \in page : v = Char_Db[x].value
      BY <2>2
    <3>3. c \in page /\ Char_Db[c].value = v
      BY <3>1, <3>2
    <3>4. QED
      BY <1>4, <1>7, <3>3
  <2>3. CASE v \notin DOMAIN values
    <3> HIDE DEF values
    <3>1. v \in DOMAIN value_to_characteristic /\ c = value_to_characteristic[v]
      BY <1>8, <2>1, <2>3 DEF With
    <3>2. c \in DOMAIN characteristic_to_service /\ Char(c).value = v
      BY <3>1 DEF Mapped, Known
    <3>3. QED
      BY <1>4, <1>6, <3>2
  <2>4. QED
    BY <2>2, <2>3
<1>9. ASSUME NEW d \in DOMAIN descriptor_to_characteristic', NEW c,
             c = descriptor_to_characteristic'[d]
      PROVE  c \in DOMAIN characteristic_to_service' /\ d \in Char(c)'.descs
  <2>1. c \in DOMAIN characteristic_to_service /\ d \in Char(c).descs
    BY <1>9 DEF Mapped, Known
  <2>2. QED
    BY <1>4, <1>6, <2>1
<1>10. \A c \in DOMAIN characteristic_to_service' : Held(c)'
  BY <1>4, <1>6, <1>7
<1>11. Mapped'
  BY <1>8, <1>9, <1>10 DEF Mapped, Known, Held, Char, ServiceOf
<1>12. QED
  BY <1>1, <1>2, <1>3, <1>11

\* A page of characteristics is of the service asked, and comes after what is
\* known of it.
LEMMA PageOfService ==
    ASSUME Typed, Agreed, Answering("characteristics"), Made,
           NEW service \in DOMAIN services, service = pending[Head(requests).id],
           NEW page \in Pages(Matches(Head(requests), DOMAIN Char_Db))
    PROVE  /\ service \in DOMAIN Db /\ services[service].end = Db[service].end
           /\ Head(requests) \in Out /\ Head(requests).end = Db[service].end
           /\ page # {} /\ page \subseteq DOMAIN Char_Db /\ page \subseteq Handle
           /\ Max(page) \in page /\ Min(page) \in page
           /\ \A c \in page :
                 /\ c \in DOMAIN Db[service].chars
                 /\ \A d \in DOMAIN services[service].chars : d < c
<1> DEFINE head == Head(requests)
<1>1. connected /\ requests # <<>> /\ head.op = "characteristics"
  BY DEF Answering
<1>2. /\ head \in Out /\ head.end = Db[service].end /\ service <= head.start
      /\ \A c \in DOMAIN services[service].chars : c < head.start
  BY <1>1, HeadIsOut DEF Typed, Agreed, Ahead, CharacteristicsAhead
<1>3. /\ page # {} /\ page \subseteq DOMAIN Char_Db /\ page \subseteq Handle
      /\ Max(page) \in page /\ Min(page) \in page
      /\ \A c \in page : head.start <= c /\ c <= head.end
      /\ head.start \in Handle
  BY <1>1, PageOfMatches, HeadOfQueue, ServerHandles DEF Typed
<1>4. /\ service \in DOMAIN Db /\ services[service].end = Db[service].end /\ service \in Handle
      /\ DOMAIN services[service].chars \subseteq Handle
  BY DEF Typed, KnownTyped, ServicesTyped, CharsTyped, Agreed, OfServer
<1> HIDE DEF head
<1>5. ASSUME NEW c \in page
      PROVE  /\ c \in DOMAIN Db[service].chars
             /\ \A d \in DOMAIN services[service].chars : d < c
  <2>1. /\ service \in Nat /\ head.start \in Nat /\ c \in Nat
        /\ service <= head.start /\ head.start <= c /\ c <= Db[service].end
    BY <1>2, <1>3, <1>4, Handles
  <2>2. service <= c
    BY <2>1
  <2>3. c \in DOMAIN Db[service].chars
    BY <1>3, <1>4, <2>1, <2>2, InRangeOfService
  <2>4. ASSUME NEW d \in DOMAIN services[service].chars PROVE d < c
    <3>1. d < head.start /\ d \in Nat
      BY <1>2, <1>4, Handles
    <3>2. QED
      BY <2>1, <3>1
  <2>5. QED
    BY <2>3, <2>4
<1>6. QED
  BY <1>2, <1>3, <1>4, <1>5 DEF head

LEMMA CharacteristicAgreed == ASSUME Typed, Agreed, HandleCharacteristic PROVE Agreed'
<1> DEFINE head == Head(requests)
<1> DEFINE service == pending[head.id]
<1>1. /\ connected /\ requests # <<>> /\ connected' = connected /\ out /\ Made
      /\ head.op = "characteristics" /\ service \in DOMAIN services
  BY DEF HandleCharacteristic, Answering
<1>2. CASE Finish /\ UNCHANGED <<services, maps>>
  <2>1. OfServer' /\ Mapped' /\ FindsNothing
    BY <1>1, <1>2 DEF Agreed, OfServer, Mapped, FindsNothing, maps, Known, Held, Char, ServiceOf
  <2>2. Ahead'
    BY <1>1, <1>2, <2>1, FinishStaysAhead DEF Typed, Agreed
  <2>3. QED
    BY <2>1, <2>2 DEF Agreed
<1>3. ASSUME NEW page \in Pages(Matches(head, DOMAIN Char_Db)),
             services' = [services EXCEPT ![service].chars = Extended(service, page)],
             characteristic_to_service' =
                With(characteristic_to_service, [c \in page |-> service]),
             value_to_characteristic' =
                With(value_to_characteristic,
                     [v \in {Char_Db[c].value : c \in page} |->
                         CHOOSE c \in page : Char_Db[c].value = v]),
             \/ Finish
             \/ /\ ~ (Max(page) >= services[service].end)
                /\ AskMore(MakeRequest("characteristics", Following(Max(page)),
                                       services[service].end, "none"),
                           Entry(next_id, service)),
             UNCHANGED descriptor_to_characteristic
      PROVE  Agreed'
  <2> DEFINE last == Max(page)
  <2> DEFINE end == services[service].end
  <2>1. /\ head \in Out /\ head.end = Db[service].end /\ service <= head.start
        /\ \A c \in DOMAIN services[service].chars : c < head.start
        /\ \A r \in Out : r.op = "characteristics" /\ pending[r.id] = service => r = head
    BY <1>1, HeadIsOut DEF Typed, Agreed, Ahead, CharacteristicsAhead
  <2>2. /\ page \subseteq DOMAIN Char_Db /\ page \subseteq Handle
        /\ last \in page /\ Min(page) \in page
        /\ \A c \in page : head.start <= c /\ c <= head.end /\ c <= last
        /\ head.start \in Handle
    BY <1>1, PageOfMatches, HeadOfQueue, ServerHandles DEF Typed
  <2>3. /\ service \in DOMAIN Db /\ end = Db[service].end /\ end \in Handle /\ service \in Handle
        /\ ServicesTyped(services) /\ DOMAIN services[service].chars \subseteq Handle
    BY <1>1 DEF Typed, KnownTyped, ServicesTyped, CharsTyped, Agreed, OfServer
  <2>4. services' = SetChars(services, service, Extended(service, page))
    BY <1>3 DEF SetChars
  <2> HIDE DEF head, service, last, end
  <2>5. ASSUME NEW c \in page
        PROVE  c \in DOMAIN Db[service].chars /\ c \notin DOMAIN services[service].chars
    <3>1. /\ c \in DOMAIN Db[service].chars
          /\ \A d \in DOMAIN services[service].chars : d < c
      BY <1>1, <1>3, PageOfService DEF Answering, head, service
    <3>2. c \in Nat
      BY <2>2, Handles
    <3>3. QED
      BY <3>1, <3>2
  <2>6. /\ OfServer' /\ Mapped'
        /\ DOMAIN services' = DOMAIN services
        /\ DOMAIN services'[service].chars = DOMAIN services[service].chars \cup page
        /\ \A s \in DOMAIN services : s # service => services'[s].chars = services[s].chars
    BY <1>1, <1>3, <2>2, <2>4, <2>5, CharacteristicPageKnown DEF Typed, Agreed
  <2>7. \A r \in Out \ {head} : r.op = "characteristics" =>
           /\ pending[r.id] # service /\ pending[r.id] \in DOMAIN services
           /\ r.end = Db[pending[r.id]].end /\ pending[r.id] <= r.start
           /\ \A c \in DOMAIN services[pending[r.id]].chars : c < r.start
           /\ \A s \in Out : s.op = "characteristics" /\ pending[s.id] = pending[r.id] => s = r
    BY <1>1, <2>1 DEF Agreed, Ahead, CharacteristicsAhead
  <2>8. CASE Finish
    <3>1. /\ Out' = Out \ {head}
          /\ \A r \in Out' : r.op = "characteristics" => pending'[r.id] = pending[r.id]
      BY <1>1, <2>8, OutAfterFinish DEF Typed, Unremembered, head
    <3>2. CharacteristicsAhead'
      BY <2>6, <2>7, <3>1 DEF CharacteristicsAhead
    <3>3. ServicesAhead'
      BY <1>1, <2>6, <3>1 DEF ServicesAhead, Agreed, Ahead
    <3>4. QED
      BY <2>6, <3>2, <3>3 DEF Agreed, Ahead
  <2>9. CASE /\ ~ (last >= end)
             /\ AskMore(MakeRequest("characteristics", Following(last), end, "none"),
                        Entry(next_id, service))
    <3> DEFINE req == MakeRequest("characteristics", Following(last), end, "none")
    <3>1. /\ Out' = (Out \ {head}) \cup {req}
          /\ \A r \in Out \ {head} : r.op \notin Unremembered => pending'[r.id] = pending[r.id]
          /\ pending'[next_id] = Entry(next_id, service)[next_id]
      <4>1. "characteristics" \in Operation /\ "none" \in RequestValue
            /\ "characteristics" \notin Unremembered
        BY DEF Operation, RequestValue, Unremembered
      <4>2. Following(last) \in Handle
        BY <2>2, Handles
      <4>3. EntryFor("characteristics", Entry(next_id, service))
        BY <2>3, EntriesFor
      <4>4. QED
        BY <1>1, <2>3, <2>9, <4>1, <4>2, <4>3, OutAfterAskMore DEF Typed, head
    <3>2. /\ req.id = next_id /\ req.op = "characteristics" /\ req.start = Following(last)
          /\ req.end = end
      BY DEF MakeRequest
    <3> HIDE DEF req
    <3>3. pending'[req.id] = service
      BY <3>1, <3>2, OneEntry
    <3>4. \A r \in Out \ {head} : r.op = "characteristics" => pending'[r.id] = pending[r.id]
      BY <3>1 DEF Unremembered
    <3>5. req.start = last + 1
      <4>1. last \in Nat /\ end \in 0..MaxHandle /\ MaxHandle \in Nat /\ last < end
        BY <2>2, <2>3, <2>9, Handles DEF Handle
      <4>2. QED
        BY <3>2, <4>1 DEF Following
    <3>6. service <= req.start /\ \A c \in DOMAIN services'[service].chars : c < req.start
      <4>1. /\ service \in Nat /\ head.start \in Nat /\ last \in Nat
            /\ service <= head.start /\ head.start <= last
        BY <2>1, <2>2, <2>3, Handles
      <4>2. ASSUME NEW c \in DOMAIN services[service].chars PROVE c < req.start
        <5>1. c < head.start /\ c \in Nat
          BY <2>1, <2>3, Handles
        <5>2. QED
          BY <3>5, <4>1, <5>1
      <4>3. ASSUME NEW c \in page PROVE c < req.start
        <5>1. c <= last /\ c \in Nat
          BY <2>2, Handles
        <5>2. QED
          BY <3>5, <4>1, <5>1
      <4>4. service <= req.start
        BY <3>5, <4>1
      <4>5. QED
        BY <2>6, <4>2, <4>3, <4>4
    <3>7. ASSUME NEW r \in Out', r.op = "characteristics"
          PROVE  /\ pending'[r.id] \in DOMAIN services'
                 /\ r.end = Db[pending'[r.id]].end
                 /\ pending'[r.id] <= r.start
                 /\ \A c \in DOMAIN services'[pending'[r.id]].chars : c < r.start
                 /\ \A s \in Out' : s.op = "characteristics" /\ pending'[s.id] = pending'[r.id]
                                    => s = r
      <4>1. CASE r = req
        BY <1>1, <2>3, <2>6, <2>7, <3>1, <3>2, <3>3, <3>4, <3>6, <4>1
      <4>2. CASE r # req
        <5>1. r \in Out \ {head} /\ pending'[r.id] = pending[r.id] /\ pending[r.id] # service
          BY <2>7, <3>1, <3>4, <3>7, <4>2
        <5>2. ASSUME NEW s \in Out', s.op = "characteristics", pending'[s.id] = pending'[r.id]
              PROVE  s = r
          <6>1. s # req
            BY <3>3, <5>1, <5>2
          <6>2. s \in Out \ {head} /\ pending'[s.id] = pending[s.id]
            BY <3>1, <3>4, <5>2, <6>1
          <6>3. QED
            BY <2>7, <3>7, <5>1, <5>2, <6>2
        <5>3. QED
          BY <2>6, <2>7, <3>7, <5>1, <5>2
      <4>3. QED
        BY <4>1, <4>2
    <3>8. CharacteristicsAhead'
      BY <3>7 DEF CharacteristicsAhead
    <3>9. ServicesAhead'
      BY <1>1, <2>6, <3>1, <3>2 DEF ServicesAhead, Agreed, Ahead
    <3>10. QED
      BY <2>6, <3>8, <3>9 DEF Agreed, Ahead
  <2>10. QED
    BY <1>3, <2>8, <2>9 DEF last, end
<1>4. QED
  BY <1>2, <1>3 DEF HandleCharacteristic, Discovered

LEMMA OutAfterFinishDescriptors ==
    ASSUME Typed, requests # <<>>,
           NEW char, NEW descs \in SUBSET Handle, NEW mapped,
           FinishDescriptors(char, descs, mapped)
    PROVE  \/ Finish
           \/ /\ Out' \subseteq (Out \ {Head(requests)}) \cup {r \in Out' : r.op = "write"}
              /\ \A r \in Out \ {Head(requests)} :
                    r.op \notin Unremembered => pending'[r.id] = pending[r.id]
<1> DEFINE S == descs \cap Cccd \cap mapped
<1> DEFINE value == Configuration(pending_set_notify[char])
<1>1. ASSUME char \in DOMAIN pending_set_notify, NEW order \in Ascending(S),
             AskMoreAll(Writes(order, value), EmptyMap)
      PROVE  /\ Out' \subseteq (Out \ {Head(requests)}) \cup {r \in Out' : r.op = "write"}
             /\ \A r \in Out \ {Head(requests)} :
                   r.op \notin Unremembered => pending'[r.id] = pending[r.id]
  <2>1. S \in SUBSET Handle
    OBVIOUS
  <2>2. value \in RequestValue
    BY <1>1, ConfigurationValue DEF Typed, KnownTyped
  <2> HIDE DEF S, value
  <2> DEFINE reqs == Writes(order, value)
  <2>3. /\ reqs \in Seq(Request) /\ NumberedFrom(reqs, next_id)
        /\ DOMAIN EmptyMap = Entered(reqs)
        /\ \A i \in DOMAIN reqs : reqs[i].op = "write"
    BY <2>1, <2>2, WritesInOrder DEF Typed, Queued
  <2> HIDE DEF reqs
  <2>4. /\ Out' = (Out \ {Head(requests)}) \cup Range(reqs)
        /\ \A r \in Out \ {Head(requests)} :
              r.op \notin Unremembered => pending'[r.id] = pending[r.id]
    BY <1>1, <2>3, OutAfterAskMoreAll DEF Typed, reqs
  <2>5. \A r \in Range(reqs) : r.op = "write"
    BY <2>3 DEF Range
  <2>6. QED
    BY <2>4, <2>5
<1>2. QED
  BY <1>1, FinishDescriptorsCases

LEMMA FinishDescriptorsAhead ==
    ASSUME Typed, Agreed, connected, requests # <<>>, FindsNothing,
           NEW char, NEW descs \in SUBSET Handle, NEW mapped,
           FinishDescriptors(char, descs, mapped)
    PROVE  Ahead'
<1>1. CASE Finish
  BY <1>1, FinishStaysAhead DEF Typed, Agreed
<1>2. CASE /\ Out' \subseteq (Out \ {Head(requests)}) \cup {r \in Out' : r.op = "write"}
           /\ \A r \in Out \ {Head(requests)} :
                 r.op \notin Unremembered => pending'[r.id] = pending[r.id]
  <2>1. \A r \in Out' : r.op \in Discoveries => r \in Out \ {Head(requests)}
    BY <1>2 DEF Discoveries
  <2>2. \A r \in Out' : r.op = "characteristics" => pending'[r.id] = pending[r.id]
    BY <1>2, <2>1 DEF Discoveries, Unremembered
  <2>3. QED
    BY <2>1, <2>2, StaysAhead DEF Agreed
<1>3. QED
  BY <1>1, <1>2, OutAfterFinishDescriptors

LEMMA DescriptorPageAgreed ==
    ASSUME Typed, Agreed, connected, requests # <<>>, connected' = connected,
           NEW char, Known(char), Held(char), NEW page \in SUBSET Handle,
           HandleDescriptorPage(char, page),
           UNCHANGED <<characteristic_to_service, value_to_characteristic>>
    PROVE  Agreed'
<1> DEFINE new == page \ {Char(char).value}
<1> DEFINE last == IF new = {} THEN 0 ELSE Max(new)
<1> DEFINE descs == Char(char).descs \cup new
<1>1. /\ char \in Handle /\ ServiceOf(char) \in DOMAIN services
      /\ Char(char).end \in Handle /\ Char(char).descs \subseteq Handle /\ ServicesTyped(services)
  BY HeldCharacteristic DEF Typed, KnownTyped
<1>2. /\ new \in SUBSET Handle /\ descs \in SUBSET Handle
      /\ new \subseteq descs /\ Char(char).descs \subseteq descs
  BY <1>1
<1>3. last \in Handle
  BY <1>2, HandlesHaveMax, Handles
<1> DEFINE mapped == DOMAIN With(descriptor_to_characteristic, [d \in new |-> char])
<1>4. /\ services' = [services EXCEPT ![ServiceOf(char)].chars[char].descs = descs]
      /\ descriptor_to_characteristic' = With(descriptor_to_characteristic, [d \in new |-> char])
      /\ \/ FinishDescriptors(char, descs, mapped)
         \/ AskMore(MakeRequest("descriptors", Following(last), Char(char).end, "none"),
                    Entry(next_id, char))
  BY DEF HandleDescriptorPage
<1> HIDE DEF new, last, descs, mapped
<1>5. services' = SetDescs(services, ServiceOf(char), char, descs)
  BY <1>1, <1>4, SetByPath
<1>6. ASSUME NEW d \in DOMAIN descriptor_to_characteristic'
      PROVE  \/ descriptor_to_characteristic'[d] = char /\ d \in descs
             \/ /\ d \in DOMAIN descriptor_to_characteristic
                /\ descriptor_to_characteristic'[d] = descriptor_to_characteristic[d]
                /\ descriptor_to_characteristic[d] # char
  <2>1. CASE d \in new
    BY <1>2, <1>4, <2>1 DEF With
  <2>2. CASE d \notin new
    <3>1. /\ d \in DOMAIN descriptor_to_characteristic
          /\ descriptor_to_characteristic'[d] = descriptor_to_characteristic[d]
      BY <1>4, <2>2 DEF With
    <3>2. d \in Char(descriptor_to_characteristic[d]).descs
      BY <3>1 DEF Agreed, Mapped
    <3>3. QED
      BY <1>2, <3>1, <3>2
  <2>3. QED
    BY <2>1, <2>2
<1>7. OfServer' /\ Mapped' /\ FindsNothing
  BY <1>1, <1>2, <1>5, <1>6, AgreementOfDescriptors DEF Agreed
<1>8. Ahead'
  <2>1. CASE FinishDescriptors(char, descs, mapped)
    BY <1>2, <1>7, <2>1, FinishDescriptorsAhead
  <2>2. CASE AskMore(MakeRequest("descriptors", Following(last), Char(char).end, "none"),
                     Entry(next_id, char))
    <3>1. "descriptors" \in Operation \ Discoveries /\ "none" \in RequestValue
      BY DEF Operation, RequestValue, Discoveries
    <3>2. Following(last) \in Handle
      BY <1>3, Handles
    <3>3. EntryFor("descriptors", Entry(next_id, char))
      BY <1>1, EntriesFor
    <3>4. QED
      BY <1>1, <1>7, <2>2, <3>1, <3>2, <3>3, AskMoreStaysAhead DEF Typed, Agreed
  <2>3. QED
    BY <1>4, <2>1, <2>2
<1>9. QED
  BY <1>7, <1>8 DEF Agreed

LEMMA DescriptorsAgreed == ASSUME Typed, Agreed, HandleDescriptors PROVE Agreed'
<1> DEFINE char == pending[Head(requests).id]
<1>1. /\ connected /\ requests # <<>> /\ connected' = connected
      /\ UNCHANGED <<complete_services, service_uuids, characteristic_to_service,
                     value_to_characteristic, announced>>
  BY DEF HandleDescriptors, Answering
<1>2. CASE Finish /\ UNCHANGED <<services, descriptor_to_characteristic, bare>>
  BY <1>1, <1>2, FinishAgreed DEF known, maps
<1>3. CASE /\ Known(char) /\ Held(char)
           /\ FinishDescriptors(char, Char(char).descs, DOMAIN descriptor_to_characteristic)
           /\ UNCHANGED <<services, descriptor_to_characteristic, bare>>
  <2>1. Char(char).descs \in SUBSET Handle
    BY <1>3, HeldCharacteristic DEF Typed
  <2> HIDE DEF char
  <2>2. OfServer' /\ Mapped' /\ FindsNothing
    BY <1>1, <1>3, AgreementUnchanged DEF Agreed, known, maps
  <2>3. Ahead'
    BY <1>1, <1>3, <2>1, <2>2, FinishDescriptorsAhead
  <2>4. QED
    BY <2>2, <2>3 DEF Agreed
<1>4. ASSUME Known(char), Held(char),
             NEW page \in Pages(Matches(Head(requests), Attributes)),
             HandleDescriptorPage(char, page)
      PROVE  Agreed'
  <2>1. page \in SUBSET Handle
    BY <1>1, PageOfMatches, HeadOfQueue, ServerHandles DEF Typed
  <2> HIDE DEF char
  <2>2. QED
    BY <1>1, <1>4, <2>1, DescriptorPageAgreed
<1>5. QED
  BY <1>2, <1>3, <1>4 DEF HandleDescriptors

LEMMA AnswersAgreed == ASSUME Typed, Agreed, Answer PROVE Agreed'
<1>0. CASE HandleMtu
  BY <1>0, FinishAgreed DEF HandleMtu, Answering
<1>1. CASE HandlePrimaryForService
  BY <1>1, FinishAgreed DEF HandlePrimaryForService, Answering
<1>2. CASE HandleCharacteristicRead
  BY <1>2, FinishAgreed DEF HandleCharacteristicRead, Answering
<1>3. CASE HandleDescriptorRead
  BY <1>3, FinishAgreed DEF HandleDescriptorRead, Answering
<1>4. CASE HandleWrite
  BY <1>4, FinishAgreed DEF HandleWrite, Answering
<1>5. QED
  BY <1>0, <1>1, <1>2, <1>3, <1>4, NotMadeAgreed, PrimaryAgreed, CharacteristicAgreed,
     DescriptorsAgreed DEF Answer

LEMMA StutterAgreed == ASSUME Agreed, UNCHANGED vars PROVE Agreed'
<1>1. OfServer' /\ Mapped'
  BY AgreementUnchanged DEF Agreed, vars
<1>2. Out' = Out /\ pending' = pending /\ services' = services
  BY DEF vars, known, Out
<1>3. Ahead'
  BY <1>2 DEF Agreed, Ahead, ServicesAhead, CharacteristicsAhead
<1>4. QED
  BY <1>1, <1>3 DEF Agreed

LEMMA InitAgreed == ASSUME Init PROVE Agreed
<1>1. /\ DOMAIN services = {} /\ DOMAIN characteristic_to_service = {}
      /\ DOMAIN value_to_characteristic = {} /\ DOMAIN descriptor_to_characteristic = {}
  BY NoEntries DEF Init
<1>2. Out = {}
  BY EmptySeq DEF Init, Out, Range
<1>3. QED
  BY <1>1, <1>2 DEF Agreed, OfServer, Mapped, Ahead, ServicesAhead, CharacteristicsAhead

LEMMA AlwaysAgreed == Disciplined => (Spec => [](Typed /\ Agreed))
<1> SUFFICES ASSUME Disciplined PROVE Spec => [](Typed /\ Agreed)
  OBVIOUS
<1>1. Init => Typed /\ Agreed
  BY InitTyped, InitAgreed
<1>2. Typed /\ Agreed /\ [Next]_vars => (Typed /\ Agreed)'
  BY AppTyped, AnswersTyped, StutterTyped, AppAgreed, AnswersAgreed, StutterAgreed DEF Next
<1>3. QED
  BY <1>1, <1>2, PTL DEF Spec

-----------------------------------------------------------------------------
(***************************************************************************)
(* No Q_ASSERT of gatoperipheral.cpp fails when the application waits for  *)
(* discoveries that interfere with the one it asks for: what is mapped is  *)
(* held by its service (288, 316, 344, 369, 405, 429, 770-774, 833-837,    *)
(* 864-868), with that descriptor (871), and the service of a discovery    *)
(* is there when its answer arrives (704).                                 *)
(* The hypothesis is needed: run PeripheralOverlap breaks this without.   *)
(***************************************************************************)
THEOREM NoAssertionFails == Disciplined => (Spec => []AssertionsHold)
<1> SUFFICES ASSUME Disciplined PROVE Spec => []AssertionsHold
  OBVIOUS
<1>1. Typed /\ Agreed => AssertionsHold
  <2> SUFFICES ASSUME Typed, Agreed PROVE AssertionsHold
    OBVIOUS
  <2>1. ASSUME Answering("characteristics"), Made
        PROVE  pending[Head(requests).id] \in DOMAIN services
    <3>1. Head(requests) \in Out /\ Head(requests).op = "characteristics"
      BY <2>1, HeadIsOut DEF Typed, Answering
    <3>2. QED
      BY <3>1 DEF Agreed, Ahead, CharacteristicsAhead
  <2>2. QED
    BY <2>1 DEF AssertionsHold, Agreed, Mapped
<1>2. QED
  BY <1>1, AlwaysAgreed, PTL

(***************************************************************************)
(* handleAttAttributeUpdated() (gatoperipheral.cpp:604-621) finds the      *)
(* characteristic of every value that is mapped, and it is the one with    *)
(* that value, whatever has been discovered again or forgotten.            *)
(***************************************************************************)
THEOREM NotificationsFindTheirCharacteristic == Disciplined => (Spec => []NotificationsAreKnown)
<1> SUFFICES ASSUME Disciplined PROVE Spec => []NotificationsAreKnown
  OBVIOUS
<1>1. Typed /\ Agreed => NotificationsAreKnown
  BY DEF Agreed, Mapped, NotificationsAreKnown, Known
<1>2. QED
  BY <1>1, AlwaysAgreed, PTL

-----------------------------------------------------------------------------
(***************************************************************************)
(* What is announced.  Only the two handlers of service discoveries say    *)
(* that services have been discovered.                                     *)
(***************************************************************************)
OfServices(s) == s[1] = "servicesDiscovered"

LEMMA QuietIsNoAnnouncement == ~ OfServices(Quiet)
BY DEF OfServices, Quiet

LEMMA CallsAreQuiet == ASSUME App PROVE signal' = Quiet
<1>1. CASE \E service \in DOMAIN services : DiscoverCharacteristics(service)
  BY <1>1 DEF DiscoverCharacteristics, Calling
<1>2. CASE \E n \in 1..MaxFilter : \E uuids \in [1..n -> {NullUuid, SomeUuid}] :
              DiscoverServicesByUuid(uuids)
  BY <1>2, Zenon DEF DiscoverServicesByUuid, Calling
<1>3. CASE \E char \in DOMAIN characteristic_to_service :
              \/ DiscoverDescriptors(char)
              \/ ReadCharacteristic(char)
              \/ WriteCharacteristic(char)
              \/ \E enabled \in BOOLEAN : SetNotification(char, enabled)
  BY <1>3 DEF DiscoverDescriptors, ReadCharacteristic, WriteCharacteristic, SetNotification,
              Calling
<1>4. CASE \E desc \in DOMAIN descriptor_to_characteristic :
              ReadDescriptor(desc) \/ WriteDescriptor(desc)
  BY <1>4 DEF ReadDescriptor, WriteDescriptor, Calling
<1>5. CASE DiscoverServices
  BY <1>5 DEF DiscoverServices, Calling
<1>6. CASE Connect \/ Disconnect
  BY <1>6 DEF Connect, Disconnect
<1>7. QED
  BY <1>1, <1>2, <1>3, <1>4, <1>5, <1>6 DEF App

LEMMA OthersAnnounceNoServices ==
    ASSUME Answer
    PROVE  HandlePrimary \/ HandlePrimaryForService \/ ~ OfServices(signal')
<1>1. CASE HandleCharacteristic
  <2>1. \/ signal' = Quiet
        \/ signal' = <<"characteristicsDiscovered", pending[Head(requests).id]>>
    BY <1>1, Zenon DEF HandleCharacteristic, Discovered
  <2>2. QED
    BY <2>1, QuietIsNoAnnouncement DEF OfServices
<1>2. CASE HandleDescriptors
  <2>1. \/ signal' = Quiet
        \/ signal' = <<"descriptorsDiscovered", pending[Head(requests).id]>>
        \/ signal' = <<"unknownCharacteristic", pending[Head(requests).id]>>
    BY <1>2, Zenon DEF HandleDescriptors, HandleDescriptorPage, FinishDescriptors
  <2>2. QED
    BY <2>1, QuietIsNoAnnouncement DEF OfServices
<1>3. CASE HandleCharacteristicRead
  BY <1>3 DEF HandleCharacteristicRead, OfServices
<1>4. CASE HandleDescriptorRead
  BY <1>4 DEF HandleDescriptorRead, OfServices
<1>5. CASE HandleWrite \/ HandleMtu \/ HandleNotMade
  BY <1>5, QuietIsNoAnnouncement DEF HandleWrite, HandleMtu, HandleNotMade
<1>6. QED
  BY <1>1, <1>2, <1>3, <1>4, <1>5 DEF Answer

(***************************************************************************)
(* handlePrimaryForService() announces when pending_primary_reqs is empty, *)
(* which is when no request of a discovery by UUID is left in the queue    *)
(* that was made on this link.                                             *)
(***************************************************************************)
LEMMA LastOfFiltered ==
    ASSUME Typed, Typed', HandlePrimaryForService, Remaining = {}
    PROVE  ~ FilteredDiscoveryPending'
<1>1. SUFFICES ASSUME NEW i \in DOMAIN requests', requests'[i].op = "primaryByUuid",
                      \A j \in DOMAIN requests' : i < j => requests'[j].op # "mtu"
               PROVE  Remaining # {}
  BY DEF FilteredDiscoveryPending, OfThisLink
<1>2. /\ connected' /\ requests # <<>> /\ requests' = Tail(requests)
      /\ DOMAIN pending' \subseteq DOMAIN pending
  BY DEF HandlePrimaryForService, Answering, Finish, Without, Restrict
<1>3. Current(requests') \subseteq DOMAIN pending'
  BY <1>2 DEF Typed, Queued, Current
<1>4. requests'[i].id \in DOMAIN pending'
  BY <1>1, <1>3 DEF Current, Unremembered
<1>5. i + 1 \in DOMAIN requests /\ requests'[i] = requests[i + 1]
  BY <1>1, <1>2, LenProperties, EmptySeq, HeadTailProperties DEF Typed, Queued
<1>6. i + 1 \in Ongoing("primaryByUuid")
  BY <1>1, <1>2, <1>4, <1>5 DEF Ongoing
<1>7. requests[i + 1].id \in Remaining
  BY <1>4, <1>5, <1>6 DEF Remaining
<1>8. QED
  BY <1>7

LEMMA FilteredStep ==
    ASSUME Typed, Typed', AnnouncedAfterLast, [Next]_vars
    PROVE  AnnouncedAfterLast'
<1>1. SUFFICES ASSUME signal' = <<"servicesDiscovered", SomeFound>>
               PROVE  ~ FilteredDiscoveryPending'
  BY DEF AnnouncedAfterLast
<1>2. OfServices(signal') /\ signal' # <<"servicesDiscovered", AllFound>> /\ signal' # Quiet
  BY <1>1 DEF OfServices, SomeFound, AllFound, Quiet
<1>3. CASE App
  BY <1>2, <1>3, CallsAreQuiet
<1>4. CASE HandlePrimary
  BY <1>2, <1>4, Zenon DEF HandlePrimary
<1>5. CASE HandlePrimaryForService
  BY <1>2, <1>5, LastOfFiltered DEF HandlePrimaryForService
<1>6. CASE UNCHANGED vars
  BY <1>1, <1>6 DEF vars, AnnouncedAfterLast, FilteredDiscoveryPending, OfThisLink
<1>7. QED
  BY <1>2, <1>3, <1>4, <1>5, <1>6, OthersAnnounceNoServices DEF Next

(***************************************************************************)
(* A discovery by UUID, several conversations with a single signal, is     *)
(* announced only after the last answer (gatoperipheral.cpp:663-666), also *)
(* of those asked for meanwhile, for any application and wherever a write  *)
(* fails; those left over from links before do not count, their entries    *)
(* are gone.                                                               *)
(***************************************************************************)
THEOREM FilteredIsAnnouncedLast == Spec => []AnnouncedAfterLast
<1>1. Init => AnnouncedAfterLast
  BY DEF Init, AnnouncedAfterLast, Quiet
<1>2. Typed /\ Typed' /\ AnnouncedAfterLast /\ [Next]_vars => AnnouncedAfterLast'
  BY FilteredStep
<1>3. QED
  BY <1>1, <1>2, AlwaysTyped, PTL DEF Spec

-----------------------------------------------------------------------------
(***************************************************************************)
(* A discovery of all services asks for everything beyond what it has      *)
(* found, and skips nothing: a request from handle 0, after a service that *)
(* ends with the last handle, finds nothing because nothing is left.       *)
(***************************************************************************)
Covered ==
    \A r \in Out : r.op = "primary" =>
        /\ r.end = MaxHandle
        /\ \A sv \in DOMAIN Db : r.start = 0 \/ sv < r.start => sv \in DOMAIN services

\* No request of this kind is made, and those that are out keep their entry.
Keeps(op) ==
    \A r \in Out' : r.op = op =>
        /\ r \in Out
        /\ op \notin Unremembered => pending'[r.id] = pending[r.id]

LEMMA StaysCovered ==
    ASSUME Covered, Keeps("primary"), DOMAIN services \subseteq DOMAIN services'
    PROVE  Covered'
BY DEF Covered, Keeps

LEMMA AskAllKeeps ==
    ASSUME Queued, NEW reqs \in Seq(Request), NumberedFrom(reqs, next_id),
           NEW entries, DOMAIN entries = Entered(reqs), AskAll(reqs, entries),
           NEW op, \A i \in DOMAIN reqs : reqs[i].op # op
    PROVE  Keeps(op)
<1>1. /\ Out' = Out \cup Range(reqs)
      /\ \A r \in Out : r.op \notin Unremembered => pending'[r.id] = pending[r.id]
  BY OutAfterAskAll
<1>2. \A r \in Out' : r.op = op => r \in Out
  BY <1>1 DEF Range
<1>3. QED
  BY <1>1, <1>2 DEF Keeps

\* The queue with another request at its end.
LEMMA RangeOfAppended ==
    ASSUME NEW q \in Seq(Request), NEW req
    PROVE  \A r \in Range(q \o <<req>>) : r \in Range(q) \/ r = req
<1> DEFINE t == q \o <<req>>
<1>1. /\ Len(q) \in Nat /\ DOMAIN q = 1..Len(q) /\ DOMAIN t = 1..(Len(q) + 1)
      /\ \A i \in 1..Len(q) : t[i] = q[i]
      /\ t[Len(q) + 1] = req
  BY LenProperties
<1> HIDE DEF t
<1>2. \A i \in DOMAIN t : i \in DOMAIN q \/ i = Len(q) + 1
  BY <1>1
<1>3. \A r \in Range(t) : r \in Range(q) \/ r = req
  BY <1>1, <1>2 DEF Range
<1>4. QED
  BY <1>3 DEF t

LEMMA AskKeeps ==
    ASSUME Queued, NEW op, NEW other, other # op, NEW start, NEW end, NEW value,
           NEW entry, DOMAIN entry \subseteq {next_id},
           Ask(MakeRequest(other, start, end, value), entry)
    PROVE  Keeps(op)
<1> DEFINE req == MakeRequest(other, start, end, value)
<1>1. req.op # op
  BY DEF MakeRequest
<1> HIDE DEF req
<1>2. /\ requests' = requests \o <<req>>
      /\ pending' = With(pending, entry) \/ pending' = entry
  BY DEF Ask, AskAll, req
<1>3. ASSUME NEW r \in Range(requests'), r.op = op PROVE r \in Range(requests)
  <2>1. r \in Range(requests) \/ r = req
    BY <1>2, RangeOfAppended DEF Queued
  <2>2. QED
    BY <1>1, <1>3, <2>1
<1>4. ASSUME NEW r \in Range(requests), r.id \in DOMAIN pending'
      PROVE  r.id \in DOMAIN pending /\ pending'[r.id] = pending[r.id]
  <2>1. r.id # next_id
    BY <1>4, OutIsTyped DEF Queued
  <2>2. QED
    BY <1>2, <1>4, <2>1 DEF With
<1>5. QED
  BY <1>3, <1>4 DEF Keeps, Out

LEMMA FinishKeeps ==
    ASSUME Queued, requests # <<>>, Finish, NEW op
    PROVE  Keeps(op)
BY OutAfterFinish DEF Keeps

LEMMA AskMoreKeeps ==
    ASSUME Queued, requests # <<>>, NEW op, NEW other, other # op,
           NEW start, NEW end, NEW value, NEW entry, DOMAIN entry \subseteq {next_id},
           AskMore(MakeRequest(other, start, end, value), entry)
    PROVE  Keeps(op)
<1> DEFINE req == MakeRequest(other, start, end, value)
<1> DEFINE t == Tail(requests)
<1> DEFINE rest == Without(pending, {Head(requests).id})
<1>1. req.op # op
  BY DEF MakeRequest
<1>2. /\ t \in Seq(Request) /\ Range(t) = Range(requests) \ {Head(requests)}
  BY NumberedTail, RangeOfTail DEF Queued
<1>3. requests' = t \o <<req>> /\ pending' = With(rest, entry)
  BY DEF AskMore, AskMoreAll
<1>4. DOMAIN rest \subseteq DOMAIN pending /\ \A id \in DOMAIN rest : rest[id] = pending[id]
  BY DEF Without, Restrict
<1> HIDE DEF req, t, rest
<1>5. ASSUME NEW r \in Range(requests'), r.op = op PROVE r \in Range(requests)
  <2>1. r \in Range(t) \/ r = req
    BY <1>2, <1>3, RangeOfAppended
  <2>2. QED
    BY <1>1, <1>2, <1>5, <2>1
<1>6. ASSUME NEW r \in Range(requests), r.id \in DOMAIN pending'
      PROVE  r.id \in DOMAIN pending /\ pending'[r.id] = pending[r.id]
  <2>1. r.id # next_id
    BY <1>6, OutIsTyped DEF Queued
  <2>2. r.id \in DOMAIN rest /\ pending'[r.id] = rest[r.id]
    BY <1>3, <1>6, <2>1 DEF With
  <2>3. QED
    BY <1>4, <2>2
<1>7. QED
  BY <1>5, <1>6 DEF Keeps, Out

LEMMA NotMadeKeeps ==
    ASSUME Queued, HandleNotMade, NEW op
    PROVE  Keeps(op)
BY OutAfterNotMade DEF Keeps

LEMMA LinkKeeps ==
    ASSUME Queued, Connect \/ Disconnect, NEW op, op # "mtu"
    PROVE  Keeps(op) /\ services' = services
<1>1. CASE Connect
  <2>1. /\ Out' = Out \cup {MakeRequest("mtu", 0, 0, "none")}
        /\ pending' = pending /\ services' = services
    BY <1>1, OutAfterConnect DEF Connect, known
  <2>2. MakeRequest("mtu", 0, 0, "none").op = "mtu"
    BY DEF MakeRequest
  <2>3. QED
    BY <2>1, <2>2 DEF Keeps
<1>2. CASE Disconnect
  <2>1. services' = services
    BY <1>2 DEF Disconnect, known
  <2>2. Out' = {r \in Out : r.op \in Unremembered}
    BY <1>2, OutAfterDisconnect
  <2>3. QED
    BY <2>1, <2>2 DEF Keeps
<1>3. QED
  BY <1>1, <1>2

\* The entries of single requests.
LEMMA EntryOrNone ==
    /\ DOMAIN EmptyMap \subseteq {next_id}
    /\ \A handle : DOMAIN Entry(next_id, handle) \subseteq {next_id}
BY NoEntries, OneEntry

LEMMA FindDescriptorsCovers ==
    ASSUME Queued, connected, NEW char, FindDescriptors(char), NEW op \in Discoveries
    PROVE  Keeps(op) /\ DOMAIN services \subseteq DOMAIN services'
<1>1. DOMAIN services' = DOMAIN services
  BY DEF FindDescriptors
<1>2. Ask(MakeRequest("descriptors", Following(char), Char(char).end, "none"),
          Entry(next_id, char))
  BY DEF FindDescriptors
<1>3. QED
  BY <1>1, <1>2, AskKeeps, EntryOrNone DEF Discoveries

LEMMA CharacteristicCallsCover ==
    ASSUME Queued, NEW char, NEW enabled \in BOOLEAN, NEW op \in Discoveries,
           \/ DiscoverDescriptors(char)
           \/ ReadCharacteristic(char)
           \/ WriteCharacteristic(char)
           \/ SetNotification(char, enabled)
    PROVE  connected /\ Keeps(op) /\ DOMAIN services \subseteq DOMAIN services'
<1>1. CASE DiscoverDescriptors(char)
  BY <1>1, FindDescriptorsCovers DEF DiscoverDescriptors, Calling
<1>2. CASE ReadCharacteristic(char)
  <2>1. /\ connected /\ UNCHANGED services
        /\ Ask(MakeRequest("readCharacteristic", Char(char).value, 0, "none"),
               Entry(next_id, char))
    BY <1>2 DEF ReadCharacteristic, Calling, known
  <2>2. QED
    BY <2>1, AskKeeps, EntryOrNone DEF Discoveries
<1>3. CASE WriteCharacteristic(char)
  <2>1. /\ connected /\ UNCHANGED services
        /\ Ask(MakeRequest("write", Char(char).value, 0, "data"), EmptyMap)
    BY <1>3 DEF WriteCharacteristic, Calling, known
  <2>2. QED
    BY <2>1, AskKeeps, EntryOrNone DEF Discoveries
<1>4. CASE SetNotification(char, enabled) /\ ~ FindDescriptors(char)
  <2>1. /\ connected /\ UNCHANGED services
        /\ Ask(MakeRequest("write", Char(char).value, 0, Configuration(TRUE)), EmptyMap)
    BY <1>4 DEF SetNotification, Calling, known
  <2>2. QED
    BY <2>1, AskKeeps, EntryOrNone DEF Discoveries
<1>5. CASE SetNotification(char, enabled) /\ FindDescriptors(char)
  BY <1>5, FindDescriptorsCovers DEF SetNotification, Calling
<1>6. QED
  BY <1>1, <1>2, <1>3, <1>4, <1>5

LEMMA DescriptorCallsCover ==
    ASSUME Queued, NEW desc, ReadDescriptor(desc) \/ WriteDescriptor(desc),
           NEW op \in Discoveries
    PROVE  connected /\ Keeps(op) /\ DOMAIN services \subseteq DOMAIN services'
<1>1. CASE ReadDescriptor(desc)
  <2>1. /\ connected /\ UNCHANGED services
        /\ Ask(MakeRequest("readDescriptor", desc, 0, "none"),
               Entry(next_id, descriptor_to_characteristic[desc]))
    BY <1>1 DEF ReadDescriptor, Calling, known
  <2>2. QED
    BY <2>1, AskKeeps, EntryOrNone DEF Discoveries
<1>2. CASE WriteDescriptor(desc)
  <2>1. /\ connected /\ UNCHANGED services
        /\ Ask(MakeRequest("write", desc, 0, "data"), EmptyMap)
    BY <1>2 DEF WriteDescriptor, Calling, known
  <2>2. QED
    BY <2>1, AskKeeps, EntryOrNone DEF Discoveries
<1>3. QED
  BY <1>1, <1>2

LEMMA DiscoverServicesCovers ==
    ASSUME Disciplined, Typed, DiscoverServices
    PROVE  Covered'
<1>1. connected /\ ~ Busy("primary") /\ Ask(MakeRequest("primary", 1, MaxHandle, "none"), EmptyMap)
  BY DEF DiscoverServices, Calling
<1> DEFINE req == MakeRequest("primary", 1, MaxHandle, "none")
<1>2. Out' = Out \cup {req} /\ req.start = 1 /\ req.end = MaxHandle
  <2>1. "primary" \in Operation /\ "none" \in RequestValue
    BY DEF Operation, RequestValue
  <2>2. Out' = Out \cup {req}
    BY <1>1, <2>1, EntriesFor, Handles, OutAfterAsk DEF Typed
  <2>3. QED
    BY <2>2 DEF MakeRequest
<1> HIDE DEF req
<1>3. \A r \in Out' : r.op = "primary" => r = req
  BY <1>1, <1>2, BusyOut
<1>4. \A sv \in DOMAIN Db : ~ (sv < 1)
  BY DbAssumption, PeripheralAssumption
<1>5. QED
  BY <1>2, <1>3, <1>4 DEF Covered

LEMMA ByUuidKeeps ==
    ASSUME Queued, NEW n \in 1..MaxFilter, NEW uuids \in [1..n -> {NullUuid, SomeUuid}],
           DiscoverServicesByUuid(uuids), NEW op, op # "primaryByUuid"
    PROVE  Keeps(op)
<1>1. AskAll(UuidRequests(n), UuidEntries(n, uuids))
  BY ByUuidAsks
<1>2. /\ UuidRequests(n) \in Seq(Request)
      /\ \A i \in DOMAIN UuidRequests(n) : UuidRequests(n)[i].op = "primaryByUuid"
      /\ NumberedFrom(UuidRequests(n), next_id)
      /\ DOMAIN UuidEntries(n, uuids) = Entered(UuidRequests(n))
  BY UuidRequestsAreNumbered DEF Queued
<1>3. \A i \in DOMAIN UuidRequests(n) : UuidRequests(n)[i].op # op
  BY <1>2
<1>4. QED
  BY <1>1, <1>2, <1>3, AskAllKeeps

LEMMA AppCovers == ASSUME Disciplined, Typed, Covered, App PROVE Covered'
<1>1. CASE Connect \/ Disconnect
  BY <1>1, LinkKeeps, StaysCovered DEF Typed
<1>3. CASE DiscoverServices
  BY <1>3, DiscoverServicesCovers
<1>4. ASSUME NEW n \in 1..MaxFilter, NEW uuids \in [1..n -> {NullUuid, SomeUuid}],
             DiscoverServicesByUuid(uuids)
      PROVE  Covered'
  <2>2. UNCHANGED services
    BY <1>4, ByUuidAsks DEF known
  <2>4. Keeps("primary")
    BY <1>4, ByUuidKeeps DEF Typed
  <2>5. QED
    BY <2>2, <2>4, StaysCovered
<1>5. CASE \E service \in DOMAIN services : DiscoverCharacteristics(service)
  <2>1. PICK service \in DOMAIN services : DiscoverCharacteristics(service)
    BY <1>5
  <2>2. /\ connected /\ DOMAIN services' = DOMAIN services
        /\ Ask(MakeRequest("characteristics", service, services[service].end, "none"),
               Entry(next_id, service))
    BY <2>1 DEF DiscoverCharacteristics, Calling
  <2>3. Keeps("primary")
    BY <2>2, AskKeeps, EntryOrNone DEF Typed
  <2>4. QED
    BY <2>2, <2>3, StaysCovered
<1>6. CASE \E char \in DOMAIN characteristic_to_service :
              \/ DiscoverDescriptors(char)
              \/ ReadCharacteristic(char)
              \/ WriteCharacteristic(char)
              \/ \E enabled \in BOOLEAN : SetNotification(char, enabled)
  <2>1. connected /\ Keeps("primary") /\ DOMAIN services \subseteq DOMAIN services'
    BY <1>6, CharacteristicCallsCover DEF Typed, Discoveries
  <2>2. QED
    BY <2>1, StaysCovered
<1>7. CASE \E desc \in DOMAIN descriptor_to_characteristic :
              ReadDescriptor(desc) \/ WriteDescriptor(desc)
  <2>1. connected /\ Keeps("primary") /\ DOMAIN services \subseteq DOMAIN services'
    BY <1>7, DescriptorCallsCover DEF Typed, Discoveries
  <2>2. QED
    BY <2>1, StaysCovered
<1>8. QED
  BY <1>1, <1>3, <1>4, <1>5, <1>6, <1>7 DEF App

\* What matches and is not after the page is in it.
LEMMA PageIsPrefix ==
    ASSUME NEW matches \in SUBSET Handle, NEW page \in Pages(matches), NEW h \in matches,
           h <= Max(page)
    PROVE  h \in page
<1>1. PICK cut \in matches : page = {x \in matches : x <= cut}
  BY DEF Pages
<1>2. cut \in Nat /\ h \in Nat
  BY Handles
<1>3. page \subseteq matches /\ cut \in page
  <2>1. \A x \in page : x \in matches
    BY <1>1, Zenon
  <2>2. cut <= cut
    BY <1>2
  <2>3. cut \in page
    BY <1>1, <2>2, Zenon
  <2>4. QED
    BY <2>1, <2>3
<1>4. Max(page) \in page
  <2>1. page \in SUBSET Handle /\ page # {}
    BY <1>3, Zenon
  <2>2. QED
    BY <2>1, HandlesHaveMax
<1>5. Max(page) <= cut /\ Max(page) \in Nat
  BY <1>1, <1>3, <1>4, Handles
<1>6. QED
  BY <1>1, <1>2, <1>5

LEMMA FollowingTheLast ==
    ASSUME NEW h \in Handle, Following(h) = 0
    PROVE  h = MaxHandle
<1>1. MaxHandle \in Nat /\ h \in 0..MaxHandle
  BY PeripheralAssumption DEF Handle
<1>2. h # MaxHandle => (h + 1) % (MaxHandle + 1) = h + 1
  BY <1>1
<1>3. QED
  BY <1>1, <1>2 DEF Following

LEMMA PrimaryPageCovers ==
    ASSUME Typed, Agreed, Covered, Answering("primary"),
           NEW page \in Pages(Matches(Head(requests), DOMAIN Db)),
           services' = With(services, [sv \in page |-> [end |-> Db[sv].end, chars |-> EmptyMap]]),
           AskMore(MakeRequest("primary", Following(Db[Max(page)].end), MaxHandle, "none"),
                   EmptyMap)
    PROVE  Covered'
<1> DEFINE head == Head(requests)
<1> DEFINE last == Max(page)
<1> DEFINE req == MakeRequest("primary", Following(Db[last].end), MaxHandle, "none")
<1>1. connected /\ requests # <<>> /\ head.op = "primary" /\ head \in Out
  BY HeadIsOut DEF Answering, Typed, Unremembered
<1>2. /\ page \subseteq DOMAIN Db /\ last \in page /\ head.start # 0 /\ head.start \in Handle
      /\ head.end = MaxHandle
  BY <1>1, PageOfMatches, HeadOfQueue, ServerHandles DEF Typed, Covered
<1>3. Out' = (Out \ {head}) \cup {req}
  <2>1. "primary" \in Operation /\ "none" \in RequestValue /\ Following(Db[last].end) \in Handle
    BY <1>2, ServerHandles, Handles DEF Operation, RequestValue
  <2>2. QED
    BY <1>1, <2>1, EntriesFor, Handles, OutAfterAskMore DEF Typed
<1>4. req.start = Following(Db[last].end) /\ req.end = MaxHandle
  BY DEF MakeRequest
<1>5. DOMAIN services' = DOMAIN services \cup page
  BY DEF With
<1> HIDE DEF req, head, last
<1>6. \A r \in Out' : r.op = "primary" => r = req
  BY <1>1, <1>3 DEF Agreed, Ahead, ServicesAhead
<1>7. ASSUME NEW sv \in DOMAIN Db, req.start = 0 \/ sv < req.start
      PROVE  sv \in DOMAIN services'
  <2>1. /\ sv \in Nat /\ last \in Nat /\ Db[last].end \in Nat /\ Db[last].end \in Handle
        /\ head.start \in Nat /\ sv <= MaxHandle /\ MaxHandle \in Nat
    BY <1>2, ServerHandles, Handles DEF Handle
  <2>2. sv <= Db[last].end
    <3>1. CASE req.start = 0
      BY <1>4, <2>1, <3>1, FollowingTheLast
    <3>2. CASE req.start # 0
      <4>1. req.start = Db[last].end + 1
        BY <1>4, <2>1, <3>2, FollowingIsNext
      <4>2. QED
        BY <1>7, <2>1, <3>2, <4>1
    <3>3. QED
      BY <3>1, <3>2
  <2>3. sv <= last
    <3>1. last < sv => Db[last].end < sv
      BY <1>2, DbAssumption
    <3>2. QED
      BY <2>1, <2>2, <3>1
  <2>4. CASE sv < head.start
    BY <1>1, <1>5, <2>4 DEF Covered
  <2>5. CASE ~ (sv < head.start)
    <3>1. sv \in Matches(head, DOMAIN Db)
      BY <1>2, <2>1, <2>5 DEF Matches
    <3>2. Matches(head, DOMAIN Db) \in SUBSET Handle
      BY ServerHandles DEF Matches
    <3>3. sv \in page
      BY <2>3, <3>1, <3>2, PageIsPrefix DEF head, last
    <3>4. QED
      BY <1>5, <3>3
  <2>6. QED
    BY <2>4, <2>5
<1>8. QED
  BY <1>4, <1>6, <1>7 DEF Covered

LEMMA PrimaryCovers ==
    ASSUME Typed, Agreed, Covered, HandlePrimary
    PROVE  Covered' /\ (signal' = <<"servicesDiscovered", AllFound>> =>
                           DOMAIN services' = DOMAIN Db /\ services' = services)
<1>1. Answering("primary") /\ connected /\ requests # <<>>
  BY DEF HandlePrimary, Answering
<1>2. ASSUME Matches(Head(requests), DOMAIN Db) = {}, Finish, UNCHANGED services
      PROVE  Covered' /\ DOMAIN services' = DOMAIN Db
  <2>1. Covered'
    BY <1>1, <1>2, FinishKeeps, StaysCovered DEF Typed
  <2>2. Head(requests) \in Out /\ Head(requests).op = "primary"
    BY <1>1, HeadIsOut DEF Typed, Answering, Unremembered
  <2>3. ASSUME NEW sv \in DOMAIN Db PROVE sv \in DOMAIN services
    <3>1. sv \in Handle /\ Head(requests).start \in Handle
      BY <1>1, ServerHandles, HeadOfQueue DEF Typed
    <3>2. sv \in Nat /\ Head(requests).start \in Nat /\ sv <= MaxHandle
      BY <3>1, Handles DEF Handle
    <3>3. Head(requests).start = 0 \/ ~ (Head(requests).start <= sv)
      BY <1>1, <1>2, <2>2, <3>2 DEF Matches, Covered
    <3>4. Head(requests).start = 0 \/ sv < Head(requests).start
      BY <3>2, <3>3
    <3>5. QED
      BY <1>1, <2>2, <3>4 DEF Covered
  <2>4. DOMAIN services \subseteq DOMAIN Db
    BY DEF Agreed, OfServer
  <2>5. QED
    BY <1>2, <2>1, <2>3, <2>4
<1>3. CASE \E page \in Pages(Matches(Head(requests), DOMAIN Db)) :
              /\ services' = With(services, [sv \in page |-> [end |-> Db[sv].end, chars |-> EmptyMap]])
              /\ AskMore(MakeRequest("primary", Following(Db[Max(page)].end), MaxHandle, "none"),
                         EmptyMap)
              /\ signal' = Quiet
  <2>1. Covered'
    BY <1>1, <1>3, PrimaryPageCovers
  <2>2. QED
    BY <1>3, <2>1, QuietIsNoAnnouncement DEF OfServices
<1>4. QED
  BY <1>2, <1>3 DEF HandlePrimary

LEMMA DescriptorsCover ==
    ASSUME Typed, HandleDescriptors, NEW op \in Discoveries
    PROVE  /\ connected /\ connected' /\ Keeps(op)
           /\ DOMAIN services' = DOMAIN services
<1> DEFINE char == pending[Head(requests).id]
<1>1. connected /\ connected' /\ requests # <<>>
  BY DEF HandleDescriptors, Answering
<1>2. DOMAIN services' = DOMAIN services
  <2>1. \/ services' = services
        \/ \E descs : services' = [services EXCEPT ![ServiceOf(char)].chars[char].descs = descs]
    BY Zenon DEF HandleDescriptors, HandleDescriptorPage
  <2> HIDE DEF char
  <2>2. QED
    BY <2>1
<1>3. ASSUME NEW descs \in SUBSET Handle, NEW mapped, FinishDescriptors(char, descs, mapped)
      PROVE  Keeps(op)
  <2>1. CASE Finish
    BY <1>1, <2>1, FinishKeeps DEF Typed
  <2>2. CASE /\ Out' \subseteq (Out \ {Head(requests)}) \cup {r \in Out' : r.op = "write"}
             /\ \A r \in Out \ {Head(requests)} :
                   r.op \notin Unremembered => pending'[r.id] = pending[r.id]
    BY <2>2 DEF Keeps, Discoveries
  <2>3. QED
    BY <1>1, <1>3, <2>1, <2>2, OutAfterFinishDescriptors
<1>4. ASSUME Known(char), Held(char),
             NEW page \in Pages(Matches(Head(requests), Attributes)),
             HandleDescriptorPage(char, page)
      PROVE  Keeps(op)
  <2>1. page \in SUBSET Handle /\ Char(char).descs \in SUBSET Handle
    BY <1>1, <1>4, PageOfMatches, HeadOfQueue, ServerHandles, HeldCharacteristic DEF Typed
  <2> DEFINE descs == Char(char).descs \cup (page \ {Char(char).value})
  <2> DEFINE mapped == DOMAIN With(descriptor_to_characteristic,
                                   [d \in page \ {Char(char).value} |-> char])
  <2>2. \/ FinishDescriptors(char, descs, mapped)
        \/ \E start, end : AskMore(MakeRequest("descriptors", start, end, "none"),
                                   Entry(next_id, char))
    BY <1>4, Zenon DEF HandleDescriptorPage
  <2>3. descs \in SUBSET Handle
    BY <2>1
  <2> HIDE DEF descs, mapped, char
  <2>4. CASE FinishDescriptors(char, descs, mapped)
    BY <1>3, <2>3, <2>4
  <2>5. CASE \E start, end : AskMore(MakeRequest("descriptors", start, end, "none"),
                                     Entry(next_id, char))
    BY <1>1, <2>5, AskMoreKeeps, EntryOrNone DEF Typed, Discoveries
  <2>6. QED
    BY <2>2, <2>4, <2>5
<1>5. ASSUME Finish PROVE Keeps(op)
  <2>1. Queued /\ requests # <<>>
    BY <1>1 DEF Typed
  <2>2. QED
    BY <1>5, <2>1, FinishKeeps, Zenon
<1>6. ASSUME Known(char), Held(char) PROVE Char(char).descs \in SUBSET Handle
  BY <1>6, HeldCharacteristic DEF Typed
<1>7. Keeps(op)
  BY <1>3, <1>4, <1>5, <1>6, Zenon DEF HandleDescriptors
<1>8. QED
  BY <1>1, <1>2, <1>7

LEMMA CharacteristicCovers ==
    ASSUME Typed, Covered, HandleCharacteristic
    PROVE  Covered'
<1> DEFINE service == pending[Head(requests).id]
<1>1. connected /\ requests # <<>> /\ connected' = connected
  BY DEF HandleCharacteristic, Answering
<1>2. DOMAIN services' = DOMAIN services
  <2>1. \/ services' = services
        \/ \E page : services' = [services EXCEPT ![service].chars = Extended(service, page)]
    BY Zenon DEF HandleCharacteristic
  <2>2. QED
    BY <2>1
<1>3. \/ Finish
      \/ \E start, end : AskMore(MakeRequest("characteristics", start, end, "none"),
                                 Entry(next_id, service))
  BY Zenon DEF HandleCharacteristic, Discovered
<1>4. Keeps("primary")
  BY <1>1, <1>3, FinishKeeps, AskMoreKeeps, EntryOrNone DEF Typed
<1>5. QED
  BY <1>1, <1>2, <1>4, StaysCovered

LEMMA AnswersCover ==
    ASSUME Typed, Covered, Answer, ~ HandlePrimary
    PROVE  Covered'
<1>1. CASE \/ HandleMtu \/ HandlePrimaryForService
           \/ HandleCharacteristicRead \/ HandleDescriptorRead \/ HandleWrite
  <2>1. requests # <<>> /\ Finish /\ services' = services
    BY <1>1 DEF HandleMtu, HandlePrimaryForService, HandleCharacteristicRead,
                HandleDescriptorRead, HandleWrite, known, Answering
  <2>2. QED
    BY <2>1, FinishKeeps, StaysCovered DEF Typed
<1>2. CASE HandleDescriptors
  BY <1>2, DescriptorsCover, StaysCovered DEF Typed, Discoveries
<1>3. CASE HandleNotMade
  <2>1. services' = services
    BY <1>3, OutAfterNotMade DEF Typed, known
  <2>2. QED
    BY <1>3, <2>1, NotMadeKeeps, StaysCovered DEF Typed
<1>4. QED
  BY <1>1, <1>2, <1>3, CharacteristicCovers DEF Answer

(***************************************************************************)
(* service_uuids names what is in services, and is never cleared.          *)
(***************************************************************************)
Named == DOMAIN services \subseteq service_uuids /\ service_uuids \subseteq DOMAIN Db

LEMMA AppNamed ==
    ASSUME App
    PROVE  DOMAIN services' \subseteq DOMAIN services /\ service_uuids' = service_uuids
<1>1. CASE Connect \/ Disconnect
  BY <1>1 DEF Connect, Disconnect, known
<1>2. CASE DiscoverServices
  BY <1>2, NoEntries DEF DiscoverServices
<1>3. CASE \E n \in 1..MaxFilter : \E uuids \in [1..n -> {NullUuid, SomeUuid}] :
              DiscoverServicesByUuid(uuids)
  BY <1>3 DEF DiscoverServicesByUuid, known
<1>4. CASE \E service \in DOMAIN services : DiscoverCharacteristics(service)
  BY <1>4 DEF DiscoverCharacteristics
<1>5. ASSUME NEW char, FindDescriptors(char)
      PROVE  DOMAIN services' = DOMAIN services /\ service_uuids' = service_uuids
  BY <1>5 DEF FindDescriptors
<1>6. CASE \E char \in DOMAIN characteristic_to_service :
              \/ DiscoverDescriptors(char)
              \/ ReadCharacteristic(char)
              \/ WriteCharacteristic(char)
              \/ \E enabled \in BOOLEAN : SetNotification(char, enabled)
  BY <1>5, <1>6 DEF DiscoverDescriptors, ReadCharacteristic, WriteCharacteristic,
                    SetNotification, known
<1>7. CASE \E desc \in DOMAIN descriptor_to_characteristic :
              ReadDescriptor(desc) \/ WriteDescriptor(desc)
  BY <1>7 DEF ReadDescriptor, WriteDescriptor, known
<1>8. QED
  BY <1>1, <1>2, <1>3, <1>4, <1>6, <1>7 DEF App

LEMMA NamedStep == ASSUME Typed, Named, [Next]_vars PROVE Named'
<1>1. CASE App
  BY <1>1, AppNamed DEF Named
<1>2. CASE HandlePrimary
  <2>1. CASE UNCHANGED <<services, service_uuids>>
    BY <2>1 DEF Named
  <2>2. ASSUME NEW page \in Pages(Matches(Head(requests), DOMAIN Db)),
               services' = With(services,
                                [sv \in page |-> [end |-> Db[sv].end, chars |-> EmptyMap]]),
               service_uuids' = service_uuids \cup page
        PROVE  Named'
    <3>1. page \subseteq DOMAIN Db
      BY DEF Pages, Matches
    <3>2. DOMAIN services' = DOMAIN services \cup page
      BY <2>2 DEF With
    <3>3. QED
      BY <2>2, <3>1, <3>2 DEF Named
  <2>3. QED
    BY <1>2, <2>1, <2>2, Zenon DEF HandlePrimary
<1>3. CASE HandleCharacteristic
  <2>1. service_uuids' = service_uuids
    BY <1>3 DEF HandleCharacteristic
  <2>2. \/ services' = services
        \/ \E service, page : services' = [services EXCEPT ![service].chars = Extended(service, page)]
    BY <1>3, Zenon DEF HandleCharacteristic
  <2>3. QED
    BY <2>1, <2>2 DEF Named
<1>4. CASE HandleDescriptors
  <2>1. service_uuids' = service_uuids
    BY <1>4 DEF HandleDescriptors
  <2>2. DOMAIN services' = DOMAIN services
    BY <1>4, DescriptorsCover DEF Discoveries
  <2>3. QED
    BY <2>1, <2>2 DEF Named
<1>5. CASE \/ HandleMtu \/ HandleNotMade \/ HandlePrimaryForService
           \/ HandleCharacteristicRead \/ HandleDescriptorRead \/ HandleWrite
  BY <1>5 DEF HandleMtu, HandleNotMade, HandlePrimaryForService, HandleCharacteristicRead,
              HandleDescriptorRead, HandleWrite, known, Named
<1>6. CASE UNCHANGED vars
  BY <1>6 DEF vars, known, Named
<1>7. QED
  BY <1>1, <1>2, <1>3, <1>4, <1>5, <1>6 DEF Next, Answer

LEMMA CoveredStep ==
    ASSUME Disciplined, Typed, Agreed, Agreed', Covered, Named, Named', ServicesComplete,
           [Next]_vars
    PROVE  Covered' /\ ServicesComplete'
<1>1. CASE App
  BY <1>1, AppCovers, CallsAreQuiet, QuietIsNoAnnouncement DEF ServicesComplete, OfServices
<1>2. CASE HandlePrimary
  <2>1. Covered'
    BY <1>2, PrimaryCovers
  <2>2. ASSUME signal' = <<"servicesDiscovered", AllFound>>
        PROVE  /\ DOMAIN services' = DOMAIN Db
               /\ \A sv \in DOMAIN Db : services'[sv].end = Db[sv].end
               /\ service_uuids' = DOMAIN Db
    <3>1. DOMAIN services' = DOMAIN Db
      BY <1>2, <2>2, PrimaryCovers
    <3>2. QED
      BY <3>1 DEF Agreed, OfServer, Named
  <2>3. QED
    BY <2>1, <2>2 DEF ServicesComplete
<1>3. CASE Answer /\ ~ HandlePrimary
  <2>1. signal' # <<"servicesDiscovered", AllFound>>
    <3>1. CASE HandlePrimaryForService
      <4>1. signal' = Quiet \/ signal' = <<"servicesDiscovered", SomeFound>>
        BY <3>1, Zenon DEF HandlePrimaryForService
      <4>2. QED
        BY <4>1 DEF Quiet, AllFound, SomeFound
    <3>2. CASE ~ OfServices(signal')
      BY <3>2 DEF OfServices
    <3>3. QED
      BY <1>3, <3>1, <3>2, OthersAnnounceNoServices
  <2>2. Covered'
    BY <1>3, AnswersCover
  <2>3. QED
    BY <2>1, <2>2 DEF ServicesComplete
<1>4. CASE UNCHANGED vars
  BY <1>4 DEF vars, known, Covered, ServicesComplete, Out
<1>5. QED
  BY <1>1, <1>2, <1>3, <1>4 DEF Next, Answer

(***************************************************************************)
(* When handlePrimary() announces the services (gatoperipheral.cpp:628-    *)
(* 630), they are those of the server, with their ends, however it cut its *)
(* answers and the conversation over links, also when a service ends with  *)
(* the last handle and the next request starts at 0 (649); and the names   *)
(* in service_uuids (643) are those of just these services.                *)
(***************************************************************************)
THEOREM AnnouncedServicesAreAll == Disciplined => (Spec => []ServicesComplete)
<1> SUFFICES ASSUME Disciplined PROVE Spec => []ServicesComplete
  OBVIOUS
<1>1. Init => Covered /\ Named /\ ServicesComplete
  <2>1. Init => Out = {}
    BY EmptySeq DEF Init, Out, Range
  <2>2. QED
    BY <2>1, NoEntries DEF Init, Covered, Named, ServicesComplete, Quiet
<1>2. /\ Typed /\ Agreed /\ (Typed /\ Agreed)' /\ Covered /\ Named /\ ServicesComplete
      /\ [Next]_vars
      => (Covered /\ Named /\ ServicesComplete)'
  BY CoveredStep, NamedStep
<1>3. Spec => [](Typed /\ Agreed)
  BY AlwaysAgreed
<1>4. QED
  BY <1>1, <1>2, <1>3, PTL DEF Spec

-----------------------------------------------------------------------------
(***************************************************************************)
(* A discovery of characteristics skips nothing either, every one found    *)
(* ends before the next one found or with the service, and its value is in *)
(* the map.  All three hold at every moment of a discovery.                *)
(***************************************************************************)
EndIn(chars, c, end) ==
    IF {d \in chars : d > c} = {} THEN end ELSE Min({d \in chars : d > c}) - 1

Tiled ==
    \A sv \in DOMAIN services : \A c \in DOMAIN services[sv].chars :
        services[sv].chars[c].end = EndIn(DOMAIN services[sv].chars, c, Db[sv].end)

Valued ==
    \A sv \in DOMAIN services : \A c \in DOMAIN services[sv].chars :
        services[sv].chars[c].value \in DOMAIN value_to_characteristic

NoneSkipped ==
    \A r \in Out : r.op = "characteristics" =>
        \A c \in DOMAIN Db[pending[r.id]].chars :
            c < r.start => c \in DOMAIN services[pending[r.id]].chars

Surveyed == Tiled /\ Valued /\ NoneSkipped

\* Two characteristics of the server do not have the same value.
LEMMA CharacteristicEnds ==
    ASSUME NEW sv \in DOMAIN Db, NEW c \in DOMAIN Db[sv].chars
    PROVE  /\ Db[sv].chars[c].end = EndIn(DOMAIN Db[sv].chars, c, Db[sv].end)
           /\ c < Char_Db[c].value /\ Char_Db[c].value <= Db[sv].end
           /\ \A d \in DOMAIN Db[sv].chars : c < d => Char_Db[c].value < d
<1> DEFINE later == {d \in DOMAIN Db[sv].chars : d > c}
<1>1. /\ Db[sv].chars[c].end = IF later = {} THEN Db[sv].end ELSE Min(later) - 1
      /\ Db[sv].chars[c].value \in (c + 1)..Db[sv].chars[c].end
  BY CharacteristicAssumption
<1>2. Char_Db[c] = Db[sv].chars[c]
  BY CharacteristicsOfServer, OneService
<1>3. c \in Nat /\ Db[sv].end \in Nat /\ DOMAIN Db[sv].chars \in SUBSET Handle
      /\ \A d \in DOMAIN Db[sv].chars : d \in Nat /\ d <= Db[sv].end
  <2>1. ASSUME NEW d \in DOMAIN Db[sv].chars PROVE d \in Handle /\ d \in Nat /\ d <= Db[sv].end
    BY OneService, ServerHandles, Handles
  <2>2. Db[sv].end \in Nat
    BY ServerHandles, Handles
  <2>3. QED
    BY <2>1, <2>2
<1>4. later # {} => Min(later) \in later /\ \A d \in later : Min(later) <= d
  BY <1>3, HandlesHaveMin
<1>5. Db[sv].chars[c].end \in Nat /\ Db[sv].chars[c].end <= Db[sv].end
      /\ \A d \in later : Db[sv].chars[c].end < d
  <2>1. CASE later = {}
    BY <1>1, <1>3, <2>1
  <2>2. CASE later # {}
    <3>1. /\ Min(later) \in Nat /\ Min(later) > c /\ Min(later) <= Db[sv].end
          /\ \A d \in later : d \in Nat /\ Min(later) <= d
      BY <1>3, <1>4, <2>2
    <3>2. Db[sv].chars[c].end = Min(later) - 1
      BY <1>1, <2>2
    <3> HIDE DEF later
    <3>3. QED
      BY <1>3, <3>1, <3>2
  <2>3. QED
    BY <2>1, <2>2
<1>6. c < Char_Db[c].value /\ Char_Db[c].value <= Db[sv].chars[c].end /\ Char_Db[c].value \in Nat
  BY <1>1, <1>2, <1>3, <1>5
<1>7. ASSUME NEW d \in DOMAIN Db[sv].chars, c < d PROVE Char_Db[c].value < d
  <2>1. d \in later /\ d \in Nat
    BY <1>3, <1>7
  <2>2. Db[sv].chars[c].end < d
    BY <1>5, <2>1
  <2>3. QED
    BY <1>5, <1>6, <2>1, <2>2
<1>8. QED
  BY <1>1, <1>3, <1>5, <1>6, <1>7 DEF EndIn

LEMMA ValuesDiffer ==
    ASSUME NEW c \in DOMAIN Char_Db, NEW d \in DOMAIN Char_Db, Char_Db[c].value = Char_Db[d].value
    PROVE  c = d
<1>1. PICK sv \in DOMAIN Db : c \in DOMAIN Db[sv].chars
  BY CharacteristicsOfServer
<1>2. PICK other \in DOMAIN Db : d \in DOMAIN Db[other].chars
  BY CharacteristicsOfServer
<1>3. /\ c < Char_Db[c].value /\ Char_Db[c].value <= Db[sv].end /\ sv <= c
      /\ d < Char_Db[c].value /\ Char_Db[c].value <= Db[other].end /\ other <= d
  BY <1>1, <1>2, CharacteristicEnds, OneService
<1>4. /\ c \in Nat /\ d \in Nat /\ sv \in Nat /\ other \in Nat /\ Char_Db[c].value \in Nat
      /\ Db[sv].end \in Nat /\ Db[other].end \in Nat
  BY ServerHandles, Handles
<1>5. sv = other
  <2>1. sv < other => Db[sv].end < other
    BY DbAssumption
  <2>2. other < sv => Db[other].end < sv
    BY DbAssumption
  <2>3. QED
    BY <1>3, <1>4, <2>1, <2>2
<1>6. ~ (c < d) /\ ~ (d < c)
  <2>1. c < d => Char_Db[c].value < d
    BY <1>1, <1>2, <1>5, CharacteristicEnds
  <2>2. d < c => Char_Db[d].value < c
    BY <1>1, <1>2, <1>5, CharacteristicEnds
  <2>3. QED
    BY <1>3, <1>4, <2>1, <2>2
<1>7. QED
  BY <1>4, <1>6

LEMMA CharacteristicsHaveValues ==
    ASSUME OfServer, NEW sv \in DOMAIN services, NEW c \in DOMAIN services[sv].chars
    PROVE  /\ sv \in DOMAIN Db /\ c \in DOMAIN Db[sv].chars /\ c \in DOMAIN Char_Db
           /\ services[sv].chars[c].value = Char_Db[c].value
BY OneService DEF OfServer

\* Nothing is found or forgotten.
SameCharacteristics ==
    /\ DOMAIN services' = DOMAIN services
    /\ \A sv \in DOMAIN services :
          /\ DOMAIN services'[sv].chars = DOMAIN services[sv].chars
          /\ \A c \in DOMAIN services[sv].chars :
                /\ services'[sv].chars[c].end = services[sv].chars[c].end
                /\ services'[sv].chars[c].value = services[sv].chars[c].value
    /\ value_to_characteristic' = value_to_characteristic

LEMMA SurveyStays ==
    ASSUME Agreed, Surveyed, SameCharacteristics, Keeps("characteristics")
    PROVE  Surveyed'
<1>1. Tiled'
  BY DEF Surveyed, Tiled, SameCharacteristics
<1>2. Valued'
  BY DEF Surveyed, Valued, SameCharacteristics
<1>3. ASSUME NEW r \in Out', r.op = "characteristics",
             NEW c \in DOMAIN Db[pending'[r.id]].chars, c < r.start
      PROVE  c \in DOMAIN services'[pending'[r.id]].chars
  <2>1. r \in Out /\ pending'[r.id] = pending[r.id]
    BY <1>3 DEF Keeps, Unremembered
  <2>2. pending[r.id] \in DOMAIN services
    BY <1>3, <2>1 DEF Agreed, Ahead, CharacteristicsAhead
  <2>3. c \in DOMAIN services[pending[r.id]].chars
    BY <1>3, <2>1 DEF Surveyed, NoneSkipped
  <2>4. QED
    BY <2>1, <2>2, <2>3 DEF SameCharacteristics
<1>4. NoneSkipped'
  BY <1>3 DEF NoneSkipped
<1>5. QED
  BY <1>1, <1>2, <1>4 DEF Surveyed

LEMMA KnownIsSame ==
    ASSUME UNCHANGED services, UNCHANGED value_to_characteristic
    PROVE  SameCharacteristics
BY DEF SameCharacteristics

LEMMA DescsAreSame ==
    ASSUME KnownTyped, NEW char, Known(char), Held(char), NEW descs \in SUBSET Handle,
           services' = [services EXCEPT ![ServiceOf(char)].chars[char].descs = descs],
           UNCHANGED value_to_characteristic
    PROVE  SameCharacteristics
<1>1. /\ ServicesTyped(services) /\ ServiceOf(char) \in DOMAIN services
      /\ char \in DOMAIN services[ServiceOf(char)].chars
  BY DEF KnownTyped, Held
<1>2. services' = SetDescs(services, ServiceOf(char), char, descs)
  BY <1>1, SetByPath
<1>3. QED
  BY <1>1, <1>2, DescsSet DEF SameCharacteristics

LEMMA FindDescriptorsSurveyed ==
    ASSUME Typed, Agreed, Surveyed, connected, NEW char, Known(char), Held(char),
           FindDescriptors(char)
    PROVE  Surveyed'
<1>1. /\ services' = [services EXCEPT ![ServiceOf(char)].chars[char].descs = {}]
      /\ UNCHANGED value_to_characteristic
  BY DEF FindDescriptors
<1>2. SameCharacteristics
  <2>1. KnownTyped /\ {} \in SUBSET Handle
    BY DEF Typed
  <2>2. QED
    BY <1>1, <2>1, DescsAreSame
<1>3. Keeps("characteristics")
  BY FindDescriptorsCovers DEF Typed, Discoveries
<1>4. QED
  BY <1>2, <1>3, SurveyStays

LEMMA CharacteristicCallsSurveyed ==
    ASSUME Typed, Agreed, Surveyed, NEW char, Known(char), NEW enabled \in BOOLEAN,
           \/ DiscoverDescriptors(char)
           \/ ReadCharacteristic(char)
           \/ WriteCharacteristic(char)
           \/ SetNotification(char, enabled)
    PROVE  Surveyed'
<1>1. connected /\ Held(char)
  BY DEF DiscoverDescriptors, ReadCharacteristic, WriteCharacteristic, SetNotification, Calling
<1>2. Keeps("characteristics")
  BY CharacteristicCallsCover DEF Typed, Discoveries
<1>3. CASE FindDescriptors(char)
  BY <1>1, <1>3, FindDescriptorsSurveyed
<1>4. CASE UNCHANGED known
  BY <1>1, <1>2, <1>4, KnownIsSame, SurveyStays DEF known, maps
<1>5. FindDescriptors(char) \/ UNCHANGED known
  BY DEF DiscoverDescriptors, ReadCharacteristic, WriteCharacteristic, SetNotification
<1>6. QED
  BY <1>3, <1>4, <1>5

LEMMA DiscoverServicesSurveyed ==
    ASSUME Disciplined, Typed, DiscoverServices
    PROVE  Surveyed'
<1>1. /\ services' = EmptyMap /\ Ongoing("characteristics") = {}
      /\ Ask(MakeRequest("primary", 1, MaxHandle, "none"), EmptyMap)
  BY DEF DiscoverServices, Calling
<1>2. Tiled' /\ Valued'
  BY <1>1, NoEntries DEF Tiled, Valued
<1>3. Keeps("characteristics")
  BY <1>1, AskKeeps, EntryOrNone DEF Typed
<1>4. NoneSkipped'
  <2>1. \A r \in Out : r.op # "characteristics"
    BY <1>1, OngoingOut DEF Unremembered
  <2>2. QED
    BY <1>3, <2>1 DEF NoneSkipped, Keeps
<1>5. QED
  BY <1>2, <1>4 DEF Surveyed

LEMMA DiscoverCharacteristicsSurveyed ==
    ASSUME Disciplined, Typed, Agreed, Surveyed, NEW service \in DOMAIN services,
           DiscoverCharacteristics(service)
    PROVE  Surveyed'
<1> DEFINE old == services[service].chars
<1> DEFINE gone == {old[c].value : c \in DOMAIN old}
<1>1. /\ connected /\ ~ Pending("characteristics", service)
      /\ services' = SetChars(services, service, EmptyMap)
      /\ value_to_characteristic' = Without(value_to_characteristic, gone)
      /\ Ask(MakeRequest("characteristics", service, services[service].end, "none"),
             Entry(next_id, service))
  BY DEF DiscoverCharacteristics, ForgetCharacteristics, Calling, SetChars
<1>2. /\ DOMAIN services' = DOMAIN services /\ services'[service].chars = EmptyMap
      /\ \A s \in DOMAIN services : s # service => services'[s].chars = services[s].chars
  BY <1>1, NoCharacteristics, CharsSet DEF Typed, KnownTyped
<1>3. Tiled'
  BY <1>2, NoEntries DEF Surveyed, Tiled
<1>4. ASSUME NEW s \in DOMAIN services', NEW c \in DOMAIN services'[s].chars
      PROVE  services'[s].chars[c].value \in DOMAIN value_to_characteristic'
  <2>1. s \in DOMAIN services /\ s # service /\ services'[s].chars = services[s].chars
    BY <1>2, <1>4, NoEntries
  <2>2. services[s].chars[c].value \in DOMAIN value_to_characteristic
    BY <1>4, <2>1 DEF Surveyed, Valued
  <2>3. services[s].chars[c].value \notin gone
    <3>1. SUFFICES ASSUME NEW d \in DOMAIN old, services[s].chars[c].value = old[d].value
                   PROVE  FALSE
      OBVIOUS
    <3>2. /\ c \in DOMAIN Char_Db /\ d \in DOMAIN Char_Db /\ Char_Db[c].value = Char_Db[d].value
          /\ s \in DOMAIN Db /\ service \in DOMAIN Db
          /\ c \in DOMAIN Db[s].chars /\ d \in DOMAIN Db[service].chars
      BY <1>4, <2>1, <3>1, CharacteristicsHaveValues DEF Agreed
    <3>3. QED
      BY <2>1, <3>2, ValuesDiffer, OneService
  <2>4. QED
    BY <1>1, <2>1, <2>2, <2>3, WithoutKeys
<1>5. Valued'
  BY <1>4 DEF Valued
<1> DEFINE req == MakeRequest("characteristics", service, services[service].end, "none")
<1>6. ASSUME NEW r \in Out', r.op = "characteristics",
             NEW c \in DOMAIN Db[pending'[r.id]].chars, c < r.start
      PROVE  c \in DOMAIN services'[pending'[r.id]].chars
  <2>1. "characteristics" \in Operation /\ "none" \in RequestValue
        /\ "characteristics" \notin Unremembered
    BY DEF Operation, RequestValue, Unremembered
  <2>2. service \in Handle /\ services[service].end \in Handle
    BY DEF Typed, KnownTyped, ServicesTyped
  <2>3. /\ Out' = Out \cup {req}
        /\ \A x \in Out : x.op \notin Unremembered => pending'[x.id] = pending[x.id]
        /\ pending'[next_id] = service
    <3>1. EntryFor("characteristics", Entry(next_id, service))
          /\ Entry(next_id, service)[next_id] = service
      BY <2>2, EntriesFor, OneEntry
    <3>2. Queued
      BY DEF Typed
    <3>3. QED
      BY <1>1, <1>6, <2>1, <2>2, <3>1, <3>2, OutAfterAsk
  <2>4. req.id = next_id /\ req.start = service
    BY DEF MakeRequest
  <2> HIDE DEF req
  <2>5. CASE r = req
    <3>1. service \in DOMAIN Db /\ c \in DOMAIN Db[service].chars /\ c < service
      BY <1>6, <2>3, <2>4, <2>5 DEF Agreed, OfServer
    <3>2. service <= c /\ service \in Nat /\ c \in Nat
      BY <3>1, OneService, ServerHandles, Handles
    <3>3. QED
      BY <3>1, <3>2
  <2>6. CASE r # req
    <3>1. r \in Out /\ pending'[r.id] = pending[r.id]
      BY <1>6, <2>1, <2>3, <2>6
    <3>2. pending[r.id] # service
      BY <1>1, <1>6, <2>1, <3>1, PendingOut DEF Typed
    <3>3. pending[r.id] \in DOMAIN services
      BY <1>1, <1>6, <3>1 DEF Agreed, Ahead, CharacteristicsAhead
    <3>4. c \in DOMAIN services[pending[r.id]].chars
      BY <1>1, <1>6, <3>1 DEF Surveyed, NoneSkipped
    <3>5. QED
      BY <1>2, <3>1, <3>2, <3>3, <3>4
  <2>7. QED
    BY <2>5, <2>6
<1>7. NoneSkipped'
  BY <1>6 DEF NoneSkipped
<1>8. QED
  BY <1>3, <1>5, <1>7 DEF Surveyed

LEMMA AppSurveyed == ASSUME Disciplined, Typed, Agreed, Surveyed, App PROVE Surveyed'
<1>1. CASE Connect \/ Disconnect
  <2>1. UNCHANGED known
    BY <1>1 DEF Connect, Disconnect
  <2>2. Keeps("characteristics")
    BY <1>1, LinkKeeps DEF Typed
  <2>3. QED
    BY <2>1, <2>2, KnownIsSame, SurveyStays DEF known, maps
<1>3. ASSUME NEW n \in 1..MaxFilter, NEW uuids \in [1..n -> {NullUuid, SomeUuid}],
             DiscoverServicesByUuid(uuids)
      PROVE  Surveyed'
  <2>1. UNCHANGED known
    BY <1>3, ByUuidAsks
  <2>2. Keeps("characteristics")
    BY <1>3, ByUuidKeeps DEF Typed
  <2>3. QED
    BY <2>1, <2>2, KnownIsSame, SurveyStays DEF known, maps
<1>4. CASE \E service \in DOMAIN services : DiscoverCharacteristics(service)
  BY <1>4, DiscoverCharacteristicsSurveyed
<1>5. CASE \E char \in DOMAIN characteristic_to_service :
              \/ DiscoverDescriptors(char)
              \/ ReadCharacteristic(char)
              \/ WriteCharacteristic(char)
              \/ \E enabled \in BOOLEAN : SetNotification(char, enabled)
  BY <1>5, CharacteristicCallsSurveyed DEF Known
<1>6. CASE \E desc \in DOMAIN descriptor_to_characteristic :
              ReadDescriptor(desc) \/ WriteDescriptor(desc)
  <2>1. UNCHANGED known
    BY <1>6 DEF ReadDescriptor, WriteDescriptor
  <2>2. connected /\ Keeps("characteristics")
    BY <1>6, DescriptorCallsCover DEF Typed, Discoveries
  <2>3. QED
    BY <2>1, <2>2, KnownIsSame, SurveyStays DEF known, maps
<1>7. QED
  BY <1>1, <1>3, <1>4, <1>5, <1>6, DiscoverServicesSurveyed DEF App

LEMMA PrimarySurveyed == ASSUME Typed, Agreed, Surveyed, HandlePrimary PROVE Surveyed'
<1>1. /\ connected /\ requests # <<>> /\ connected' = connected
      /\ Answering("primary") /\ value_to_characteristic' = value_to_characteristic
  BY DEF HandlePrimary, Answering, maps
<1>2. CASE Finish /\ UNCHANGED services
  BY <1>1, <1>2, FinishKeeps, KnownIsSame, SurveyStays DEF Typed
<1>3. ASSUME NEW page \in Pages(Matches(Head(requests), DOMAIN Db)),
             services' = With(services, [sv \in page |-> [end |-> Db[sv].end, chars |-> EmptyMap]]),
             AskMore(MakeRequest("primary", Following(Db[Max(page)].end), MaxHandle, "none"),
                     EmptyMap)
      PROVE  Surveyed'
  <2>1. Keeps("characteristics")
    BY <1>1, <1>3, AskMoreKeeps, EntryOrNone DEF Typed
  <2>2. Head(requests) \in Out /\ Head(requests).op = "primary" /\ Head(requests).start # 0
        /\ Head(requests).start \in Handle
        /\ page \subseteq Handle /\ \A sv \in page : Head(requests).start <= sv
    BY <1>1, <1>3, HeadIsOut, PageOfMatches, HeadOfQueue, ServerHandles
       DEF Typed, Answering, Unremembered
  <2>3. ASSUME NEW sv \in DOMAIN services PROVE sv \notin page
    <3>1. sv < Head(requests).start /\ sv \in Nat /\ Head(requests).start \in Nat
      BY <1>1, <2>2, Handles DEF Agreed, Ahead, ServicesAhead, Typed, KnownTyped, ServicesTyped
    <3>2. ~ (Head(requests).start <= sv)
      BY <3>1
    <3>3. QED
      BY <2>2, <3>2
  <2>4. /\ DOMAIN services' = DOMAIN services \cup page
        /\ \A sv \in DOMAIN services : services'[sv] = services[sv]
        /\ \A sv \in page : services'[sv].chars = EmptyMap
    BY <1>3, <2>3 DEF With
  <2>5. Tiled' /\ Valued'
    BY <1>1, <2>4, NoEntries DEF Surveyed, Tiled, Valued
  <2>6. ASSUME NEW r \in Out', r.op = "characteristics",
               NEW c \in DOMAIN Db[pending'[r.id]].chars, c < r.start
        PROVE  c \in DOMAIN services'[pending'[r.id]].chars
    <3>1. r \in Out /\ pending'[r.id] = pending[r.id]
      BY <1>1, <2>1, <2>6 DEF Keeps, Unremembered
    <3>2. pending[r.id] \in DOMAIN services
      BY <1>1, <2>6, <3>1 DEF Agreed, Ahead, CharacteristicsAhead
    <3>3. QED
      BY <1>1, <2>4, <2>6, <3>1, <3>2 DEF Surveyed, NoneSkipped
  <2>7. NoneSkipped'
    BY <2>6 DEF NoneSkipped
  <2>8. QED
    BY <2>5, <2>7 DEF Surveyed
<1>4. QED
  BY <1>2, <1>3 DEF HandlePrimary

\* The descriptors of a page are handles.
LEMMA DescriptorsSame == ASSUME Typed, HandleDescriptors PROVE SameCharacteristics
<1> DEFINE char == pending[Head(requests).id]
<1>1. /\ connected /\ requests # <<>>
      /\ UNCHANGED value_to_characteristic
  BY DEF HandleDescriptors, Answering
<1>2. CASE UNCHANGED services
  BY <1>1, <1>2, KnownIsSame
<1>3. ASSUME Known(char), Held(char),
             NEW page \in Pages(Matches(Head(requests), Attributes)),
             services' = [services EXCEPT ![ServiceOf(char)].chars[char].descs =
                             Char(char).descs \cup (page \ {Char(char).value})]
      PROVE  SameCharacteristics
  <2>1. page \subseteq Handle
    BY <1>1, PageOfMatches, HeadOfQueue, ServerHandles DEF Typed
  <2> HIDE DEF char
  <2>2. KnownTyped
    BY DEF Typed
  <2>3. Char(char).descs \subseteq Handle
    BY <1>3, <2>2, HeldCharacteristic
  <2> DEFINE descs == Char(char).descs \cup (page \ {Char(char).value})
  <2>4. descs \in SUBSET Handle
    BY <2>1, <2>3
  <2>5. services' = [services EXCEPT ![ServiceOf(char)].chars[char].descs = descs]
    BY <1>3
  <2> HIDE DEF descs
  <2>6. QED
    BY <1>1, <1>3, <2>2, <2>4, <2>5, DescsAreSame
<1>4. QED
  BY <1>2, <1>3, Zenon DEF HandleDescriptors, HandleDescriptorPage

LEMMA DescriptorsSurveyed ==
    ASSUME Typed, Agreed, Surveyed, HandleDescriptors
    PROVE  Surveyed'
BY DescriptorsSame, DescriptorsCover, SurveyStays DEF Typed, Discoveries

\* The characteristics of a page come after those that are known.
LEMMA ExtendedEnds ==
    ASSUME KnownTyped, OfServer, Tiled, NEW service \in DOMAIN services,
           NEW page \in SUBSET DOMAIN Char_Db, page # {},
           \A c \in DOMAIN services[service].chars : \A d \in page : c < d,
           NEW c \in DOMAIN services[service].chars \cup page
    PROVE  Extended(service, page)[c].end =
               EndIn(DOMAIN services[service].chars \cup page, c, Db[service].end)
<1> DEFINE old == services[service].chars
<1> DEFINE all == DOMAIN old \cup page
<1>1. /\ page \in SUBSET Handle /\ CharsTyped(old) /\ DOMAIN old \in SUBSET Handle
      /\ services[service].end = Db[service].end
  BY ServerHandles DEF KnownTyped, ServicesTyped, CharsTyped, OfServer
<1>2. \A x \in all : x \in Nat
  BY <1>1, Handles
<1>3. Min(page) \in page /\ \A d \in page : Min(page) <= d
  BY <1>1, HandlesHaveMin
<1>4. \A x \in DOMAIN old : x \notin page
  BY <1>2
<1>5. CASE c \in page
  <2>1. {d \in all : d > c} = {d \in page : d > c}
    BY <1>2, <1>5
  <2>2. Extended(service, page)[c] = Found(service, page)[c]
    BY <1>5, ExtendedIs DEF With, Found
  <2>3. Found(service, page)[c].end =
           IF {d \in page : d > c} = {} THEN services[service].end
                                        ELSE Min({d \in page : d > c}) - 1
    BY <1>5 DEF Found
  <2>4. Found(service, page)[c].end = EndIn(all, c, Db[service].end)
    BY <1>1, <2>1, <2>3 DEF EndIn
  <2>5. QED
    BY <2>2, <2>4
<1>6. CASE c \in DOMAIN old
  <2>1. old # EmptyMap
    BY <1>6, NoEntries
  <2>2. Max(DOMAIN old) \in DOMAIN old /\ \A x \in DOMAIN old : x <= Max(DOMAIN old)
    BY <1>1, <1>6, HandlesHaveMax
  <2> DEFINE last == Max(DOMAIN services[service].chars)
  <2>3. Shortened(service, page) = [old EXCEPT ![last].end = Min(page) - 1]
    BY <2>1 DEF Shortened
  <2>4. Extended(service, page)[c] = Shortened(service, page)[c]
    <3>1. c \in DOMAIN Shortened(service, page)
      BY <1>6, <2>3
    <3>2. c \notin DOMAIN Found(service, page)
      BY <1>4, <1>6 DEF Found
    <3>3. QED
      BY <3>1, <3>2, ExtendedIs DEF With
  <2> HIDE DEF last
  <2> DEFINE later == {d \in all : d > c}
  <2>5. later \in SUBSET Handle /\ Min(page) \in later
    BY <1>1, <1>2, <1>3, <1>6
  <2>6. Min(later) \in later /\ \A d \in later : Min(later) <= d
    BY <2>5, HandlesHaveMin
  <2>7. EndIn(all, c, Db[service].end) = Min(later) - 1
    BY <2>5 DEF EndIn
  <2>8. CASE c = last
    <3>1. later = page
      BY <1>2, <1>6, <2>2, <2>8 DEF last
    <3>2. old[c] \in CharRecord
      BY <1>1, <1>6 DEF CharsTyped
    <3>3. Shortened(service, page)[c].end = Min(page) - 1
      BY <1>6, <2>3, <2>8, <3>2 DEF CharRecord
    <3>4. QED
      BY <2>4, <2>7, <3>1, <3>3
  <2>9. CASE c # last
    <3> DEFINE before == {d \in DOMAIN old : d > c}
    <3>1. last \in before /\ before \in SUBSET Handle /\ before \subseteq later
      BY <1>1, <1>2, <1>6, <2>2, <2>9 DEF last
    <3>2. Min(before) \in before /\ \A d \in before : Min(before) <= d
      BY <3>1, HandlesHaveMin
    <3>3. Min(before) = Min(later)
      <4>1. Min(later) <= Min(before)
        BY <2>6, <3>1, <3>2
      <4>2. Min(later) \in before \/ Min(later) \in page
        BY <2>6
      <4>3. Min(before) <= Min(later)
        <5>1. CASE Min(later) \in before
          BY <3>2, <5>1
        <5>2. CASE Min(later) \in page
          <6>1. Min(before) < Min(later)
            BY <3>2, <5>2
          <6>2. Min(before) \in Nat /\ Min(later) \in Nat
            BY <1>2, <2>6, <3>2
          <6>3. QED
            BY <6>1, <6>2
        <5>3. QED
          BY <4>2, <5>1, <5>2
      <4>4. Min(before) \in Nat /\ Min(later) \in Nat
        BY <1>2, <2>6, <3>2
      <4>5. QED
        BY <4>1, <4>3, <4>4
    <3>4. old[c].end = Min(before) - 1
      BY <1>6, <3>1 DEF Tiled, EndIn
    <3>5. Shortened(service, page)[c] = old[c]
      BY <1>6, <2>3, <2>9
    <3>6. QED
      BY <2>4, <2>7, <3>3, <3>4, <3>5
  <2>10. QED
    BY <2>8, <2>9
<1>7. QED
  BY <1>5, <1>6

LEMMA CharsReplaced ==
    ASSUME KnownTyped, NEW service \in DOMAIN services, NEW chars, CharsTyped(chars),
           services' = SetChars(services, service, chars)
    PROVE  /\ DOMAIN services' = DOMAIN services
           /\ services'[service].chars = chars
           /\ \A s \in DOMAIN services : s # service => services'[s].chars = services[s].chars
<1>1. ServicesTyped(services)
  BY DEF KnownTyped
<1>2. QED
  BY <1>1, CharsSet

LEMMA CharacteristicPageSurveyed ==
    ASSUME Typed, Agreed, Agreed', Surveyed, Answering("characteristics"), Made,
           NEW service \in DOMAIN services, service = pending[Head(requests).id],
           NEW page \in Pages(Matches(Head(requests), DOMAIN Char_Db)),
           services' = [services EXCEPT ![service].chars = Extended(service, page)],
           value_to_characteristic' =
              With(value_to_characteristic,
                   [v \in {Char_Db[c].value : c \in page} |->
                       CHOOSE c \in page : Char_Db[c].value = v]),
           \/ Finish
           \/ /\ ~ (Max(page) >= services[service].end)
              /\ AskMore(MakeRequest("characteristics", Following(Max(page)),
                                     services[service].end, "none"),
                         Entry(next_id, service))
    PROVE  /\ Surveyed'
           /\ Max(page) >= services[service].end =>
                 DOMAIN services'[service].chars = DOMAIN Db[service].chars
<1> DEFINE head == Head(requests)
<1> DEFINE last == Max(page)
<1> DEFINE end == services[service].end
<1> DEFINE found == DOMAIN services[service].chars \cup page
<1>1. /\ connected /\ requests # <<>> /\ head \in Out /\ head.op = "characteristics"
      /\ head.end = end /\ head.start \in Handle
  BY PageOfService, HeadOfQueue DEF Answering, Typed
<1>2. /\ service \in DOMAIN Db /\ end = Db[service].end /\ end \in Handle /\ service \in Handle
      /\ page # {} /\ page \subseteq DOMAIN Char_Db /\ page \subseteq Handle
      /\ last \in page /\ Min(page) \in page
      /\ \A c \in page : /\ c \in DOMAIN Db[service].chars
                         /\ \A d \in DOMAIN services[service].chars : d < c
  BY PageOfService, ServerHandles
<1>3. \A c \in DOMAIN services[service].chars \cup page :
         Extended(service, page)[c].end = EndIn(found, c, Db[service].end)
  BY <1>2, ExtendedEnds DEF Typed, Agreed, Surveyed
<1>4. /\ CharsTyped(Extended(service, page))
      /\ DOMAIN Extended(service, page) = found
      /\ \A c \in page : Extended(service, page)[c].value = Char_Db[c].value
      /\ \A c \in DOMAIN services[service].chars \ page :
            Extended(service, page)[c].value = services[service].chars[c].value
  <2>1. KnownTyped /\ page \in SUBSET DOMAIN Char_Db /\ Min(page) \in page
    BY <1>2 DEF Typed
  <2> HIDE DEF head, last, end
  <2>2. QED
    BY <2>1, ExtendedCharacteristics
<1>5. /\ DOMAIN services' = DOMAIN services
      /\ services'[service].chars = Extended(service, page)
      /\ \A s \in DOMAIN services : s # service => services'[s].chars = services[s].chars
  <2>1. KnownTyped /\ services' = SetChars(services, service, Extended(service, page))
    BY DEF Typed, SetChars
  <2> HIDE DEF found
  <2>2. QED
    BY <1>4, <2>1, CharsReplaced, Zenon
<1> HIDE DEF head, last, end, found
<1>6. Tiled'
  <2>1. ASSUME NEW s \in DOMAIN services', NEW c \in DOMAIN services'[s].chars
        PROVE  services'[s].chars[c].end = EndIn(DOMAIN services'[s].chars, c, Db[s].end)
    <3>1. CASE s = service
      BY <1>3, <1>4, <1>5, <2>1, <3>1 DEF found
    <3>2. CASE s # service
      BY <1>5, <2>1, <3>2 DEF Surveyed, Tiled
    <3>3. QED
      BY <3>1, <3>2
  <2>2. QED
    BY <2>1 DEF Tiled
<1>7. /\ DOMAIN value_to_characteristic \subseteq DOMAIN value_to_characteristic'
      /\ \A c \in page : Char_Db[c].value \in DOMAIN value_to_characteristic'
  BY DEF With
<1>8. Valued'
  <2>1. ASSUME NEW s \in DOMAIN services', NEW c \in DOMAIN services'[s].chars
        PROVE  services'[s].chars[c].value \in DOMAIN value_to_characteristic'
    <3>1. CASE s = service /\ c \in page
      BY <1>4, <1>5, <1>7, <3>1
    <3>2. CASE s = service /\ c \notin page
      <4>1. c \in DOMAIN services[service].chars
        BY <1>4, <1>5, <2>1, <3>2 DEF found
      <4>2. services[service].chars[c].value \in DOMAIN value_to_characteristic
        BY <4>1 DEF Surveyed, Valued
      <4>3. QED
        BY <1>4, <1>5, <1>7, <3>2, <4>1, <4>2
    <3>3. CASE s # service
      BY <1>5, <1>7, <2>1, <3>3 DEF Surveyed, Valued
    <3>4. QED
      BY <3>1, <3>2, <3>3
  <2>2. QED
    BY <2>1 DEF Valued
\* What is not beyond the page has been found.
<1>9. ASSUME NEW c \in DOMAIN Db[service].chars, c <= last
      PROVE  c \in DOMAIN services'[service].chars
  <2>1. CASE c < head.start
    <3>1. c \in DOMAIN services[service].chars
      BY <1>1, <2>1 DEF Surveyed, NoneSkipped, head
    <3>2. QED
      BY <1>4, <1>5, <3>1 DEF found
  <2>2. CASE ~ (c < head.start)
    <3>1. /\ c \in DOMAIN Char_Db /\ c <= end /\ c \in Nat /\ head.start \in Nat
          /\ head.start # 0
      <4>1. head.start # 0
        BY PageOfMatches, HeadOfQueue, ServerHandles, <1>1 DEF Typed, head
      <4>2. c \in DOMAIN Char_Db /\ c <= Db[service].end
        BY <1>2, OneService
      <4>3. QED
        BY <1>1, <1>2, <4>1, <4>2, ServerHandles, Handles
    <3>2. c \in Matches(head, DOMAIN Char_Db)
      BY <1>1, <2>2, <3>1 DEF Matches
    <3>3. Matches(head, DOMAIN Char_Db) \in SUBSET Handle
      BY ServerHandles DEF Matches
    <3>4. c \in page
      BY <1>9, <3>2, <3>3, PageIsPrefix DEF head, last
    <3>5. QED
      BY <1>4, <1>5, <3>4 DEF found
  <2>3. QED
    BY <2>1, <2>2
<1>10. ASSUME last >= end
       PROVE  DOMAIN services'[service].chars = DOMAIN Db[service].chars
  <2>1. ASSUME NEW c \in DOMAIN Db[service].chars PROVE c \in DOMAIN services'[service].chars
    <3>1. c <= end /\ c \in Nat /\ end \in Nat /\ last \in Nat
      BY <1>2, OneService, ServerHandles, Handles
    <3>2. c <= last
      BY <1>10, <3>1
    <3>3. QED
      BY <1>9, <3>2
  <2>2. DOMAIN services'[service].chars \subseteq DOMAIN Db[service].chars
    BY <1>5 DEF Agreed, OfServer
  <2>3. QED
    BY <2>1, <2>2
<1>11. ASSUME NEW r \in Out \ {head}, r.op = "characteristics"
       PROVE  /\ pending[r.id] \in DOMAIN services /\ pending[r.id] # service
              /\ \A c \in DOMAIN Db[pending[r.id]].chars :
                    c < r.start => c \in DOMAIN services'[pending[r.id]].chars
  <2>1. pending[r.id] \in DOMAIN services /\ pending[r.id] # service
    BY <1>1, <1>11 DEF Agreed, Ahead, CharacteristicsAhead, head
  <2>2. QED
    BY <1>1, <1>5, <1>11, <2>1 DEF Surveyed, NoneSkipped
<1>12. CASE Finish
  <2>1. /\ Out' = Out \ {head}
        /\ \A r \in Out' : r.op = "characteristics" => pending'[r.id] = pending[r.id]
    BY <1>1, <1>12, OutAfterFinish DEF Typed, Unremembered, head
  <2>2. NoneSkipped'
    BY <1>11, <2>1 DEF NoneSkipped
  <2>3. QED
    BY <1>6, <1>8, <1>10, <2>2 DEF Surveyed, last, end
<1>13. CASE /\ ~ (last >= end)
            /\ AskMore(MakeRequest("characteristics", Following(last), end, "none"),
                       Entry(next_id, service))
  <2> DEFINE req == MakeRequest("characteristics", Following(last), end, "none")
  <2>1. "characteristics" \in Operation /\ "none" \in RequestValue
        /\ "characteristics" \notin Unremembered /\ Following(last) \in Handle
    BY <1>2, Handles DEF Operation, RequestValue, Unremembered
  <2>2. EntryFor("characteristics", Entry(next_id, service)) /\ Queued
        /\ Entry(next_id, service)[next_id] = service
    BY <1>2, EntriesFor, OneEntry DEF Typed
  <2>3. /\ Out' = (Out \ {head}) \cup {req}
        /\ \A r \in Out \ {head} : r.op \notin Unremembered => pending'[r.id] = pending[r.id]
        /\ pending'[next_id] = service
    BY <1>1, <1>2, <1>13, <2>1, <2>2, OutAfterAskMore DEF head
  <2>4. req.id = next_id /\ req.start = Following(last)
    BY DEF MakeRequest
  <2> HIDE DEF req
  <2>5. ASSUME NEW r \in Out', r.op = "characteristics",
               NEW c \in DOMAIN Db[pending'[r.id]].chars, c < r.start
        PROVE  c \in DOMAIN services'[pending'[r.id]].chars
    <3>1. CASE r = req
      <4>1. c \in DOMAIN Db[service].chars /\ c < Following(last)
        BY <2>3, <2>4, <2>5, <3>1
      <4>2. last \in Nat /\ c \in Nat /\ last \in Handle
        BY <1>2, <4>1, OneService, ServerHandles, Handles
      <4>3. c <= last
        <5>1. Following(last) # 0
          BY <4>1, <4>2
        <5>2. Following(last) = last + 1
          BY <4>2, <5>1, FollowingIsNext
        <5>3. QED
          BY <4>1, <4>2, <5>2
      <4>4. QED
        BY <1>9, <2>3, <2>4, <3>1, <4>1, <4>3
    <3>2. CASE r # req
      BY <1>11, <2>1, <2>3, <2>5, <3>2
    <3>3. QED
      BY <3>1, <3>2
  <2>6. NoneSkipped'
    BY <2>5 DEF NoneSkipped
  <2>7. QED
    BY <1>6, <1>8, <1>10, <2>6 DEF Surveyed, last, end
<1>14. QED
  BY <1>12, <1>13 DEF last, end

\* Characteristics are announced when all of their service are known.
AnnouncedCharacteristics ==
    signal[1] = "characteristicsDiscovered" =>
        /\ signal[2] \in DOMAIN services
        /\ DOMAIN services[signal[2]].chars = DOMAIN Db[signal[2]].chars

LEMMA NoneLeft ==
    ASSUME Typed, Agreed, Surveyed, Answering("characteristics"), Made,
           NEW service \in DOMAIN services, service = pending[Head(requests).id],
           Matches(Head(requests), DOMAIN Char_Db) = {}
    PROVE  DOMAIN services[service].chars = DOMAIN Db[service].chars
<1> DEFINE head == Head(requests)
<1>1. connected /\ requests # <<>> /\ head.op = "characteristics"
  BY DEF Answering
<1>2. head \in Out /\ head.end = Db[service].end /\ service <= head.start
  BY <1>1, HeadIsOut DEF Typed, Agreed, Ahead, CharacteristicsAhead
<1>3. service \in DOMAIN Db /\ DOMAIN services[service].chars \subseteq DOMAIN Db[service].chars
  BY DEF Agreed, OfServer
<1>4. head.start \in Nat /\ service \in Nat /\ service # 0
  BY <1>1, <1>3, HeadOfQueue, ServerHandles, Handles DEF Typed
<1> HIDE DEF head
<1>5. ASSUME NEW c \in DOMAIN Db[service].chars PROVE c \in DOMAIN services[service].chars
  <2>1. c \in DOMAIN Char_Db /\ c <= head.end /\ c \in Nat
    BY <1>2, <1>3, OneService, ServerHandles, Handles
  <2>2. c \notin Matches(head, DOMAIN Char_Db)
    BY DEF head
  <2>3. c < head.start
    BY <1>2, <1>4, <2>1, <2>2 DEF Matches
  <2>4. QED
    BY <1>1, <1>2, <2>3 DEF Surveyed, NoneSkipped, head
<1>6. QED
  BY <1>3, <1>5

LEMMA CharacteristicSurveyed ==
    ASSUME Typed, Agreed, Agreed', Surveyed, HandleCharacteristic
    PROVE  Surveyed' /\ AnnouncedCharacteristics'
<1> DEFINE service == pending[Head(requests).id]
<1>1. /\ Answering("characteristics") /\ Made /\ requests # <<>>
      /\ service \in DOMAIN services
  BY DEF HandleCharacteristic, Answering
<1>2. CASE /\ Matches(Head(requests), DOMAIN Char_Db) = {}
           /\ Discovered(service)
           /\ UNCHANGED <<services, maps>>
  <2>1. Finish /\ signal' = <<"characteristicsDiscovered", service>>
    BY <1>2 DEF Discovered
  <2>2. Surveyed'
    BY <1>1, <1>2, <2>1, FinishKeeps, KnownIsSame, SurveyStays DEF Typed, maps
  <2>3. DOMAIN services[service].chars = DOMAIN Db[service].chars
    BY <1>1, <1>2, NoneLeft
  <2>4. QED
    BY <1>1, <1>2, <2>1, <2>2, <2>3 DEF AnnouncedCharacteristics
<1>3. ASSUME NEW page \in Pages(Matches(Head(requests), DOMAIN Char_Db)),
             services' = [services EXCEPT ![service].chars = Extended(service, page)],
             value_to_characteristic' =
                With(value_to_characteristic,
                     [v \in {Char_Db[c].value : c \in page} |->
                         CHOOSE c \in page : Char_Db[c].value = v]),
             \/ Max(page) >= services[service].end /\ Discovered(service)
             \/ /\ ~ (Max(page) >= services[service].end)
                /\ signal' = Quiet
                /\ AskMore(MakeRequest("characteristics", Following(Max(page)),
                                       services[service].end, "none"),
                           Entry(next_id, service))
      PROVE  Surveyed' /\ AnnouncedCharacteristics'
  <2>1. /\ Surveyed'
        /\ Max(page) >= services[service].end =>
              DOMAIN services'[service].chars = DOMAIN Db[service].chars
    BY <1>1, <1>3, CharacteristicPageSurveyed DEF Discovered
  <2>2. DOMAIN services' = DOMAIN services
    BY <1>3
  <2>3. CASE Max(page) >= services[service].end /\ Discovered(service)
    <3>1. signal'[1] = "characteristicsDiscovered" /\ signal'[2] = service
      BY <2>3 DEF Discovered
    <3>2. QED
      BY <1>1, <2>1, <2>2, <2>3, <3>1 DEF AnnouncedCharacteristics
  <2>4. CASE signal' = Quiet
    BY <2>1, <2>4 DEF AnnouncedCharacteristics, Quiet
  <2>5. QED
    BY <1>3, <2>3, <2>4
<1>4. QED
  BY <1>2, <1>3, Zenon DEF HandleCharacteristic

LEMMA SurveyStep ==
    ASSUME Disciplined, Typed, Agreed, Agreed', Surveyed, AnnouncedCharacteristics, [Next]_vars
    PROVE  Surveyed' /\ AnnouncedCharacteristics'
<1>1. CASE App
  BY <1>1, AppSurveyed, CallsAreQuiet DEF AnnouncedCharacteristics, Quiet
<1>2. CASE HandlePrimary
  <2>1. signal' = Quiet \/ signal' = <<"servicesDiscovered", AllFound>>
    BY <1>2, Zenon DEF HandlePrimary
  <2>2. QED
    BY <1>2, <2>1, PrimarySurveyed DEF AnnouncedCharacteristics, Quiet
<1>3. CASE \/ HandleMtu \/ HandlePrimaryForService
           \/ HandleCharacteristicRead \/ HandleDescriptorRead \/ HandleWrite
  <2>1. requests # <<>> /\ Finish /\ UNCHANGED known
    BY <1>3 DEF HandleMtu, HandlePrimaryForService, HandleCharacteristicRead,
                HandleDescriptorRead, HandleWrite, Answering
  <2>2. signal'[1] # "characteristicsDiscovered"
    BY <1>3 DEF HandleMtu, HandlePrimaryForService, HandleCharacteristicRead,
                HandleDescriptorRead, HandleWrite, Quiet
  <2>3. Surveyed'
    BY <2>1, FinishKeeps, KnownIsSame, SurveyStays DEF Typed, known, maps
  <2>4. QED
    BY <2>2, <2>3 DEF AnnouncedCharacteristics
<1>4. CASE HandleDescriptors
  <2>1. \/ signal' = Quiet
        \/ signal' = <<"descriptorsDiscovered", pending[Head(requests).id]>>
        \/ signal' = <<"unknownCharacteristic", pending[Head(requests).id]>>
    BY <1>4, Zenon DEF HandleDescriptors, HandleDescriptorPage, FinishDescriptors
  <2>2. QED
    BY <1>4, <2>1, DescriptorsSurveyed DEF AnnouncedCharacteristics, Quiet
<1>5. CASE UNCHANGED vars
  <2>1. /\ services' = services /\ value_to_characteristic' = value_to_characteristic
        /\ pending' = pending /\ Out' = Out /\ connected' = connected /\ signal' = signal
    BY <1>5 DEF vars, known, maps, Out
  <2>2. QED
    BY <2>1 DEF Surveyed, Tiled, Valued, NoneSkipped, AnnouncedCharacteristics
<1>6. CASE HandleNotMade
  <2>1. UNCHANGED known /\ signal' = Quiet
    BY <1>6, OutAfterNotMade DEF Typed
  <2>2. Surveyed'
    BY <1>6, <2>1, NotMadeKeeps, KnownIsSame, SurveyStays DEF Typed, known, maps
  <2>3. QED
    BY <2>1, <2>2 DEF AnnouncedCharacteristics, Quiet
<1>7. QED
  BY <1>1, <1>2, <1>3, <1>4, <1>5, <1>6, CharacteristicSurveyed DEF Next, Answer

LEMMA InitSurveyed == ASSUME Init PROVE Surveyed /\ AnnouncedCharacteristics
<1>1. Out = {}
  BY EmptySeq DEF Init, Out, Range
<1>2. QED
  BY <1>1, NoEntries DEF Init, Surveyed, Tiled, Valued, NoneSkipped, AnnouncedCharacteristics,
                         Quiet

LEMMA SurveyIsComplete ==
    ASSUME Agreed, Surveyed, AnnouncedCharacteristics
    PROVE  CharacteristicsComplete
<1> DEFINE sv == signal[2]
<1> DEFINE found == services[sv].chars
<1> DEFINE there == Db[sv].chars
<1>1. SUFFICES ASSUME signal[1] = "characteristicsDiscovered"
               PROVE  /\ DOMAIN found = DOMAIN there
                      /\ \A c \in DOMAIN there :
                            /\ found[c].end = there[c].end
                            /\ found[c].value = there[c].value
                            /\ value_to_characteristic[there[c].value] = c
  BY DEF CharacteristicsComplete
<1>2. sv \in DOMAIN services /\ sv \in DOMAIN Db /\ DOMAIN found = DOMAIN there
  BY <1>1 DEF AnnouncedCharacteristics, Agreed, OfServer
<1>3. ASSUME NEW c \in DOMAIN there
      PROVE  /\ found[c].end = there[c].end
             /\ found[c].value = there[c].value
             /\ value_to_characteristic[there[c].value] = c
  <2>1. c \in DOMAIN Char_Db /\ Char_Db[c] = there[c] /\ found[c].value = Char_Db[c].value
    BY <1>2, <1>3, CharacteristicsHaveValues, CharacteristicsOfServer, OneService DEF Agreed
  <2>2. found[c].end = there[c].end
    BY <1>2, <1>3, CharacteristicEnds DEF Surveyed, Tiled
  <2>3. found[c].value \in DOMAIN value_to_characteristic
    BY <1>2, <1>3 DEF Surveyed, Valued
  <2> DEFINE x == value_to_characteristic[there[c].value]
  <2>4. Held(x) /\ Char(x).value = there[c].value
    BY <2>1, <2>3 DEF Agreed, Mapped, Known
  <2> HIDE DEF x
  <2>5. x \in DOMAIN Char_Db /\ Char_Db[x].value = Char_Db[c].value
    <3>1. ServiceOf(x) \in DOMAIN services /\ x \in DOMAIN services[ServiceOf(x)].chars
      BY <2>4 DEF Held
    <3>2. /\ x \in DOMAIN Char_Db
          /\ services[ServiceOf(x)].chars[x].value = Char_Db[x].value
      BY <3>1, CharacteristicsHaveValues DEF Agreed
    <3>3. QED
      BY <2>1, <2>4, <3>2 DEF Char
  <2>6. x = c
    BY <2>1, <2>5, ValuesDiffer
  <2>7. QED
    BY <2>1, <2>2, <2>6 DEF x
<1>4. QED
  BY <1>2, <1>3

(***************************************************************************)
(* When handleCharacteristic() announces the characteristics of a service  *)
(* (gatoperipheral.cpp:699, 745), they are those of the server, with their *)
(* values and the ends patched in by later pages (719), and the map finds  *)
(* each by its value, however the answers were cut and whatever was        *)
(* discovered again meanwhile.                                             *)
(***************************************************************************)
THEOREM AnnouncedCharacteristicsAreAll == Disciplined => (Spec => []CharacteristicsComplete)
<1> SUFFICES ASSUME Disciplined PROVE Spec => []CharacteristicsComplete
  OBVIOUS
<1>1. Init => Surveyed /\ AnnouncedCharacteristics
  BY InitSurveyed
<1>2. /\ Typed /\ Agreed /\ (Typed /\ Agreed)' /\ Surveyed /\ AnnouncedCharacteristics
      /\ [Next]_vars
      => (Surveyed /\ AnnouncedCharacteristics)'
  BY SurveyStep
<1>3. Typed /\ Agreed /\ Surveyed /\ AnnouncedCharacteristics => CharacteristicsComplete
  BY SurveyIsComplete
<1>4. Spec => [](Typed /\ Agreed)
  BY AlwaysAgreed
<1>5. QED
  BY <1>1, <1>2, <1>3, <1>4, PTL DEF Spec

-----------------------------------------------------------------------------
(***************************************************************************)
(* The attributes between the declaration of a characteristic and its end  *)
(* are its value and its descriptors.                                      *)
(***************************************************************************)
LEMMA CharacteristicRange ==
    ASSUME NEW sv \in DOMAIN Db, NEW c \in DOMAIN Db[sv].chars
    PROVE  /\ c \in Nat /\ sv \in Nat /\ Db[sv].end \in Nat /\ sv <= c
           /\ Char_Db[c].end \in Handle /\ Char_Db[c].end \in Nat /\ Char_Db[c].value \in Nat
           /\ c < Char_Db[c].value /\ Char_Db[c].value <= Char_Db[c].end
           /\ Char_Db[c].end <= Db[sv].end
           /\ \A d \in Char_Db[c].descs : /\ d \in Nat /\ Char_Db[c].value < d
                                          /\ d <= Char_Db[c].end
           /\ \A d \in DOMAIN Db[sv].chars : c < d => Char_Db[c].end < d
<1> DEFINE later == {d \in DOMAIN Db[sv].chars : d > c}
<1> DEFINE end == Db[sv].chars[c].end
<1>1. /\ end = IF later = {} THEN Db[sv].end ELSE Min(later) - 1
      /\ Db[sv].chars[c].value \in (c + 1)..end
      /\ Db[sv].chars[c].descs \subseteq (Db[sv].chars[c].value + 1)..end
  BY CharacteristicAssumption, DescriptorAssumption
<1>2. c \in DOMAIN Char_Db /\ Char_Db[c] = Db[sv].chars[c] /\ sv <= c
  BY CharacteristicsOfServer, OneService
<1>3. c \in Nat /\ sv \in Nat /\ Db[sv].end \in Nat /\ Db[sv].end <= MaxHandle /\ MaxHandle \in Nat
      /\ DOMAIN Db[sv].chars \in SUBSET Handle
      /\ \A d \in DOMAIN Db[sv].chars : d \in Nat /\ d <= Db[sv].end
  <2>1. ASSUME NEW d \in DOMAIN Db[sv].chars PROVE d \in Handle /\ d \in Nat /\ d <= Db[sv].end
    BY OneService, ServerHandles, Handles
  <2>2. Db[sv].end \in Handle /\ Db[sv].end \in Nat /\ sv \in Nat /\ MaxHandle \in Nat
    BY ServerHandles, Handles
  <2>3. Db[sv].end <= MaxHandle
    BY <2>2 DEF Handle
  <2>4. QED
    BY <2>1, <2>2, <2>3
<1>4. later # {} => Min(later) \in later /\ \A d \in later : Min(later) <= d
  BY <1>3, HandlesHaveMin
<1>5. end \in Nat /\ end <= Db[sv].end /\ \A d \in later : end < d
  <2>1. CASE later = {}
    BY <1>1, <1>3, <2>1
  <2>2. CASE later # {}
    <3>1. /\ Min(later) \in Nat /\ Min(later) > c /\ Min(later) <= Db[sv].end
          /\ \A d \in later : d \in Nat /\ Min(later) <= d
      BY <1>3, <1>4, <2>2
    <3>2. end = Min(later) - 1
      BY <1>1, <2>2
    <3> HIDE DEF later, end
    <3>3. QED
      BY <1>3, <3>1, <3>2
  <2>3. QED
    BY <2>1, <2>2
<1>6. end \in Handle
  BY <1>3, <1>5 DEF Handle
<1>7. \A d \in DOMAIN Db[sv].chars : c < d => end < d
  BY <1>3, <1>5
<1> HIDE DEF later, end
<1>8. Char_Db[c].end = end
  BY <1>2 DEF end
<1>9. /\ Char_Db[c].value \in Nat /\ c < Char_Db[c].value /\ Char_Db[c].value <= end
      /\ \A d \in Char_Db[c].descs : d \in Nat /\ Char_Db[c].value < d /\ d <= end
  BY <1>1, <1>2, <1>3, <1>5
<1>10. QED
  BY <1>2, <1>3, <1>5, <1>6, <1>7, <1>8, <1>9

LEMMA CharacteristicsApart ==
    ASSUME NEW c \in DOMAIN Char_Db, NEW d \in DOMAIN Char_Db, c < d
    PROVE  Char_Db[c].end < d
<1>1. PICK sv \in DOMAIN Db : c \in DOMAIN Db[sv].chars
  BY CharacteristicsOfServer
<1>2. PICK other \in DOMAIN Db : d \in DOMAIN Db[other].chars
  BY CharacteristicsOfServer
<1>3. CASE sv = other
  BY <1>1, <1>2, <1>3, CharacteristicRange
<1>4. CASE sv # other
  <2>1. /\ c \in Nat /\ d \in Nat /\ sv \in Nat /\ other \in Nat
        /\ Db[sv].end \in Nat /\ Db[other].end \in Nat /\ Char_Db[c].end \in Nat
        /\ sv <= c /\ Char_Db[c].end <= Db[sv].end
        /\ other <= d /\ d <= Db[other].end
    BY <1>1, <1>2, CharacteristicRange, OneService
  <2>2. (sv < other => Db[sv].end < other) /\ (other < sv => Db[other].end < sv)
    BY DbAssumption
  <2>3. QED
    BY <1>4, <2>1, <2>2
<1>5. QED
  BY <1>3, <1>4

LEMMA OfCharacteristic ==
    ASSUME NEW c \in DOMAIN Char_Db, NEW a \in Attributes, c < a, a <= Char_Db[c].end
    PROVE  a = Char_Db[c].value \/ a \in Char_Db[c].descs
<1>1. PICK sv \in DOMAIN Db : c \in DOMAIN Db[sv].chars
  BY CharacteristicsOfServer
<1>2. /\ c \in Nat /\ sv \in Nat /\ a \in Nat /\ sv <= c /\ Char_Db[c].end \in Nat
      /\ Db[sv].end \in Nat /\ Char_Db[c].end <= Db[sv].end
  BY <1>1, CharacteristicRange, ServerHandles, Handles
<1>3. a \notin DOMAIN Db
  <2>1. SUFFICES ASSUME a \in DOMAIN Db PROVE FALSE
    OBVIOUS
  <2>2. sv < a => Db[sv].end < a
    BY <2>1, DbAssumption
  <2>3. QED
    BY <1>2, <2>2
<1>4. a \notin DOMAIN Char_Db
  BY <1>2, CharacteristicsApart
<1>5. PICK d \in DOMAIN Char_Db : a = Char_Db[d].value \/ a \in Char_Db[d].descs
  BY <1>3, <1>4 DEF Attributes
<1>6. d \in Nat /\ d < a /\ a <= Char_Db[d].end /\ Char_Db[d].end \in Nat
  <2>1. PICK other \in DOMAIN Db : d \in DOMAIN Db[other].chars
    BY CharacteristicsOfServer
  <2>2. /\ d \in Nat /\ d < Char_Db[d].value /\ Char_Db[d].value <= Char_Db[d].end
        /\ Char_Db[d].value \in Nat /\ Char_Db[d].end \in Nat
        /\ \A x \in Char_Db[d].descs : Char_Db[d].value < x /\ x <= Char_Db[d].end
    BY <2>1, CharacteristicRange
  <2>3. QED
    BY <1>2, <1>5, <2>2
<1>7. (c < d => Char_Db[c].end < d) /\ (d < c => Char_Db[d].end < c)
  BY CharacteristicsApart
<1>8. c = d
  BY <1>2, <1>6, <1>7
<1>9. QED
  BY <1>5, <1>8

\* A response to a discovery of descriptors, in whatever range it was asked for.
LEMMA DescriptorPage ==
    ASSUME NEW c \in DOMAIN Char_Db, NEW req, req.start \in Handle,
           req.end = Char_Db[c].end,
           NEW page \in Pages(Matches(req, Attributes)),
           NEW new, new = page \ {Char_Db[c].value}
    PROVE  /\ new \in SUBSET Handle
           /\ c < req.start => new \subseteq Char_Db[c].descs
           /\ new # {} =>
                 /\ Max(new) \in new /\ Max(new) <= Char_Db[c].end
                 /\ \A d \in Char_Db[c].descs : req.start <= d /\ d <= Max(new) => d \in new
<1> DEFINE matches == Matches(req, Attributes)
<1> DEFINE value == Char_Db[c].value
<1>1. PICK sv \in DOMAIN Db : c \in DOMAIN Db[sv].chars
  BY CharacteristicsOfServer
<1>2. /\ c \in Nat /\ Char_Db[c].end \in Handle /\ Char_Db[c].end \in Nat /\ value \in Nat
      /\ c < value /\ value <= Char_Db[c].end
      /\ \A d \in Char_Db[c].descs : d \in Nat /\ value < d /\ d <= Char_Db[c].end
  BY <1>1, CharacteristicRange
<1>3. /\ page # {} /\ page \subseteq Attributes /\ page \in SUBSET Handle
      /\ \A h \in page : req.start <= h /\ h <= req.end
      /\ Max(page) \in page /\ \A h \in page : h <= Max(page)
      /\ req.start \in Nat /\ req.start # 0
  BY <1>2, PageOfMatches, ServerHandles, Handles
<1>4. ASSUME c < req.start, NEW h \in page, h # value PROVE h \in Char_Db[c].descs
  <2>1. h \in Nat /\ c < h /\ h <= Char_Db[c].end
    BY <1>2, <1>3, <1>4, Handles
  <2>2. QED
    BY <1>3, <1>4, <2>1, OfCharacteristic
<1>5. ASSUME NEW d \in Char_Db[c].descs, req.start <= d PROVE d \in matches
  <2>1. d \in Attributes
    BY DEF Attributes
  <2>2. QED
    BY <1>2, <1>3, <1>5, <2>1 DEF Matches
<1>6. new \in SUBSET Handle
  BY <1>3
<1>7. new # {} => Max(new) \in new /\ \A h \in new : h <= Max(new)
  BY <1>6, HandlesHaveMax
<1>8. ASSUME new # {} PROVE Max(new) <= Char_Db[c].end
  BY <1>3, <1>7, <1>8
<1>9. ASSUME new # {}, NEW d \in Char_Db[c].descs, req.start <= d, d <= Max(new) PROVE d \in new
  <2>1. Max(new) <= Max(page) /\ Max(new) \in Nat /\ Max(page) \in Nat /\ d \in Nat
    BY <1>2, <1>3, <1>6, <1>7, <1>9, Handles
  <2>2. d <= Max(page)
    BY <1>9, <2>1
  <2>3. d \in matches /\ matches \in SUBSET Handle
    BY <1>5, <1>9, ServerHandles DEF Matches
  <2> HIDE DEF matches
  <2>4. page \in Pages(matches)
    BY DEF matches
  <2>5. d \in page
    BY <2>2, <2>3, <2>4, PageIsPrefix
  <2>6. d # value
    BY <1>2
  <2>7. QED
    BY <2>5, <2>6
<1>10. QED
  BY <1>4, <1>6, <1>7, <1>8, <1>9

-----------------------------------------------------------------------------
(***************************************************************************)
(* The descriptors known are the characteristic's own, as long as no       *)
(* response held its value alone; a service whose characteristics have     *)
(* been announced has them all, and none of them is looked for; a          *)
(* discovery of descriptors asks for the rest of those of a characteristic *)
(* and is out before any discovery that could find the characteristic      *)
(* again.  Requests left over from an earlier link without their entry are *)
(* not in Out: nothing is expected of them.                                *)
(***************************************************************************)
OwnDescriptors ==
    \A c \in DOMAIN characteristic_to_service :
        c \in bare \/ Char(c).descs \subseteq Char_Db[c].descs

Whole ==
    \A sv \in announced :
        /\ sv \in DOMAIN services
        /\ DOMAIN services[sv].chars = DOMAIN Db[sv].chars
        /\ \A r \in Out : ~ (r.op = "characteristics" /\ pending[r.id] = sv)

Describes(r, c) ==
    /\ c \in DOMAIN Char_Db /\ r.end = Char_Db[c].end /\ r.start # 0
    /\ c < r.start \/ c \in bare
    /\ Known(c) => /\ ServiceOf(c) \in announced
                   /\ \A d \in Char_Db[c].descs : d < r.start => d \in Char(c).descs

Precedes(r, c) ==
    \A s \in Out :
        /\ s.op = "descriptors" /\ pending[s.id] = c => s = r
        /\ s.op = "characteristics" /\ c \in DOMAIN Db[pending[s.id]].chars => r.id < s.id

DescriptorsAhead ==
    \A r \in Out : r.op = "descriptors" =>
        Describes(r, pending[r.id]) /\ Precedes(r, pending[r.id])

Described == OwnDescriptors /\ Whole /\ DescriptorsAhead

(***************************************************************************)
(* A step that finds no characteristic and no descriptor.                  *)
(***************************************************************************)
SameNumbers ==
    /\ DOMAIN services \subseteq DOMAIN services'
    /\ \A sv \in DOMAIN services : DOMAIN services'[sv].chars = DOMAIN services[sv].chars

SameDescriptors ==
    /\ characteristic_to_service' = characteristic_to_service
    /\ announced' = announced /\ bare' = bare
    /\ \A c \in DOMAIN characteristic_to_service : Char(c)'.descs = Char(c).descs

LEMMA WholeStays ==
    ASSUME Whole, SameNumbers, announced' = announced, Keeps("characteristics")
    PROVE  Whole'
<1> SUFFICES ASSUME NEW sv \in announced'
             PROVE  /\ sv \in DOMAIN services'
                    /\ DOMAIN services'[sv].chars = DOMAIN Db[sv].chars
                    /\ \A r \in Out' : ~ (r.op = "characteristics" /\ pending'[r.id] = sv)
  BY DEF Whole
<1>1. /\ sv \in DOMAIN services /\ DOMAIN services[sv].chars = DOMAIN Db[sv].chars
      /\ \A r \in Out : ~ (r.op = "characteristics" /\ pending[r.id] = sv)
  BY DEF Whole
<1>2. \A r \in Out' : r.op = "characteristics" => r \in Out /\ pending'[r.id] = pending[r.id]
  BY DEF Keeps, Unremembered
<1>3. QED
  BY <1>1, <1>2 DEF SameNumbers

LEMMA AheadStays ==
    ASSUME DescriptorsAhead, Keeps("descriptors"), Keeps("characteristics"),
           characteristic_to_service' = characteristic_to_service,
           announced' = announced, bare \subseteq bare',
           \A r \in Out' : r.op = "descriptors" /\ Known(pending[r.id]) =>
              Char(pending[r.id]).descs \subseteq
                 services'[ServiceOf(pending[r.id])].chars[pending[r.id]].descs
    PROVE  DescriptorsAhead'
<1> SUFFICES ASSUME NEW r \in Out', r.op = "descriptors", NEW c, c = pending'[r.id]
             PROVE  Describes(r, c)' /\ Precedes(r, c)'
  BY DEF DescriptorsAhead, Describes, Precedes, Known
<1>1. r \in Out /\ pending'[r.id] = pending[r.id]
  BY DEF Keeps, Unremembered
<1>2. Describes(r, c) /\ Precedes(r, c)
  BY <1>1 DEF DescriptorsAhead
<1>3. Known(c)' = Known(c) /\ ServiceOf(c)' = ServiceOf(c)
  BY DEF Known, ServiceOf
<1>4. Known(c) => Char(c).descs \subseteq Char(c)'.descs
  BY <1>1, <1>3 DEF Char
<1>5. Describes(r, c)'
  BY <1>2, <1>3, <1>4 DEF Describes
<1>6. ASSUME NEW s \in Out'
      PROVE  /\ s.op = "descriptors" /\ pending'[s.id] = c => s = r
             /\ s.op = "characteristics" /\ c \in DOMAIN Db[pending'[s.id]].chars => r.id < s.id
  <2>1. s.op \in {"descriptors", "characteristics"} =>
           s \in Out /\ pending'[s.id] = pending[s.id]
    BY <1>6 DEF Keeps, Unremembered
  <2>2. QED
    BY <1>2, <2>1 DEF Precedes
<1>7. QED
  BY <1>5, <1>6 DEF Precedes

LEMMA DescribedStays ==
    ASSUME Described, SameNumbers, SameDescriptors,
           Keeps("descriptors"), Keeps("characteristics")
    PROVE  Described'
<1>1. Whole'
  BY WholeStays DEF Described, SameDescriptors
<1>2. \A c : Known(c) => ServiceOf(c)' = ServiceOf(c)
  BY DEF SameDescriptors, ServiceOf
<1>3. ASSUME NEW r \in Out', r.op = "descriptors", NEW c, c = pending[r.id], Known(c)
      PROVE  Char(c).descs \subseteq services'[ServiceOf(c)].chars[c].descs
  <2>1. Char(c)'.descs = Char(c).descs /\ ServiceOf(c)' = ServiceOf(c)
    BY <1>2, <1>3 DEF SameDescriptors, Known
  <2>2. QED
    BY <2>1 DEF Char
<1>4. DescriptorsAhead'
  BY <1>3, AheadStays DEF Described, SameDescriptors
<1>5. OwnDescriptors'
  BY DEF Described, OwnDescriptors, SameDescriptors
<1>6. QED
  BY <1>1, <1>4, <1>5 DEF Described

LEMMA NothingFound ==
    ASSUME UNCHANGED known
    PROVE  SameNumbers /\ SameDescriptors
BY DEF SameNumbers, SameDescriptors, known, maps, Char, ServiceOf

\* A request that finds nothing.
LEMMA OtherAsked ==
    ASSUME Queued, Described, UNCHANGED known,
           NEW op \in Operation \ {"descriptors", "characteristics"},
           NEW start, NEW end, NEW value, NEW entry, DOMAIN entry \subseteq {next_id},
           Ask(MakeRequest(op, start, end, value), entry)
    PROVE  Described'
<1>1. Keeps("descriptors") /\ Keeps("characteristics")
  BY AskKeeps
<1>2. QED
  BY <1>1, NothingFound, DescribedStays

LEMMA OtherFinished ==
    ASSUME Queued, Described, requests # <<>>, UNCHANGED known, Finish
    PROVE  Described'
BY FinishKeeps, NothingFound, DescribedStays

(***************************************************************************)
(* The application's calls.                                                *)
(***************************************************************************)
LEMMA CallsDescribed ==
    ASSUME Queued, Described, NEW char, NEW enabled,
           \/ ReadCharacteristic(char)
           \/ WriteCharacteristic(char)
           \/ SetNotification(char, enabled) /\ ~ FindDescriptors(char)
    PROVE  Described'
<1>1. CASE ReadCharacteristic(char)
  BY <1>1, OtherAsked, EntryOrNone DEF ReadCharacteristic, Operation
<1>2. CASE WriteCharacteristic(char)
  BY <1>2, OtherAsked, EntryOrNone DEF WriteCharacteristic, Operation
<1>3. CASE SetNotification(char, enabled) /\ ~ FindDescriptors(char)
  BY <1>3, OtherAsked, EntryOrNone DEF SetNotification, Operation
<1>4. QED
  BY <1>1, <1>2, <1>3

LEMMA DescriptorCallsDescribed ==
    ASSUME Queued, Described, NEW desc, ReadDescriptor(desc) \/ WriteDescriptor(desc)
    PROVE  Described'
<1>1. CASE ReadDescriptor(desc)
  BY <1>1, OtherAsked, EntryOrNone DEF ReadDescriptor, Operation
<1>2. CASE WriteDescriptor(desc)
  BY <1>2, OtherAsked, EntryOrNone DEF WriteDescriptor, Operation
<1>3. QED
  BY <1>1, <1>2

LEMMA ByUuidDescribed ==
    ASSUME Queued, Described, NEW n \in 1..MaxFilter,
           NEW uuids \in [1..n -> {NullUuid, SomeUuid}], DiscoverServicesByUuid(uuids)
    PROVE  Described'
<1>1. UNCHANGED known
  BY ByUuidAsks
<1>2. Keeps("descriptors") /\ Keeps("characteristics")
  BY ByUuidKeeps
<1>3. QED
  BY <1>1, <1>2, NothingFound, DescribedStays

LEMMA LinkDescribed ==
    ASSUME Queued, Described, Connect \/ Disconnect
    PROVE  Described'
<1>1. UNCHANGED known
  BY DEF Connect, Disconnect
<1>2. Keeps("descriptors") /\ Keeps("characteristics")
  BY LinkKeeps
<1>3. QED
  BY <1>1, <1>2, NothingFound, DescribedStays

LEMMA DiscoverServicesDescribed ==
    ASSUME Queued, Described, DiscoverServices
    PROVE  Described'
<1>1. /\ services' = EmptyMap /\ characteristic_to_service' = EmptyMap
      /\ announced' = {} /\ bare' = bare
      /\ Ask(MakeRequest("primary", 1, MaxHandle, "none"), EmptyMap)
  BY DEF DiscoverServices
<1>2. Keeps("descriptors") /\ Keeps("characteristics")
  BY <1>1, AskKeeps, EntryOrNone
<1>3. OwnDescriptors' /\ Whole'
  BY <1>1, NoEntries DEF OwnDescriptors, Whole
<1>4. \A c : ~ Known(c)'
  BY <1>1, NoEntries DEF Known
<1>5. ASSUME NEW r \in Out', r.op = "descriptors", NEW c, c = pending'[r.id]
      PROVE  Describes(r, c)' /\ Precedes(r, c)'
  <2>1. r \in Out /\ pending'[r.id] = pending[r.id]
    BY <1>2, <1>5 DEF Keeps, Unremembered
  <2>2. Describes(r, c) /\ Precedes(r, c)
    BY <1>5, <2>1 DEF Described, DescriptorsAhead
  <2>3. \A s \in Out' : s.op \in {"descriptors", "characteristics"} =>
           s \in Out /\ pending'[s.id] = pending[s.id]
    BY <1>2 DEF Keeps, Unremembered
  <2>4. QED
    BY <1>1, <1>4, <2>2, <2>3 DEF Describes, Precedes
<1>6. DescriptorsAhead'
  BY <1>5 DEF DescriptorsAhead
<1>7. QED
  BY <1>3, <1>6 DEF Described

(***************************************************************************)
(* What is known of a characteristic, and when its end is the last word.   *)
(***************************************************************************)
LEMMA KnownCharacteristic ==
    ASSUME Agreed, NEW c, Known(c)
    PROVE  /\ Held(c) /\ ServiceOf(c) \in DOMAIN services /\ ServiceOf(c) \in DOMAIN Db
           /\ c \in DOMAIN services[ServiceOf(c)].chars
           /\ c \in DOMAIN Db[ServiceOf(c)].chars /\ c \in DOMAIN Char_Db
           /\ Char(c).value = Char_Db[c].value
           /\ \A sv \in DOMAIN Db : c \in DOMAIN Db[sv].chars => sv = ServiceOf(c)
<1>1. /\ Held(c) /\ ServiceOf(c) \in DOMAIN services
      /\ c \in DOMAIN services[ServiceOf(c)].chars
  BY DEF Agreed, Mapped, Known, Held
<1>2. /\ ServiceOf(c) \in DOMAIN Db /\ c \in DOMAIN Db[ServiceOf(c)].chars
      /\ services[ServiceOf(c)].chars[c].value = Char_Db[c].value
  BY <1>1 DEF Agreed, OfServer
<1>3. QED
  BY <1>1, <1>2, OneService DEF Char

LEMMA EndIsFinal ==
    ASSUME Agreed, Surveyed, Whole, NEW c, Known(c), ServiceOf(c) \in announced
    PROVE  Char(c).end = Char_Db[c].end
<1> DEFINE sv == ServiceOf(c)
<1>1. /\ sv \in DOMAIN services /\ sv \in DOMAIN Db
      /\ c \in DOMAIN services[sv].chars /\ c \in DOMAIN Db[sv].chars /\ c \in DOMAIN Char_Db
  BY KnownCharacteristic
<1>2. DOMAIN services[sv].chars = DOMAIN Db[sv].chars
  BY DEF Whole
<1>3. Char(c).end = EndIn(DOMAIN services[sv].chars, c, Db[sv].end)
  BY <1>1 DEF Surveyed, Tiled, Char
<1>4. Db[sv].chars[c].end = EndIn(DOMAIN Db[sv].chars, c, Db[sv].end)
  BY <1>1, CharacteristicEnds
<1>5. Char_Db[c] = Db[sv].chars[c]
  BY <1>1, CharacteristicsOfServer, OneService
<1>6. QED
  BY <1>2, <1>3, <1>4, <1>5

\* No characteristic of a service that has been announced is looked for.
LEMMA NotLookedFor ==
    ASSUME Agreed, Whole, NEW c, Known(c), ServiceOf(c) \in announced, NEW s \in Out,
           s.op = "characteristics"
    PROVE  c \notin DOMAIN Db[pending[s.id]].chars
<1>1. pending[s.id] \in DOMAIN Db
  BY DEF Agreed, Ahead, CharacteristicsAhead, OfServer
<1>2. pending[s.id] # ServiceOf(c)
  BY DEF Whole
<1>3. QED
  BY <1>1, <1>2, KnownCharacteristic

\* The descriptors of one characteristic are set.
LEMMA OneDescribed ==
    ASSUME Typed, Agreed, NEW char, Known(char), NEW descs \in SUBSET Handle,
           services' = [services EXCEPT ![ServiceOf(char)].chars[char].descs = descs],
           characteristic_to_service' = characteristic_to_service
    PROVE  /\ SameNumbers
           /\ Char(char)'.descs = descs
           /\ \A c \in DOMAIN characteristic_to_service :
                 c # char => Char(c)'.descs = Char(c).descs
<1> DEFINE sv == ServiceOf(char)
<1> DEFINE new == SetDescs(services, sv, char, descs)
<1>1. sv \in DOMAIN services /\ char \in DOMAIN services[sv].chars /\ ServicesTyped(services)
  BY KnownCharacteristic DEF Typed, KnownTyped
<1>2. services' = new
  BY <1>1, SetByPath
<1>3. /\ DOMAIN new = DOMAIN services /\ new[sv].chars[char].descs = descs
      /\ \A s \in DOMAIN services :
            /\ DOMAIN new[s].chars = DOMAIN services[s].chars
            /\ \A d \in DOMAIN services[s].chars :
                  s # sv \/ d # char => new[s].chars[d] = services[s].chars[d]
  BY <1>1, DescsSet
<1> HIDE DEF new
<1>4. SameNumbers
  BY <1>2, <1>3 DEF SameNumbers
<1>5. \A c : ServiceOf(c)' = ServiceOf(c)
  BY DEF ServiceOf
<1>6. Char(char)'.descs = descs
  BY <1>2, <1>3, <1>5 DEF Char
<1>7. ASSUME NEW c \in DOMAIN characteristic_to_service, c # char
      PROVE  Char(c)'.descs = Char(c).descs
  <2>1. ServiceOf(c) \in DOMAIN services /\ c \in DOMAIN services[ServiceOf(c)].chars
    BY KnownCharacteristic DEF Known
  <2>2. new[ServiceOf(c)].chars[c] = services[ServiceOf(c)].chars[c]
    BY <1>3, <1>7, <2>1
  <2>3. QED
    BY <1>2, <1>5, <2>2 DEF Char
<1>8. QED
  BY <1>4, <1>6, <1>7

LEMMA HeadIsFirst ==
    ASSUME Queued, requests # <<>>, NEW r \in Out, r # Head(requests)
    PROVE  Head(requests).id < r.id
<1>1. PICK i \in DOMAIN requests : r = requests[i]
  BY DEF Out, Range
<1>2. Head(requests) = requests[1] /\ 1 \in DOMAIN requests
  BY HeadOfQueue
<1>3. i \in Nat /\ i >= 1 /\ i # 1
  BY <1>1, <1>2 DEF Queued
<1>4. QED
  BY <1>1, <1>2, <1>3 DEF Queued, Numbered

LEMMA DiscoverCharacteristicsDescribed ==
    ASSUME Typed, Agreed, Described, NEW service \in DOMAIN services,
           DiscoverCharacteristics(service)
    PROVE  Described'
<1> DEFINE old == services[service].chars
<1> DEFINE req == MakeRequest("characteristics", service, services[service].end, "none")
<1>1. /\ services' = SetChars(services, service, EmptyMap)
      /\ characteristic_to_service' = Without(characteristic_to_service, DOMAIN old)
      /\ announced' = announced \ {service} /\ bare' = bare
      /\ Ask(req, Entry(next_id, service))
  BY DEF DiscoverCharacteristics, ForgetCharacteristics, SetChars
<1>2. /\ DOMAIN services' = DOMAIN services /\ services'[service].chars = EmptyMap
      /\ \A s \in DOMAIN services : s # service => services'[s].chars = services[s].chars
  BY <1>1, NoCharacteristics, CharsSet DEF Typed, KnownTyped
<1>3. service \in Handle /\ services[service].end \in Handle
  BY DEF Typed, KnownTyped, ServicesTyped
<1>4. /\ "characteristics" \in Operation /\ "none" \in RequestValue
      /\ "characteristics" \notin Unremembered /\ "descriptors" \notin Unremembered
  BY DEF Operation, RequestValue, Unremembered
<1>5. req.id = next_id /\ req.op = "characteristics"
  BY DEF MakeRequest
<1>6. /\ Out' = Out \cup {req}
      /\ \A r \in Out : r.op \notin Unremembered => pending'[r.id] = pending[r.id]
      /\ pending'[next_id] = service
  <2>1. EntryFor("characteristics", Entry(next_id, service))
        /\ Entry(next_id, service)[next_id] = service
    BY <1>3, EntriesFor, OneEntry
  <2>2. Queued
    BY DEF Typed
  <2>3. QED
    BY <1>1, <1>3, <1>4, <2>1, <2>2, OutAfterAsk
<1> HIDE DEF req
\* What is still known was known, and is not of this service.
<1>8. ASSUME NEW c, Known(c)'
      PROVE  /\ Known(c) /\ c \notin DOMAIN old /\ ServiceOf(c)' = ServiceOf(c)
             /\ ServiceOf(c) # service /\ Char(c)' = Char(c)
  <2>1. Known(c) /\ c \notin DOMAIN old /\ ServiceOf(c)' = ServiceOf(c)
    <3> HIDE DEF old
    <3>1. characteristic_to_service' = Without(characteristic_to_service, DOMAIN old)
      BY <1>1
    <3>2. /\ DOMAIN characteristic_to_service' = DOMAIN characteristic_to_service \ DOMAIN old
          /\ \A k \in DOMAIN characteristic_to_service \ DOMAIN old :
                characteristic_to_service'[k] = characteristic_to_service[k]
      BY <3>1 DEF Without, Restrict
    <3>3. c \in DOMAIN characteristic_to_service'
      BY <1>8 DEF Known
    <3>4. QED
      BY <3>2, <3>3 DEF Known, ServiceOf
  <2>2. ServiceOf(c) \in DOMAIN services /\ c \in DOMAIN services[ServiceOf(c)].chars
    BY <2>1, KnownCharacteristic
  <2>3. ServiceOf(c) # service
    BY <2>1, <2>2
  <2>4. QED
    BY <1>2, <2>1, <2>2, <2>3 DEF Char
<1>9. OwnDescriptors'
  BY <1>1, <1>8 DEF Described, OwnDescriptors, Known
<1>10. Whole'
  <2>1. ASSUME NEW sv \in announced'
        PROVE  /\ sv \in DOMAIN services'
               /\ DOMAIN services'[sv].chars = DOMAIN Db[sv].chars
               /\ \A r \in Out' : ~ (r.op = "characteristics" /\ pending'[r.id] = sv)
    <3>1. sv \in announced /\ sv # service
      BY <1>1
    <3>2. /\ sv \in DOMAIN services /\ DOMAIN services[sv].chars = DOMAIN Db[sv].chars
          /\ \A r \in Out : ~ (r.op = "characteristics" /\ pending[r.id] = sv)
      BY <3>1 DEF Described, Whole
    <3>3. QED
      BY <1>2, <1>4, <1>5, <1>6, <3>1, <3>2
  <2>2. QED
    BY <2>1 DEF Whole
<1>11. ASSUME NEW r \in Out', r.op = "descriptors", NEW c, c = pending'[r.id]
       PROVE  Describes(r, c)' /\ Precedes(r, c)'
  <2>1. r \in Out /\ c = pending[r.id]
    BY <1>4, <1>5, <1>6, <1>11
  <2>2. Describes(r, c) /\ Precedes(r, c)
    BY <1>11, <2>1 DEF Described, DescriptorsAhead
  <2>3. Describes(r, c)'
    BY <1>1, <1>8, <2>2 DEF Describes
  <2>4. ASSUME NEW s \in Out', s.op = "descriptors", pending'[s.id] = c PROVE s = r
    BY <1>4, <1>5, <1>6, <1>11, <2>2, <2>4 DEF Precedes
  <2>5. ASSUME NEW s \in Out', s.op = "characteristics", c \in DOMAIN Db[pending'[s.id]].chars
        PROVE  r.id < s.id
    <3>1. CASE s = req
      BY <1>5, <2>1, <3>1, OutIsTyped DEF Typed
    <3>2. CASE s # req
      <4>1. s \in Out /\ pending'[s.id] = pending[s.id]
        BY <1>4, <1>6, <2>5, <3>2
      <4>2. QED
        BY <2>2, <2>5, <4>1 DEF Precedes
    <3>3. QED
      BY <3>1, <3>2
  <2>6. QED
    BY <2>3, <2>4, <2>5 DEF Precedes
<1>12. DescriptorsAhead'
  BY <1>11 DEF DescriptorsAhead
<1>13. QED
  BY <1>9, <1>10, <1>12 DEF Described

LEMMA FindDescriptorsDescribed ==
    ASSUME Disciplined, Typed, Agreed, Surveyed, Described,
           NEW char, Known(char), FindDescriptors(char)
    PROVE  Described'
<1> DEFINE req == MakeRequest("descriptors", Following(char), Char(char).end, "none")
<1>1. /\ ServiceOf(char) \in announced /\ ~ Pending("descriptors", char)
      /\ services' = [services EXCEPT ![ServiceOf(char)].chars[char].descs = {}]
      /\ Ask(req, Entry(next_id, char))
      /\ characteristic_to_service' = characteristic_to_service
      /\ announced' = announced /\ bare' = bare
  BY DEF FindDescriptors
<1>2. /\ "descriptors" \in Operation /\ "none" \in RequestValue
      /\ "characteristics" \notin Unremembered /\ "descriptors" \notin Unremembered
      /\ {} \in SUBSET Handle
  BY DEF Operation, RequestValue, Unremembered
<1>3. /\ Held(char) /\ char \in Handle /\ Char(char).end \in Handle
      /\ Following(char) \in Handle
  BY KnownCharacteristic, HeldCharacteristic, Handles DEF Typed
<1>4. /\ SameNumbers /\ Char(char)'.descs = {}
      /\ \A c \in DOMAIN characteristic_to_service :
            c # char => Char(c)'.descs = Char(c).descs
  BY <1>1, <1>2, OneDescribed
<1>5. \A c : Known(c)' = Known(c) /\ ServiceOf(c)' = ServiceOf(c)
  BY <1>1 DEF Known, ServiceOf
<1>6. /\ Out' = Out \cup {req}
      /\ \A r \in Out : r.op \notin Unremembered => pending'[r.id] = pending[r.id]
      /\ pending'[next_id] = char
  <2>1. EntryFor("descriptors", Entry(next_id, char)) /\ Entry(next_id, char)[next_id] = char
    BY <1>3, EntriesFor, OneEntry
  <2>2. Queued
    BY DEF Typed
  <2>3. QED
    BY <1>1, <1>2, <1>3, <2>1, <2>2, OutAfterAsk
<1>7. /\ req.id = next_id /\ req.op = "descriptors" /\ req.start = Following(char)
      /\ req.end = Char(char).end
  BY DEF MakeRequest
<1>8. Keeps("characteristics")
  BY <1>1, AskKeeps, EntryOrNone DEF Typed
<1> HIDE DEF req
<1>9. Whole'
  BY <1>1, <1>4, <1>8, WholeStays DEF Described
<1>10. OwnDescriptors'
  <2>1. ASSUME NEW c \in DOMAIN characteristic_to_service'
        PROVE  c \in bare' \/ Char(c)'.descs \subseteq Char_Db[c].descs
    BY <1>1, <1>4, <2>1 DEF Described, OwnDescriptors
  <2>2. QED
    BY <2>1 DEF OwnDescriptors
\* No other discovery is out for this characteristic.
<1>12. \A s \in Out : ~ (s.op = "descriptors" /\ pending[s.id] = char)
  BY <1>1, <1>2, PendingOut
<1>13. \A s \in Out : s.op = "characteristics" => char \notin DOMAIN Db[pending[s.id]].chars
  BY <1>1, NotLookedFor DEF Described
<1>14. /\ char \in DOMAIN Char_Db /\ char < Following(char) /\ Char(char).end = Char_Db[char].end
       /\ Following(char) # 0
       /\ \A d \in Char_Db[char].descs : ~ (d < Following(char))
  <2>1. /\ char \in DOMAIN Char_Db /\ ServiceOf(char) \in DOMAIN Db
        /\ char \in DOMAIN Db[ServiceOf(char)].chars
    BY KnownCharacteristic
  <2>2. Char(char).end = Char_Db[char].end
    BY <1>1, EndIsFinal DEF Described
  <2>3. /\ char \in Nat /\ Char_Db[char].end \in Handle /\ Char_Db[char].end \in Nat
        /\ Char_Db[char].value \in Nat
        /\ char < Char_Db[char].value /\ Char_Db[char].value <= Char_Db[char].end
        /\ \A d \in Char_Db[char].descs : d \in Nat /\ Char_Db[char].value < d
    BY <2>1, CharacteristicRange
  <2>4. Following(char) = char + 1
    <3>1. MaxHandle \in Nat /\ Char_Db[char].end <= MaxHandle
      BY <2>3, Handles DEF Handle
    <3>2. char + 1 <= MaxHandle
      BY <2>3, <3>1
    <3>3. char # MaxHandle
      BY <2>3, <3>1, <3>2
    <3>4. QED
      BY <1>3, <3>3, FollowingTheLast, FollowingIsNext
  <2>5. QED
    BY <2>1, <2>2, <2>3, <2>4
<1>15. ASSUME NEW r \in Out', r.op = "descriptors", NEW c, c = pending'[r.id]
       PROVE  Describes(r, c)' /\ Precedes(r, c)'
  <2>1. CASE r = req
    <3>1. c = char
      BY <1>6, <1>7, <1>15, <2>1
    <3>2. Describes(r, c)'
      BY <1>1, <1>5, <1>7, <1>14, <2>1, <3>1 DEF Describes
    <3>3. ASSUME NEW s \in Out', s # req, s.op \in {"descriptors", "characteristics"}
          PROVE  s \in Out /\ pending'[s.id] = pending[s.id]
      BY <1>2, <1>6, <3>3
    <3>4. Precedes(r, c)'
      BY <1>7, <1>12, <1>13, <2>1, <3>1, <3>3 DEF Precedes
    <3>5. QED
      BY <3>2, <3>4
  <2>2. CASE r # req
    <3>1. r \in Out /\ c = pending[r.id]
      BY <1>2, <1>6, <1>15, <2>2
    <3>2. Describes(r, c) /\ Precedes(r, c) /\ c # char
      BY <1>12, <1>15, <3>1 DEF Described, DescriptorsAhead
    <3>3. Describes(r, c)'
      BY <1>1, <1>4, <1>5, <3>2 DEF Describes, Known
    <3>4. ASSUME NEW s \in Out', s # req, s.op \in {"descriptors", "characteristics"}
          PROVE  s \in Out /\ pending'[s.id] = pending[s.id]
      BY <1>2, <1>6, <3>4
    <3>5. pending'[req.id] = char
      BY <1>6, <1>7
    <3>6. Precedes(r, c)'
      BY <1>7, <3>2, <3>4, <3>5 DEF Precedes
    <3>7. QED
      BY <3>3, <3>6
  <2>3. QED
    BY <2>1, <2>2
<1>16. DescriptorsAhead'
  BY <1>15 DEF DescriptorsAhead
<1>17. QED
  BY <1>9, <1>10, <1>16 DEF Described

LEMMA AppDescribed ==
    ASSUME Disciplined, Typed, Agreed, Surveyed, Described, App
    PROVE  Described'
<1>1. Queued
  BY DEF Typed
<1>2. CASE \E char \in DOMAIN characteristic_to_service :
              \/ DiscoverDescriptors(char)
              \/ ReadCharacteristic(char)
              \/ WriteCharacteristic(char)
              \/ \E enabled \in BOOLEAN : SetNotification(char, enabled)
  <2>1. PICK char \in DOMAIN characteristic_to_service :
              \/ DiscoverDescriptors(char)
              \/ ReadCharacteristic(char)
              \/ WriteCharacteristic(char)
              \/ \E enabled \in BOOLEAN : SetNotification(char, enabled)
    BY <1>2
  <2>2. CASE FindDescriptors(char)
    BY <2>2, FindDescriptorsDescribed DEF Known
  <2>3. CASE ReadCharacteristic(char) \/ WriteCharacteristic(char)
    BY <1>1, <2>3, CallsDescribed
  <2>4. CASE \E enabled \in BOOLEAN : SetNotification(char, enabled) /\ ~ FindDescriptors(char)
    BY <1>1, <2>4, CallsDescribed
  <2>5. DiscoverDescriptors(char) => FindDescriptors(char)
    BY DEF DiscoverDescriptors
  <2>6. QED
    BY <2>1, <2>2, <2>3, <2>4, <2>5
<1>3. QED
  BY <1>1, <1>2, LinkDescribed, DiscoverServicesDescribed, ByUuidDescribed,
     DiscoverCharacteristicsDescribed, DescriptorCallsDescribed DEF App

(***************************************************************************)
(* A service found keeps the characteristics it had, and nothing is learnt *)
(* of characteristics.                                                     *)
(***************************************************************************)
LEMMA PrimaryNumbers ==
    ASSUME Typed, Agreed, HandlePrimary
    PROVE  SameNumbers /\ SameDescriptors
<1>1. /\ connected /\ requests # <<>> /\ Head(requests).op = "primary"
      /\ characteristic_to_service' = characteristic_to_service
      /\ announced' = announced /\ bare' = bare
  BY DEF HandlePrimary, Answering, maps
<1>2. CASE UNCHANGED services
  BY <1>1, <1>2 DEF SameNumbers, SameDescriptors, Char, ServiceOf
<1>3. ASSUME NEW page \in Pages(Matches(Head(requests), DOMAIN Db)),
             services' = With(services, [sv \in page |-> [end |-> Db[sv].end, chars |-> EmptyMap]])
      PROVE  SameNumbers /\ SameDescriptors
  <2>1. Head(requests) \in Out /\ Head(requests).start # 0
        /\ Head(requests).start \in Handle
        /\ page \subseteq Handle /\ \A sv \in page : Head(requests).start <= sv
    <3>1. "primary" \in Unremembered
      BY DEF Unremembered
    <3>2. QED
      BY <1>1, <1>3, <3>1, HeadIsOut, PageOfMatches, HeadOfQueue, ServerHandles DEF Typed
  <2>2. ASSUME NEW sv \in DOMAIN services PROVE sv \notin page
    <3>1. sv < Head(requests).start /\ sv \in Nat /\ Head(requests).start \in Nat
      BY <1>1, <2>1, Handles DEF Agreed, Ahead, ServicesAhead, Typed, KnownTyped, ServicesTyped
    <3>2. ~ (Head(requests).start <= sv)
      BY <3>1
    <3>3. QED
      BY <2>1, <3>2
  <2>3. /\ DOMAIN services' = DOMAIN services \cup page
        /\ \A sv \in DOMAIN services : services'[sv] = services[sv]
    BY <1>3, <2>2 DEF With
  <2>4. SameNumbers
    BY <2>3 DEF SameNumbers
  <2>5. ASSUME NEW c \in DOMAIN characteristic_to_service PROVE Char(c)'.descs = Char(c).descs
    <3>1. ServiceOf(c) \in DOMAIN services /\ ServiceOf(c)' = ServiceOf(c)
      BY <1>1, <2>5, KnownCharacteristic DEF Known, ServiceOf
    <3>2. QED
      BY <2>3, <3>1 DEF Char
  <2>6. SameDescriptors
    BY <1>1, <2>5 DEF SameDescriptors
  <2>7. QED
    BY <2>4, <2>6
<1>4. QED
  BY <1>2, <1>3 DEF HandlePrimary

LEMMA PrimaryDescribed == ASSUME Typed, Agreed, Described, HandlePrimary PROVE Described'
<1>1. requests # <<>> /\ Queued
  BY DEF HandlePrimary, Answering, Typed
<1>2. CASE Finish
  BY <1>1, <1>2, FinishKeeps, PrimaryNumbers, DescribedStays
<1>3. ASSUME NEW start, AskMore(MakeRequest("primary", start, MaxHandle, "none"), EmptyMap)
      PROVE  Described'
  <2>1. Keeps("descriptors") /\ Keeps("characteristics")
    BY <1>1, <1>3, AskMoreKeeps, EntryOrNone
  <2>2. QED
    BY <2>1, PrimaryNumbers, DescribedStays
<1>4. QED
  BY <1>2, <1>3, Zenon DEF HandlePrimary

LEMMA ExtendedDescriptors ==
    ASSUME NEW service, NEW page, NEW c \in page
    PROVE  Extended(service, page)[c].descs = {}
<1>1. c \in DOMAIN Found(service, page) /\ Found(service, page)[c].descs = {}
  BY DEF Found
<1> DEFINE short == Shortened(service, page)
<1> DEFINE found == Found(service, page)
<1>2. Extended(service, page) = With(short, found)
  BY ExtendedIs
<1>3. c \in DOMAIN found /\ found[c].descs = {}
  BY <1>1
<1> HIDE DEF short, found
<1>4. With(short, found)[c] = found[c]
  BY <1>3 DEF With
<1>5. QED
  BY <1>2, <1>3, <1>4

\* The requests that are out after an answer to a discovery of characteristics.
CharacteristicAnswered(service) ==
    /\ \A r \in Out' : r.op = "descriptors" =>
          r \in Out \ {Head(requests)} /\ pending'[r.id] = pending[r.id]
    /\ \A r \in Out' : r.op = "characteristics" =>
          \/ r \in Out \ {Head(requests)} /\ pending'[r.id] = pending[r.id]
          \/ pending'[r.id] = service /\ announced' = announced

LEMMA AllCharacteristicsAnswered ==
    ASSUME Queued, requests # <<>>, Finish, NEW service
    PROVE  CharacteristicAnswered(service)
BY OutAfterFinish DEF CharacteristicAnswered, Unremembered

LEMMA MoreCharacteristicsAnswered ==
    ASSUME Typed, requests # <<>>, NEW service \in DOMAIN services, NEW start \in Handle,
           AskMore(MakeRequest("characteristics", start, services[service].end, "none"),
                   Entry(next_id, service)),
           announced' = announced
    PROVE  CharacteristicAnswered(service)
<1> DEFINE head == Head(requests)
<1> DEFINE req == MakeRequest("characteristics", start, services[service].end, "none")
<1> DEFINE entry == Entry(next_id, service)
<1>1. /\ "characteristics" \in Operation /\ "none" \in RequestValue
      /\ "characteristics" \notin Unremembered /\ "descriptors" \notin Unremembered
      /\ service \in Handle /\ services[service].end \in Handle /\ Queued
  BY DEF Operation, RequestValue, Unremembered, Typed, KnownTyped, ServicesTyped
<1>2. EntryFor("characteristics", entry)
  BY <1>1, EntriesFor
<1>3. entry[next_id] = service
  BY DEF Entry
<1>4. AskMore(MakeRequest("characteristics", start, services[service].end, "none"), entry)
  OBVIOUS
<1> HIDE DEF entry
<1>5. /\ Out' = (Out \ {head}) \cup {req}
      /\ \A r \in Out \ {head} : r.op \notin Unremembered => pending'[r.id] = pending[r.id]
      /\ pending'[next_id] = service
  BY <1>1, <1>2, <1>3, <1>4, OutAfterAskMore
<1>6. req.id = next_id /\ req.op = "characteristics"
  BY DEF MakeRequest
<1> HIDE DEF head, req
<1>7. QED
  BY <1>1, <1>5, <1>6 DEF CharacteristicAnswered, head

(***************************************************************************)
(* A page of characteristics, or none: no discovery of descriptors is out  *)
(* for a characteristic of the service.                                    *)
(***************************************************************************)
LEMMA CharacteristicsDescribed ==
    ASSUME Typed, Agreed, Described, Answering("characteristics"), Made,
           NEW service \in DOMAIN services, service = pending[Head(requests).id],
           NEW page \in SUBSET DOMAIN Db[service].chars,
           DOMAIN services' = DOMAIN services,
           \A s \in DOMAIN services : s # service => services'[s].chars = services[s].chars,
           DOMAIN services'[service].chars = DOMAIN services[service].chars \cup page,
           \A c \in page : services'[service].chars[c].descs = {},
           \A c \in DOMAIN services[service].chars \ page :
              services'[service].chars[c].descs = services[service].chars[c].descs,
           DOMAIN characteristic_to_service' = DOMAIN characteristic_to_service \cup page,
           \A c \in page : characteristic_to_service'[c] = service,
           \A c \in DOMAIN characteristic_to_service \ page :
              characteristic_to_service'[c] = characteristic_to_service[c],
           bare' = bare,
           CharacteristicAnswered(service),
           \/ announced' = announced
           \/ /\ announced' = announced \cup {service}
              /\ DOMAIN services'[service].chars = DOMAIN Db[service].chars
    PROVE  Described'
<1> DEFINE head == Head(requests)
<1>1. /\ requests # <<>> /\ head \in Out /\ head.op = "characteristics" /\ Queued
      /\ service \in DOMAIN Db
  BY HeadIsOut DEF Answering, Typed, Agreed, OfServer
<1>2. ASSUME NEW r \in Out, r.op = "descriptors", NEW c, c = pending[r.id]
      PROVE  c \notin DOMAIN Db[service].chars
  <2>1. Precedes(r, c) /\ r # head
    BY <1>1, <1>2 DEF Described, DescriptorsAhead
  <2>2. head.id < r.id /\ head.id \in Nat /\ r.id \in Nat
    BY <1>1, <1>2, <2>1, HeadIsFirst, OutIsTyped
  <2>3. ~ (r.id < head.id)
    BY <2>2
  <2>4. QED
    BY <1>1, <2>1, <2>3 DEF Precedes
<1>3. ASSUME NEW c, c \notin page
      PROVE  /\ Known(c)' = Known(c)
             /\ Known(c) => ServiceOf(c)' = ServiceOf(c) /\ Char(c)'.descs = Char(c).descs
  <2>1. Known(c)' = Known(c) /\ (Known(c) => ServiceOf(c)' = ServiceOf(c))
    BY <1>3 DEF Known, ServiceOf
  <2>2. ASSUME Known(c) PROVE Char(c)'.descs = Char(c).descs
    <3>1. ServiceOf(c) \in DOMAIN services /\ c \in DOMAIN services[ServiceOf(c)].chars
      BY <2>2, KnownCharacteristic
    <3>2. CASE ServiceOf(c) = service
      BY <1>3, <2>1, <2>2, <3>1, <3>2 DEF Char
    <3>3. CASE ServiceOf(c) # service
      BY <2>1, <2>2, <3>1, <3>3 DEF Char
    <3>4. QED
      BY <3>2, <3>3
  <2>3. QED
    BY <2>1, <2>2
<1>4. OwnDescriptors'
  <2>1. ASSUME NEW c \in DOMAIN characteristic_to_service'
        PROVE  c \in bare' \/ Char(c)'.descs \subseteq Char_Db[c].descs
    <3>1. CASE c \in page
      BY <3>1 DEF Char, ServiceOf
    <3>2. CASE c \notin page
      BY <1>3, <2>1, <3>2 DEF Described, OwnDescriptors, Known
    <3>3. QED
      BY <3>1, <3>2
  <2>2. QED
    BY <2>1 DEF OwnDescriptors
<1>5. /\ \A r \in Out' : r.op = "descriptors" =>
            r \in Out \ {head} /\ pending'[r.id] = pending[r.id]
      /\ \A r \in Out' : r.op = "characteristics" =>
            \/ r \in Out \ {head} /\ pending'[r.id] = pending[r.id]
            \/ pending'[r.id] = service /\ announced' = announced
  BY DEF CharacteristicAnswered
<1>6. service \notin announced
  BY <1>1 DEF Described, Whole
<1>7. \A r \in Out \ {head} : ~ (r.op = "characteristics" /\ pending[r.id] = service)
  BY <1>1 DEF Agreed, Ahead, CharacteristicsAhead
<1> HIDE DEF head
<1>8. Whole'
  <2>1. ASSUME NEW sv \in announced'
        PROVE  /\ sv \in DOMAIN services'
               /\ DOMAIN services'[sv].chars = DOMAIN Db[sv].chars
               /\ \A r \in Out' : ~ (r.op = "characteristics" /\ pending'[r.id] = sv)
    <3>1. CASE sv = service
      <4>1. /\ ~ (announced' = announced)
            /\ DOMAIN services'[service].chars = DOMAIN Db[service].chars
        <5>1. ~ (announced' = announced)
          BY <1>6, <2>1, <3>1
        <5>2. QED
          BY <5>1
      <4>2. ASSUME NEW r \in Out', r.op = "characteristics", pending'[r.id] = service
            PROVE  FALSE
        <5>1. r \in Out \ {head} /\ pending'[r.id] = pending[r.id]
          BY <1>5, <4>1, <4>2, Zenon
        <5>2. QED
          BY <1>7, <4>2, <5>1, Zenon
      <4>3. service \in DOMAIN services'
        OBVIOUS
      <4>4. QED
        BY <3>1, <4>1, <4>2, <4>3, Zenon
    <3>2. CASE sv # service
      <4>1. sv \in announced
        BY <2>1, <3>2
      <4>2. /\ sv \in DOMAIN services /\ DOMAIN services[sv].chars = DOMAIN Db[sv].chars
            /\ \A r \in Out : ~ (r.op = "characteristics" /\ pending[r.id] = sv)
        BY <4>1 DEF Described, Whole
      <4>3. services'[sv].chars = services[sv].chars
        BY <3>2, <4>2
      <4>4. QED
        BY <1>5, <3>2, <4>2, <4>3
    <3>3. QED
      BY <3>1, <3>2
  <2>2. QED
    BY <2>1 DEF Whole
<1>9. ASSUME NEW r \in Out', r.op = "descriptors", NEW c, c = pending'[r.id]
      PROVE  Describes(r, c)' /\ Precedes(r, c)'
  <2>1. r \in Out /\ c = pending[r.id]
    BY <1>5, <1>9
  <2>2. Describes(r, c) /\ Precedes(r, c)
    BY <1>9, <2>1 DEF Described, DescriptorsAhead
  <2>3. c \notin DOMAIN Db[service].chars
    BY <1>2, <1>9, <2>1
  <2>4. /\ Known(c)' = Known(c)
        /\ Known(c) => ServiceOf(c)' = ServiceOf(c) /\ Char(c)'.descs = Char(c).descs
    BY <1>3, <2>3
  <2>5. announced \subseteq announced'
    OBVIOUS
  <2>6. Describes(r, c)'
    BY <2>2, <2>4, <2>5 DEF Describes
  <2>7. Precedes(r, c)'
    BY <1>5, <2>2, <2>3 DEF Precedes
  <2>8. QED
    BY <2>6, <2>7
<1>10. DescriptorsAhead'
  BY <1>9 DEF DescriptorsAhead
<1>11. QED
  BY <1>4, <1>8, <1>10 DEF Described

LEMMA CharacteristicDescribed ==
    ASSUME Typed, Agreed, Agreed', Surveyed, Described, HandleCharacteristic
    PROVE  Described'
<1> DEFINE head == Head(requests)
<1>1. PICK service \in DOMAIN services : service = pending[head.id]
  BY DEF HandleCharacteristic
<1>2. /\ Answering("characteristics") /\ Made /\ requests # <<>>
      /\ service \in DOMAIN Db /\ KnownTyped /\ bare' = bare
  BY <1>1 DEF HandleCharacteristic, Answering, Agreed, OfServer, Typed
<1>3. CASE /\ Matches(head, DOMAIN Char_Db) = {}
           /\ Discovered(service)
           /\ UNCHANGED <<services, maps>>
  <2>1. Finish /\ announced' = announced \cup {service}
    BY <1>3 DEF Discovered
  <2>2. DOMAIN services[service].chars = DOMAIN Db[service].chars
    BY <1>1, <1>2, <1>3, NoneLeft
  <2>3. /\ services' = services /\ characteristic_to_service' = characteristic_to_service
        /\ {} \in SUBSET DOMAIN Db[service].chars
    BY <1>3 DEF maps
  <2> HIDE DEF head
  <2>4. QED
    BY <1>1, <1>2, <2>1, <2>2, <2>3, AllCharacteristicsAnswered, CharacteristicsDescribed
       DEF head, Typed
<1>4. ASSUME NEW page \in Pages(Matches(head, DOMAIN Char_Db)),
             services' = [services EXCEPT ![service].chars = Extended(service, page)],
             characteristic_to_service' =
                With(characteristic_to_service, [c \in page |-> service]),
             value_to_characteristic' =
                With(value_to_characteristic,
                     [v \in {Char_Db[c].value : c \in page} |->
                         CHOOSE c \in page : Char_Db[c].value = v]),
             \/ Max(page) >= services[service].end /\ Discovered(service)
             \/ /\ ~ (Max(page) >= services[service].end)
                /\ signal' = Quiet
                /\ UNCHANGED announced
                /\ AskMore(MakeRequest("characteristics", Following(Max(page)),
                                       services[service].end, "none"),
                           Entry(next_id, service))
      PROVE  Described'
  <2>1. /\ page \in SUBSET DOMAIN Db[service].chars /\ page \in SUBSET DOMAIN Char_Db
        /\ Min(page) \in page /\ Max(page) \in Handle
    BY <1>1, <1>2, <1>4, PageOfService
  <2>2. /\ CharsTyped(Extended(service, page))
        /\ DOMAIN Extended(service, page) = DOMAIN services[service].chars \cup page
        /\ \A c \in DOMAIN services[service].chars \ page :
              Extended(service, page)[c].descs = services[service].chars[c].descs
    <3> HIDE DEF head
    <3>1. QED
      BY <1>2, <2>1, ExtendedCharacteristics
  <2>3. \A c \in page : Extended(service, page)[c].descs = {}
    BY ExtendedDescriptors
  <2>4. /\ DOMAIN services' = DOMAIN services
        /\ services'[service].chars = Extended(service, page)
        /\ \A s \in DOMAIN services : s # service => services'[s].chars = services[s].chars
    <3>1. services' = SetChars(services, service, Extended(service, page))
      BY <1>4 DEF SetChars
    <3>2. QED
      BY <1>2, <2>2, <3>1, CharsReplaced, Zenon
  <2>5. /\ DOMAIN characteristic_to_service' = DOMAIN characteristic_to_service \cup page
        /\ \A c \in page : characteristic_to_service'[c] = service
        /\ \A c \in DOMAIN characteristic_to_service \ page :
              characteristic_to_service'[c] = characteristic_to_service[c]
    BY <1>4 DEF With
  <2>6. Following(Max(page)) \in Handle
    BY <2>1, Handles
  <2>7. Max(page) >= services[service].end =>
           DOMAIN services'[service].chars = DOMAIN Db[service].chars
    BY <1>1, <1>2, <1>4, CharacteristicPageSurveyed DEF Discovered
  <2>8. /\ CharacteristicAnswered(service)
        /\ \/ announced' = announced
           \/ /\ announced' = announced \cup {service}
              /\ DOMAIN services'[service].chars = DOMAIN Db[service].chars
    <3>1. CASE Max(page) >= services[service].end /\ Discovered(service)
      <4>1. Finish /\ announced' = announced \cup {service}
        BY <3>1 DEF Discovered
      <4>2. Queued
        BY DEF Typed
      <4>3. QED
        BY <1>2, <2>7, <3>1, <4>1, <4>2, AllCharacteristicsAnswered
    <3>2. CASE /\ announced' = announced
               /\ AskMore(MakeRequest("characteristics", Following(Max(page)),
                                      services[service].end, "none"),
                          Entry(next_id, service))
      BY <1>2, <2>6, <3>2, MoreCharacteristicsAnswered
    <3>3. QED
      BY <1>4, <3>1, <3>2
  <2>9. \A c \in page : services'[service].chars[c].descs = {}
    BY <2>3, <2>4
  <2>10. \A c \in DOMAIN services[service].chars \ page :
            services'[service].chars[c].descs = services[service].chars[c].descs
    BY <2>2, <2>4
  <2>11. DOMAIN services'[service].chars = DOMAIN services[service].chars \cup page
    BY <2>2, <2>4
  <2>12. service = pending[Head(requests).id]
    BY <1>1
  <2> HIDE DEF head
  <2>13. QED
    BY <1>2, <2>1, <2>4, <2>5, <2>8, <2>9, <2>10, <2>11, <2>12, CharacteristicsDescribed, Zenon
<1>5. QED
  BY <1>1, <1>3, <1>4, Zenon DEF HandleCharacteristic

(***************************************************************************)
(* The discovery of descriptors that is answered.                          *)
(***************************************************************************)
LEMMA AnsweredDescribes ==
    ASSUME Typed, Agreed, Surveyed, Described, Answering("descriptors"), Made,
           NEW char, char = pending[Head(requests).id]
    PROVE  /\ Describes(Head(requests), char) /\ Head(requests) \in Out
           /\ Head(requests).start \in Handle /\ Head(requests).start \in Nat
           /\ \A r \in Out : r.op = "descriptors" /\ pending[r.id] = char => r = Head(requests)
           /\ Known(char) =>
                 /\ Char(char).end = Char_Db[char].end
                 /\ \A s \in Out : s.op = "characteristics" =>
                       char \notin DOMAIN Db[pending[s.id]].chars
<1>1. /\ requests # <<>> /\ Head(requests).op = "descriptors"
      /\ Head(requests) \in Out /\ Queued
  BY HeadIsOut DEF Answering, Typed
<1>2. Describes(Head(requests), char) /\ Precedes(Head(requests), char)
  BY <1>1 DEF Described, DescriptorsAhead
<1>3. Head(requests).start \in Handle /\ Head(requests).start \in Nat
  BY <1>1, HeadOfQueue, Handles
<1>4. ASSUME Known(char)
      PROVE  /\ Char(char).end = Char_Db[char].end
             /\ \A s \in Out : s.op = "characteristics" =>
                   char \notin DOMAIN Db[pending[s.id]].chars
  <2>1. ServiceOf(char) \in announced
    BY <1>2, <1>4 DEF Describes
  <2>2. QED
    BY <1>4, <2>1, EndIsFinal, NotLookedFor DEF Described
<1>5. QED
  BY <1>1, <1>2, <1>3, <1>4 DEF Precedes

\* With the discovery ends what was asked of the server.
LEMMA FinishDescriptorsKeeps ==
    ASSUME Typed, requests # <<>>, NEW char, NEW descs \in SUBSET Handle, NEW mapped,
           FinishDescriptors(char, descs, mapped)
    PROVE  /\ Keeps("descriptors") /\ Keeps("characteristics")
           /\ signal' = <<"descriptorsDiscovered", char>>
<1>1. signal' = <<"descriptorsDiscovered", char>>
  BY DEF FinishDescriptors
<1>2. CASE Finish
  BY <1>1, <1>2, FinishKeeps DEF Typed
<1>3. CASE /\ Out' \subseteq (Out \ {Head(requests)}) \cup {r \in Out' : r.op = "write"}
           /\ \A r \in Out \ {Head(requests)} :
                 r.op \notin Unremembered => pending'[r.id] = pending[r.id]
  BY <1>1, <1>3 DEF Keeps
<1>4. QED
  BY <1>2, <1>3, OutAfterFinishDescriptors

\* Nothing is left of the characteristic's range.
LEMMA NoDescriptorLeft ==
    ASSUME Typed, Agreed, Surveyed, Described, Answering("descriptors"), Made,
           NEW char, char = pending[Head(requests).id], Known(char),
           Matches(Head(requests), Attributes) = {}
    PROVE  Char_Db[char].descs \subseteq Char(char).descs
<1> DEFINE head == Head(requests)
<1>1. /\ Describes(head, char) /\ head.start \in Nat /\ head.start # 0
      /\ char \in DOMAIN Char_Db /\ head.end = Char_Db[char].end
  BY AnsweredDescribes DEF Describes
<1>2. PICK sv \in DOMAIN Db : char \in DOMAIN Db[sv].chars
  BY <1>1, CharacteristicsOfServer
<1> HIDE DEF head
<1>3. ASSUME NEW d \in Char_Db[char].descs PROVE d \in Char(char).descs
  <2>1. d \in Nat /\ d <= head.end /\ d \in Attributes
    BY <1>1, <1>2, CharacteristicRange DEF Attributes
  <2>2. d \notin Matches(head, Attributes)
    BY DEF head
  <2>3. d < head.start
    BY <1>1, <2>1, <2>2 DEF Matches
  <2>4. QED
    BY <1>1, <2>3 DEF Describes
<1>4. QED
  BY <1>3

LEMMA DescriptorPageDescribed ==
    ASSUME Typed, Agreed, Surveyed, Described, Answering("descriptors"), Made,
           NEW char, char = pending[Head(requests).id], Known(char),
           NEW page \in Pages(Matches(Head(requests), Attributes)),
           HandleDescriptorPage(char, page),
           characteristic_to_service' = characteristic_to_service, announced' = announced
    PROVE  Described' /\ DescriptorsComplete'
<1> DEFINE head == Head(requests)
<1> DEFINE new == page \ {Char(char).value}
<1> DEFINE last == IF new = {} THEN 0 ELSE Max(new)
<1> DEFINE descs == Char(char).descs \cup new
<1> DEFINE mapped == DOMAIN With(descriptor_to_characteristic, [d \in new |-> char])
<1> DEFINE req == MakeRequest("descriptors", Following(last), Char(char).end, "none")
<1> DEFINE own == Char_Db[char].descs
<1>1. /\ Describes(head, char) /\ head \in Out /\ head.start \in Handle /\ head.start \in Nat
      /\ \A r \in Out : r.op = "descriptors" /\ pending[r.id] = char => r = head
      /\ Char(char).end = Char_Db[char].end
      /\ \A s \in Out : s.op = "characteristics" => char \notin DOMAIN Db[pending[s.id]].chars
  BY AnsweredDescribes
<1>2. /\ char \in DOMAIN Char_Db /\ Char(char).value = Char_Db[char].value
      /\ Char(char).descs \subseteq Handle /\ Held(char) /\ char \in Handle
      /\ char \in bare \/ Char(char).descs \subseteq own
      /\ char < head.start \/ char \in bare
  BY <1>1, KnownCharacteristic, HeldCharacteristic DEF Typed, Described, OwnDescriptors, Known,
     Describes
<1>3. /\ new \in SUBSET Handle
      /\ char < head.start => new \subseteq own
      /\ new # {} => /\ Max(new) \in new /\ Max(new) <= Char_Db[char].end
                     /\ \A d \in own : head.start <= d /\ d <= Max(new) => d \in new
  <2>1. head.end = Char_Db[char].end
    BY <1>1 DEF Describes
  <2>2. new = page \ {Char_Db[char].value}
    BY <1>2
  <2>3. page \in Pages(Matches(head, Attributes))
    OBVIOUS
  <2> HIDE DEF head, new
  <2>4. /\ new \in SUBSET Handle
        /\ char < head.start => new \subseteq Char_Db[char].descs
        /\ new # {} => /\ Max(new) \in new /\ Max(new) <= Char_Db[char].end
                       /\ \A d \in Char_Db[char].descs :
                             head.start <= d /\ d <= Max(new) => d \in new
    BY ONLY <1>1, <1>2, <2>1, <2>2, <2>3, DescriptorPage
  <2>5. QED
    BY <2>4
<1>4. PICK sv \in DOMAIN Db : char \in DOMAIN Db[sv].chars
  BY <1>2, CharacteristicsOfServer
<1>5. /\ char \in Nat /\ Char_Db[char].end \in Handle /\ Char_Db[char].end \in Nat
      /\ char < Char_Db[char].end
      /\ \A d \in own : d \in Nat /\ char < d /\ d <= Char_Db[char].end
  <2>1. /\ char \in Nat /\ Char_Db[char].value \in Nat /\ char < Char_Db[char].value
        /\ Char_Db[char].value <= Char_Db[char].end
        /\ Char_Db[char].end \in Handle /\ Char_Db[char].end \in Nat
        /\ \A d \in own : d \in Nat /\ Char_Db[char].value < d /\ d <= Char_Db[char].end
    BY <1>4, CharacteristicRange
  <2>2. QED
    BY <2>1
<1>7. services' = [services EXCEPT ![ServiceOf(char)].chars[char].descs = descs]
  BY Zenon DEF HandleDescriptorPage
<1>19. bare' = IF new = {} THEN bare \cup {char} ELSE bare
  BY Zenon DEF HandleDescriptorPage
<1>20. \/ last >= Char(char).end /\ FinishDescriptors(char, descs, mapped)
       \/ ~ (last >= Char(char).end) /\ signal' = Quiet /\ AskMore(req, Entry(next_id, char))
  BY Zenon DEF HandleDescriptorPage
<1> HIDE DEF head, own, new
<1>6. /\ last \in Handle /\ last \in Nat
      /\ \A d \in own : head.start <= d /\ d <= last => d \in new
      /\ last >= Char_Db[char].end => new # {}
      /\ new # {} => last = Max(new) /\ last \in new
  <2>1. CASE new = {}
    <3>1. last = 0
      BY <2>1
    <3> HIDE DEF last
    <3>2. \A d \in own : ~ (d <= last)
      BY <1>5, <3>1
    <3>3. ~ (last >= Char_Db[char].end)
      BY <1>5, <3>1
    <3>4. QED
      BY <2>1, <3>1, <3>2, <3>3, Handles
  <2>2. CASE new # {}
    <3>1. last = Max(new)
      BY <2>2
    <3> HIDE DEF last
    <3>2. QED
      BY <1>3, <2>2, <3>1, Handles
  <2>3. QED
    BY <2>1, <2>2
<1>8. /\ requests # <<>> /\ head.op = "descriptors" /\ Queued
  BY DEF Answering, Typed, head
<1> HIDE DEF last, req
\* All of the server's descriptors up to the last of the page are known.
<1>9. \A d \in own : d <= last => d \in descs
  <2>1. ASSUME NEW d \in own, d <= last PROVE d \in descs
    <3>1. CASE d < head.start
      <4>1. d \in Char(char).descs
        BY <1>1, <3>1 DEF Describes, own
      <4>2. QED
        BY <4>1
    <3>2. CASE ~ (d < head.start)
      <4>1. head.start <= d
        BY <1>1, <1>5, <3>2
      <4>2. d \in new
        BY <1>6, <2>1, <4>1
      <4>3. QED
        BY <4>2
    <3>3. QED
      BY <3>1, <3>2
  <2>2. QED
    BY <2>1
\* And no others, unless the value came alone.
<1>10. /\ bare \subseteq bare' /\ bare' \subseteq bare \cup {char}
       /\ new = {} => char \in bare'
       /\ new # {} => bare' = bare
  BY <1>19
<1>11. descs \in SUBSET Handle /\ (char \in bare' \/ descs \subseteq own)
  BY <1>2, <1>3, <1>10
<1>12. Char(char).descs \subseteq descs
  OBVIOUS
<1> HIDE DEF descs, mapped
<1>13. /\ SameNumbers /\ Char(char)'.descs = descs
       /\ \A c \in DOMAIN characteristic_to_service :
             c # char => Char(c)'.descs = Char(c).descs
  <2>1. PICK ds \in SUBSET Handle : ds = descs
    BY <1>11
  <2>2. services' = [services EXCEPT ![ServiceOf(char)].chars[char].descs = ds]
    BY Zenon, <1>7, <2>1
  <2>3. characteristic_to_service' = characteristic_to_service /\ Typed /\ Agreed /\ Known(char)
    BY Zenon
  <2>4. /\ SameNumbers /\ Char(char)'.descs = ds
        /\ \A c \in DOMAIN characteristic_to_service :
              c # char => Char(c)'.descs = Char(c).descs
    BY ONLY <2>2, <2>3, OneDescribed, ds \in SUBSET Handle
  <2>5. QED
    BY <2>1, <2>4
<1>14. \A c : Known(c)' = Known(c) /\ ServiceOf(c)' = ServiceOf(c)
  BY DEF Known, ServiceOf
<1>15. OwnDescriptors'
  <2>1. ASSUME NEW c \in DOMAIN characteristic_to_service'
        PROVE  c \in bare' \/ Char(c)'.descs \subseteq Char_Db[c].descs
    <3>1. CASE c = char
      BY <1>11, <1>13, <3>1 DEF own
    <3>2. CASE c # char
      BY <1>10, <1>13, <2>1, <3>2 DEF Described, OwnDescriptors
    <3>3. QED
      BY <3>1, <3>2
  <2>2. QED
    BY <2>1 DEF OwnDescriptors
<1>16. CASE last >= Char(char).end /\ FinishDescriptors(char, descs, mapped)
  <2>1. /\ Keeps("descriptors") /\ Keeps("characteristics")
        /\ signal' = <<"descriptorsDiscovered", char>>
    BY <1>8, <1>11, <1>16, FinishDescriptorsKeeps
  <2>2. Whole'
    BY <1>13, <2>1, WholeStays DEF Described
  <2>3. ASSUME NEW c, Known(c)
        PROVE  Char(c).descs \subseteq services'[ServiceOf(c)].chars[c].descs
    <3>1. Char(c).descs \subseteq Char(c)'.descs
      BY <1>12, <1>13, <2>3 DEF Known
    <3>2. QED
      BY <1>14, <3>1 DEF Char
  <2>4. DescriptorsAhead'
    BY <1>10, <2>1, <2>3, AheadStays DEF Described
  <2>5. own \subseteq descs
    <3>1. \A d \in own : d <= last
      BY <1>1, <1>5, <1>6, <1>16
    <3>2. QED
      BY <1>9, <3>1
  <2>6. DescriptorsComplete'
    <3>1. signal'[2] = char
      BY <2>1
    <3>2. /\ Char_Db[char].descs \subseteq Char(char)'.descs
          /\ char \notin bare' => Char(char)'.descs = Char_Db[char].descs
      <4>1. /\ own \subseteq Char(char)'.descs
            /\ char \notin bare' => Char(char)'.descs = own
        BY ONLY <1>11, <1>13, <2>5
      <4>2. QED
        BY Zenon, <4>1 DEF own
    <3>3. QED
      BY Zenon, <3>1, <3>2 DEF DescriptorsComplete
  <2>7. QED
    BY <1>15, <2>2, <2>4, <2>6 DEF Described
<1>17. CASE ~ (last >= Char(char).end) /\ signal' = Quiet /\ AskMore(req, Entry(next_id, char))
  <2>1. /\ "descriptors" \in Operation /\ "none" \in RequestValue
        /\ "characteristics" \notin Unremembered /\ "descriptors" \notin Unremembered
        /\ Following(last) \in Handle /\ Char(char).end \in Handle
    BY <1>1, <1>5, <1>6, Handles DEF Operation, RequestValue, Unremembered
  <2>2. Following(last) = last + 1
    <3>1. MaxHandle \in Nat /\ Char_Db[char].end <= MaxHandle
      BY <1>5, Handles DEF Handle
    <3>2. last # MaxHandle
      BY <1>1, <1>5, <1>6, <1>17, <3>1
    <3>3. QED
      BY <1>6, <3>2, FollowingTheLast, FollowingIsNext
  <2>3. EntryFor("descriptors", Entry(next_id, char)) /\ Entry(next_id, char)[next_id] = char
    <3>1. EntryFor("descriptors", Entry(next_id, char))
      BY <1>2, EntriesFor
    <3>2. QED
      BY <3>1 DEF Entry
  <2>4. /\ Out' = (Out \ {head}) \cup {req}
        /\ \A r \in Out \ {head} : r.op \notin Unremembered => pending'[r.id] = pending[r.id]
        /\ pending'[next_id] = char
    BY <1>8, <1>17, <2>1, <2>3, OutAfterAskMore DEF head, req
  <2>5. /\ req.id = next_id /\ req.op = "descriptors" /\ req.start = Following(last)
        /\ req.end = Char(char).end
    BY DEF req, MakeRequest
  <2>6. Keeps("characteristics")
    <3>1. AskMore(req, Entry(next_id, char))
      BY <1>17
    <3>2. QED
      BY <1>8, <3>1, AskMoreKeeps, EntryOrNone DEF req
  <2>7. Whole'
    BY <1>13, <2>6, WholeStays DEF Described
  <2>8. \A s \in Out' : s # req /\ s.op \in {"descriptors", "characteristics"} =>
           s \in Out \ {head} /\ pending'[s.id] = pending[s.id]
    BY <2>1, <2>4
  <2>9. pending'[req.id] = char /\ req \in Out'
    BY <2>4, <2>5
  <2>10. char < Following(last) \/ char \in bare'
    <3>1. CASE new = {}
      BY <1>10, <3>1
    <3>2. CASE new # {} /\ char < head.start
      <4>1. last \in own
        BY <1>3, <1>6, <3>2
      <4>2. QED
        BY <1>5, <1>6, <2>2, <4>1
    <3>3. QED
      BY <1>2, <1>10, <3>1, <3>2
  <2>11. ASSUME NEW r \in Out', r.op = "descriptors", NEW c, c = pending'[r.id]
         PROVE  Describes(r, c)' /\ Precedes(r, c)'
    <3>1. CASE r = req
      <4>1. c = char
        BY <2>9, <2>11, <3>1
      <4>2. Describes(r, c)'
        <5>1. /\ Following(last) # 0
              /\ \A d \in own : d < Following(last) => d <= last
          BY <1>5, <1>6, <2>2
        <5>2. ServiceOf(char) \in announced
          BY <1>1 DEF Describes
        <5>3. \A d \in own : d < Following(last) => d \in Char(char)'.descs
          BY <1>9, <1>13, <5>1
        <5>4. QED
          BY <1>1, <1>2, <1>14, <2>5, <2>10, <3>1, <4>1, <5>1, <5>2, <5>3 DEF Describes, own
      <4>3. Precedes(r, c)'
        BY <1>1, <2>5, <2>8, <3>1, <4>1 DEF Precedes
      <4>4. QED
        BY <4>2, <4>3
    <3>2. CASE r # req
      <4>1. r \in Out \ {head} /\ c = pending[r.id]
        BY <2>8, <2>11, <3>2
      <4>2. Describes(r, c) /\ Precedes(r, c) /\ c # char
        BY <1>1, <2>11, <4>1 DEF Described, DescriptorsAhead
      <4>3. Describes(r, c)'
        BY <1>10, <1>13, <1>14, <4>2 DEF Describes, Known
      <4>4. Precedes(r, c)'
        BY <2>5, <2>8, <2>9, <4>2 DEF Precedes
      <4>5. QED
        BY <4>3, <4>4
    <3>3. QED
      BY <3>1, <3>2
  <2>12. DescriptorsAhead'
    BY <2>11 DEF DescriptorsAhead
  <2>13. DescriptorsComplete'
    BY <1>17 DEF DescriptorsComplete, Quiet
  <2>14. QED
    BY <1>15, <2>7, <2>12, <2>13 DEF Described
<1>18. QED
  BY Zenon, <1>16, <1>17, <1>20

LEMMA NothingLeftDescribed ==
    ASSUME Typed, Agreed, Surveyed, Described, Answering("descriptors"), Made,
           NEW char, char = pending[Head(requests).id], Known(char),
           Matches(Head(requests), Attributes) = {},
           NEW mapped, FinishDescriptors(char, Char(char).descs, mapped),
           characteristic_to_service' = characteristic_to_service,
           UNCHANGED <<services, announced, bare>>
    PROVE  Described' /\ DescriptorsComplete'
<1>1. requests # <<>> /\ Char(char).descs \in SUBSET Handle
  BY KnownCharacteristic, HeldCharacteristic DEF Answering, Typed, Known
<1>2. PICK descs \in SUBSET Handle : descs = Char(char).descs
  BY <1>1
<1>3. FinishDescriptors(char, descs, mapped)
  BY <1>2
<1>4. /\ Keeps("descriptors") /\ Keeps("characteristics")
      /\ signal' = <<"descriptorsDiscovered", char>>
  BY <1>1, <1>3, FinishDescriptorsKeeps
<1>5. SameNumbers /\ SameDescriptors
  BY DEF SameNumbers, SameDescriptors, Char, ServiceOf
<1>6. Described'
  BY <1>4, <1>5, DescribedStays
<1>7. Char_Db[char].descs \subseteq Char(char).descs
  BY NoDescriptorLeft
<1>8. char \notin bare => Char(char).descs \subseteq Char_Db[char].descs
  BY DEF Described, OwnDescriptors, Known
<1>9. Char(char)' = Char(char) /\ signal'[2] = char
  BY <1>4 DEF Char, ServiceOf
<1>10. DescriptorsComplete'
  <2>1. /\ Char_Db[char].descs \subseteq Char(char)'.descs
        /\ bare' = bare
        /\ char \notin bare => Char(char)'.descs = Char_Db[char].descs
    BY <1>7, <1>8, <1>9
  <2>2. QED
    BY Zenon, <1>9, <2>1 DEF DescriptorsComplete
<1>11. QED
  BY <1>6, <1>10

LEMMA DescriptorsDescribed ==
    ASSUME Typed, Agreed, Surveyed, Described, HandleDescriptors
    PROVE  Described' /\ DescriptorsComplete'
<1>1. PICK char : char = pending[Head(requests).id]
  OBVIOUS
<1>2. /\ Answering("descriptors") /\ Made /\ requests # <<>> /\ Queued
      /\ characteristic_to_service' = characteristic_to_service /\ announced' = announced
  BY DEF HandleDescriptors, Answering, Typed
<1>3. CASE /\ ~ Known(char)
           /\ signal' = <<"unknownCharacteristic", char>>
           /\ Finish
           /\ UNCHANGED <<services, bare>>
  <2>1. Keeps("descriptors") /\ Keeps("characteristics")
    BY <1>2, <1>3, FinishKeeps
  <2>2. SameNumbers /\ SameDescriptors
    BY <1>2, <1>3 DEF SameNumbers, SameDescriptors, Char, ServiceOf
  <2>3. Described'
    BY <1>2, <2>1, <2>2, DescribedStays
  <2>4. DescriptorsComplete'
    BY <1>3 DEF DescriptorsComplete
  <2>5. QED
    BY <2>3, <2>4
<1>4. CASE /\ Known(char) /\ Matches(Head(requests), Attributes) = {}
           /\ FinishDescriptors(char, Char(char).descs, DOMAIN descriptor_to_characteristic)
           /\ UNCHANGED <<services, bare>>
  BY <1>1, <1>2, <1>4, NothingLeftDescribed
<1>5. ASSUME Known(char),
             NEW page \in Pages(Matches(Head(requests), Attributes)),
             HandleDescriptorPage(char, page)
      PROVE  Described' /\ DescriptorsComplete'
  BY <1>1, <1>2, <1>5, DescriptorPageDescribed
<1>6. QED
  BY <1>1, <1>3, <1>4, <1>5, Zenon DEF HandleDescriptors

LEMMA DescribedStep ==
    ASSUME Disciplined, Typed, Agreed, Agreed', Surveyed, Described,
           DescriptorsComplete, [Next]_vars
    PROVE  Described' /\ DescriptorsComplete'
<1>1. CASE App
  BY <1>1, AppDescribed, CallsAreQuiet DEF DescriptorsComplete, Quiet
<1>2. CASE HandlePrimary
  <2>1. signal' = Quiet \/ signal' = <<"servicesDiscovered", AllFound>>
    BY <1>2, Zenon DEF HandlePrimary
  <2>2. QED
    BY <1>2, <2>1, PrimaryDescribed DEF DescriptorsComplete, Quiet
<1>3. CASE HandleCharacteristic
  <2>1. \/ signal' = Quiet
        \/ signal' = <<"characteristicsDiscovered", pending[Head(requests).id]>>
    BY <1>3, Zenon DEF HandleCharacteristic, Discovered
  <2>2. QED
    BY <1>3, <2>1, CharacteristicDescribed DEF DescriptorsComplete, Quiet
<1>4. CASE \/ HandleMtu \/ HandlePrimaryForService \/ HandleCharacteristicRead
           \/ HandleDescriptorRead \/ HandleWrite
  <2>1. /\ requests # <<>> /\ Finish /\ UNCHANGED known
    BY <1>4 DEF HandleMtu, HandlePrimaryForService, HandleCharacteristicRead,
                HandleDescriptorRead, HandleWrite, Answering
  <2>2. signal'[1] # "descriptorsDiscovered"
    BY <1>4 DEF HandleMtu, HandlePrimaryForService, HandleCharacteristicRead,
                HandleDescriptorRead, HandleWrite, Quiet
  <2>3. Described'
    BY <2>1, OtherFinished DEF Typed
  <2>4. QED
    BY <2>2, <2>3 DEF DescriptorsComplete
<1>5. CASE HandleNotMade
  <2>1. Queued /\ UNCHANGED known /\ signal' = Quiet
    BY <1>5, OutAfterNotMade DEF Typed
  <2>2. Described'
    BY <1>5, <2>1, NotMadeKeeps, NothingFound, DescribedStays
  <2>3. QED
    BY <2>1, <2>2 DEF DescriptorsComplete, Quiet
<1>6. CASE UNCHANGED vars
  <2>1. /\ pending' = pending /\ Out' = Out /\ signal' = signal /\ UNCHANGED known
        /\ \A c : Char(c)' = Char(c)
        /\ bare' = bare
    BY <1>6 DEF vars, known, maps, Out, Char, ServiceOf
  <2>2. DescriptorsComplete'
    BY <2>1 DEF DescriptorsComplete
  <2>3. Keeps("descriptors") /\ Keeps("characteristics")
    BY <2>1 DEF Keeps
  <2>4. Described'
    BY <2>1, <2>3, NothingFound, DescribedStays
  <2>5. QED
    BY <2>2, <2>4
<1>7. QED
  BY <1>1, <1>2, <1>3, <1>4, <1>5, <1>6, DescriptorsDescribed DEF Next, Answer

LEMMA InitDescribed == ASSUME Init PROVE Described /\ DescriptorsComplete
<1>1. Out = {}
  BY EmptySeq DEF Init, Out, Range
<1>2. announced = {} /\ signal[1] # "descriptorsDiscovered"
  BY DEF Init, Quiet
<1>3. OwnDescriptors
  BY NoEntries DEF Init, OwnDescriptors
<1>4. QED
  BY <1>1, <1>2, <1>3 DEF Described, Whole, DescriptorsAhead, DescriptorsComplete

LEMMA AlwaysDescribed ==
    Disciplined =>
        (Spec => [](Typed /\ Agreed /\ Surveyed /\ Described /\ DescriptorsComplete))
<1> SUFFICES ASSUME Disciplined
             PROVE  Spec => [](Typed /\ Agreed /\ Surveyed /\ Described /\ DescriptorsComplete)
  OBVIOUS
<1>1. Init => Surveyed /\ AnnouncedCharacteristics
  BY InitSurveyed
<1>2. Init => Described /\ DescriptorsComplete
  BY InitDescribed
<1>3. /\ Typed /\ Agreed /\ (Typed /\ Agreed)' /\ Surveyed /\ AnnouncedCharacteristics
      /\ [Next]_vars
      => (Surveyed /\ AnnouncedCharacteristics)'
  BY SurveyStep
<1>4. /\ Typed /\ Agreed /\ (Typed /\ Agreed)' /\ Surveyed /\ Described /\ DescriptorsComplete
      /\ [Next]_vars
      => (Described /\ DescriptorsComplete)'
  BY DescribedStep
<1>5. Spec => [](Typed /\ Agreed)
  BY AlwaysAgreed
<1>6. QED
  BY <1>1, <1>2, <1>3, <1>4, <1>5, PTL DEF Spec

(***************************************************************************)
(* When finishSetNotifyOperations() and the signal follow the last page of *)
(* a discovery of descriptors (gatoperipheral.cpp:799-806), the            *)
(* characteristic has every descriptor of the server, however the pages    *)
(* were cut and whatever was left over from links before: whatever is      *)
(* discovered meanwhile is asked after it, and the end it was asked for    *)
(* was the last word.  It has no others unless one of its responses held   *)
(* its value alone (784, and line 812 asks again from handle 1).           *)
(***************************************************************************)
THEOREM AnnouncedDescriptorsAreAll == Disciplined => (Spec => []DescriptorsComplete)
<1> SUFFICES ASSUME Disciplined PROVE Spec => []DescriptorsComplete
  OBVIOUS
<1>1. Spec => [](Typed /\ Agreed /\ Surveyed /\ Described /\ DescriptorsComplete)
  BY AlwaysDescribed
<1>2. QED
  BY <1>1, PTL

-----------------------------------------------------------------------------
(***************************************************************************)
(* As long as no value came alone, every descriptor held belongs to its    *)
(* characteristic, and is mapped, so that writeValue() will know it.       *)
(***************************************************************************)
InMap(svs, mapped) ==
    \A sv \in DOMAIN svs : \A c \in DOMAIN svs[sv].chars :
        svs[sv].chars[c].descs \subseteq Char_Db[c].descs \cap mapped

DescriptorsMapped == bare = {} => InMap(services, DOMAIN descriptor_to_characteristic)

LEMMA DescriptorsApart ==
    ASSUME NEW c \in DOMAIN Char_Db, NEW d \in DOMAIN Char_Db, c # d
    PROVE  Char_Db[c].descs \cap Char_Db[d].descs = {}
<1>1. /\ c \in Nat /\ Char_Db[c].end \in Nat
      /\ \A x \in Char_Db[c].descs : x \in Nat /\ c < x /\ x <= Char_Db[c].end
  <2>1. PICK sv \in DOMAIN Db : c \in DOMAIN Db[sv].chars
    BY CharacteristicsOfServer
  <2>2. QED
    BY <2>1, CharacteristicRange
<1>2. /\ d \in Nat /\ Char_Db[d].end \in Nat
      /\ \A x \in Char_Db[d].descs : x \in Nat /\ d < x /\ x <= Char_Db[d].end
  <2>1. PICK sv \in DOMAIN Db : d \in DOMAIN Db[sv].chars
    BY CharacteristicsOfServer
  <2>2. QED
    BY <2>1, CharacteristicRange
<1>3. Char_Db[c].end < d \/ Char_Db[d].end < c
  <2>1. c < d \/ d < c
    BY <1>1, <1>2
  <2>2. QED
    BY <2>1, CharacteristicsApart
<1>4. ASSUME NEW x \in Char_Db[c].descs \cap Char_Db[d].descs PROVE FALSE
  BY <1>1, <1>2, <1>3
<1>5. QED
  BY <1>4

\* What was held is still held and mapped; what is new has no descriptors yet.
LEMMA InMapStays ==
    ASSUME NEW svs, NEW mapped, InMap(svs, mapped), NEW svs2, NEW mapped2,
           \A sv \in DOMAIN svs2 : \A c \in DOMAIN svs2[sv].chars :
              \/ svs2[sv].chars[c].descs = {}
              \/ /\ sv \in DOMAIN svs /\ c \in DOMAIN svs[sv].chars
                 /\ svs2[sv].chars[c].descs = svs[sv].chars[c].descs
                 /\ svs[sv].chars[c].descs \cap mapped \subseteq mapped2
    PROVE  InMap(svs2, mapped2)
<1>1. ASSUME NEW sv \in DOMAIN svs2, NEW c \in DOMAIN svs2[sv].chars
      PROVE  svs2[sv].chars[c].descs \subseteq Char_Db[c].descs \cap mapped2
  <2>1. CASE svs2[sv].chars[c].descs = {}
    BY <2>1
  <2>2. CASE /\ sv \in DOMAIN svs /\ c \in DOMAIN svs[sv].chars
             /\ svs2[sv].chars[c].descs = svs[sv].chars[c].descs
             /\ svs[sv].chars[c].descs \cap mapped \subseteq mapped2
    BY <2>2 DEF InMap
  <2>3. QED
    BY <1>1, <2>1, <2>2
<1>2. QED
  BY <1>1 DEF InMap

\* Descriptors of one characteristic are forgotten, or found.
LEMMA InMapOne ==
    ASSUME ServicesTyped(services), OfServer, NEW mapped, InMap(services, mapped),
           NEW sv \in DOMAIN services, NEW c \in DOMAIN services[sv].chars,
           NEW descs \in SUBSET Handle, NEW mapped2,
           descs \subseteq Char_Db[c].descs \cap mapped2,
           mapped \ services[sv].chars[c].descs \subseteq mapped2,
           services' = SetDescs(services, sv, c, descs)
    PROVE  InMap(services', mapped2)
<1> DEFINE new == SetDescs(services, sv, c, descs)
<1>1. /\ DOMAIN new = DOMAIN services /\ new[sv].chars[c].descs = descs
      /\ \A s \in DOMAIN services :
            /\ DOMAIN new[s].chars = DOMAIN services[s].chars
            /\ \A d \in DOMAIN services[s].chars :
                  s # sv \/ d # c => new[s].chars[d] = services[s].chars[d]
  BY DescsSet
<1> HIDE DEF new
<1>2. ASSUME NEW s \in DOMAIN new, NEW d \in DOMAIN new[s].chars
      PROVE  new[s].chars[d].descs \subseteq Char_Db[d].descs \cap mapped2
  <2>1. s \in DOMAIN services /\ d \in DOMAIN services[s].chars
    BY <1>1
  <2>2. /\ s \in DOMAIN Db /\ d \in DOMAIN Db[s].chars
        /\ sv \in DOMAIN Db /\ c \in DOMAIN Db[sv].chars
    BY <2>1 DEF OfServer
  <2>3. CASE d = c
    <3>1. s = sv
      BY <2>2, <2>3, OneService
    <3>2. QED
      BY <1>1, <2>3, <3>1
  <2>4. CASE d # c
    <3>1. new[s].chars[d] = services[s].chars[d]
      BY <1>1, <2>1, <2>4
    <3>2. services[s].chars[d].descs \subseteq Char_Db[d].descs \cap mapped
      BY <2>1 DEF InMap
    <3>3. services[sv].chars[c].descs \subseteq Char_Db[c].descs
      BY DEF InMap
    <3>4. Char_Db[c].descs \cap Char_Db[d].descs = {}
      BY <2>2, <2>4, OneService, DescriptorsApart
    <3>5. QED
      BY <3>1, <3>2, <3>3, <3>4
  <2>5. QED
    BY <2>3, <2>4
<1>3. InMap(new, mapped2)
  BY <1>2 DEF InMap
<1>4. QED
  BY <1>3 DEF new

\* clearServiceCharacteristics() forgets no descriptor of another service.
LEMMA DiscoverCharacteristicsMapped ==
    ASSUME Typed, Agreed, DescriptorsMapped, NEW service \in DOMAIN services,
           DiscoverCharacteristics(service)
    PROVE  DescriptorsMapped'
<1> DEFINE old == services[service].chars
<1> DEFINE lost == UNION {old[c].descs : c \in DOMAIN old}
<1> DEFINE mapped == DOMAIN descriptor_to_characteristic
<1>1. /\ services' = SetChars(services, service, EmptyMap) /\ bare' = bare
      /\ descriptor_to_characteristic' = Without(descriptor_to_characteristic, lost)
  BY DEF DiscoverCharacteristics, ForgetCharacteristics, SetChars
<1>2. /\ DOMAIN services' = DOMAIN services /\ services'[service].chars = EmptyMap
      /\ \A s \in DOMAIN services : s # service => services'[s].chars = services[s].chars
  BY <1>1, NoCharacteristics, CharsSet DEF Typed, KnownTyped
<1> HIDE DEF lost
<1>3. DOMAIN descriptor_to_characteristic' = mapped \ lost
  BY <1>1, WithoutKeys
<1>4. SUFFICES ASSUME bare = {} PROVE InMap(services', mapped \ lost)
  BY <1>1, <1>3 DEF DescriptorsMapped
<1>5. InMap(services, mapped)
  BY <1>4 DEF DescriptorsMapped
<1>6. ASSUME NEW s \in DOMAIN services', NEW d \in DOMAIN services'[s].chars
      PROVE  /\ s \in DOMAIN services /\ d \in DOMAIN services[s].chars
             /\ services'[s].chars[d].descs = services[s].chars[d].descs
             /\ services[s].chars[d].descs \cap mapped \subseteq mapped \ lost
  <2>1. s # service
    BY <1>2, <1>6, NoEntries
  <2>2. /\ s \in DOMAIN services /\ d \in DOMAIN services[s].chars
        /\ services'[s].chars[d].descs = services[s].chars[d].descs
    BY <1>2, <2>1
  <2>3. ASSUME NEW x \in services[s].chars[d].descs, x \in lost PROVE FALSE
    <3>1. PICK c \in DOMAIN old : x \in old[c].descs
      BY <2>3 DEF lost
    <3>2. /\ s \in DOMAIN Db /\ d \in DOMAIN Db[s].chars
          /\ service \in DOMAIN Db /\ c \in DOMAIN Db[service].chars
      BY <2>2 DEF Agreed, OfServer
    <3>3. x \in Char_Db[c].descs /\ x \in Char_Db[d].descs
      BY <1>5, <2>2, <2>3, <3>1 DEF InMap
    <3>4. c # d /\ c \in DOMAIN Char_Db /\ d \in DOMAIN Char_Db
      BY <2>1, <3>2, OneService
    <3>5. QED
      BY <3>3, <3>4, DescriptorsApart
  <2>4. QED
    BY <2>2, <2>3
<1> HIDE DEF mapped
<1>7. QED
  BY <1>5, <1>6, InMapStays

LEMMA FindDescriptorsMapped ==
    ASSUME Typed, Agreed, DescriptorsMapped, NEW char, Known(char), FindDescriptors(char)
    PROVE  DescriptorsMapped'
<1> DEFINE sv == ServiceOf(char)
<1> DEFINE mapped == DOMAIN descriptor_to_characteristic
<1>1. /\ sv \in DOMAIN services /\ char \in DOMAIN services[sv].chars
      /\ ServicesTyped(services) /\ OfServer
      /\ Char(char).descs = services[sv].chars[char].descs
  BY KnownCharacteristic DEF Typed, KnownTyped, Agreed, Char
<1>2. /\ services' = [services EXCEPT ![sv].chars[char].descs = {}] /\ bare' = bare
      /\ descriptor_to_characteristic' = Without(descriptor_to_characteristic, Char(char).descs)
  BY DEF FindDescriptors
<1>3. services' = SetDescs(services, sv, char, {})
  BY <1>1, <1>2, SetByPath
<1>4. DOMAIN descriptor_to_characteristic' = mapped \ services[sv].chars[char].descs
  <2>1. PICK descs : descs = Char(char).descs
    OBVIOUS
  <2>2. descriptor_to_characteristic' = Without(descriptor_to_characteristic, descs)
    BY <1>2, <2>1
  <2>3. DOMAIN descriptor_to_characteristic' = mapped \ descs
    BY <2>2, WithoutKeys
  <2>4. QED
    BY <1>1, <2>1, <2>3
<1>5. SUFFICES ASSUME bare = {}
               PROVE  InMap(services', mapped \ services[sv].chars[char].descs)
  BY <1>2, <1>4 DEF DescriptorsMapped
<1>6. InMap(services, mapped)
  BY <1>5 DEF DescriptorsMapped
<1> HIDE DEF sv, mapped
<1>7. {} \in SUBSET Handle
  OBVIOUS
<1>8. QED
  BY <1>1, <1>3, <1>6, <1>7, InMapOne

LEMMA AppMapped ==
    ASSUME Typed, Agreed, DescriptorsMapped, App
    PROVE  DescriptorsMapped'
<1>1. UNCHANGED known => DescriptorsMapped'
  BY DEF known, maps, DescriptorsMapped
<1>2. ASSUME DiscoverServices PROVE DescriptorsMapped'
  <2>1. services' = EmptyMap
    BY <1>2 DEF DiscoverServices
  <2>2. QED
    BY <2>1, NoEntries DEF DescriptorsMapped, InMap
<1>3. ASSUME NEW char \in DOMAIN characteristic_to_service,
             \/ DiscoverDescriptors(char)
             \/ ReadCharacteristic(char)
             \/ WriteCharacteristic(char)
             \/ \E enabled \in BOOLEAN : SetNotification(char, enabled)
      PROVE  DescriptorsMapped'
  <2>1. FindDescriptors(char) \/ UNCHANGED known
    BY <1>3 DEF DiscoverDescriptors, ReadCharacteristic, WriteCharacteristic, SetNotification
  <2>2. QED
    BY <1>1, <1>3, <2>1, FindDescriptorsMapped DEF Known
<1>4. \/ UNCHANGED known
      \/ DiscoverServices
      \/ \E service \in DOMAIN services : DiscoverCharacteristics(service)
      \/ \E char \in DOMAIN characteristic_to_service :
            \/ DiscoverDescriptors(char)
            \/ ReadCharacteristic(char)
            \/ WriteCharacteristic(char)
            \/ \E enabled \in BOOLEAN : SetNotification(char, enabled)
  BY Zenon DEF App, Connect, Disconnect, DiscoverServicesByUuid, ReadDescriptor, WriteDescriptor
<1>5. QED
  BY <1>1, <1>2, <1>3, <1>4, DiscoverCharacteristicsMapped

LEMMA PrimaryMapped ==
    ASSUME DescriptorsMapped, HandlePrimary
    PROVE  DescriptorsMapped'
<1> DEFINE mapped == DOMAIN descriptor_to_characteristic
<1>1. descriptor_to_characteristic' = descriptor_to_characteristic /\ bare' = bare
  BY DEF HandlePrimary, maps
<1>2. CASE UNCHANGED services
  BY <1>1, <1>2 DEF DescriptorsMapped
<1>3. ASSUME NEW page,
             services' = With(services, [sv \in page |-> [end |-> Db[sv].end, chars |-> EmptyMap]])
      PROVE  DescriptorsMapped'
  <2>1. SUFFICES ASSUME bare = {} PROVE InMap(services', mapped)
    BY <1>1 DEF DescriptorsMapped
  <2>2. InMap(services, mapped)
    BY <2>1 DEF DescriptorsMapped
  <2>3. ASSUME NEW s \in DOMAIN services', NEW d \in DOMAIN services'[s].chars
        PROVE  /\ s \in DOMAIN services /\ d \in DOMAIN services[s].chars
               /\ services'[s].chars[d].descs = services[s].chars[d].descs
               /\ services[s].chars[d].descs \cap mapped \subseteq mapped
    <3>1. CASE s \in page
      <4>1. services'[s].chars = EmptyMap
        BY <1>3, <3>1 DEF With
      <4>2. QED
        BY <2>3, <4>1, NoEntries
    <3>2. CASE s \notin page
      <4>1. s \in DOMAIN services /\ services'[s] = services[s]
        BY <1>3, <3>2 DEF With
      <4>2. QED
        BY <2>3, <4>1
    <3>3. QED
      BY <3>1, <3>2
  <2> HIDE DEF mapped
  <2>4. QED
    BY <2>2, <2>3, InMapStays
<1>4. QED
  BY <1>2, <1>3, Zenon DEF HandlePrimary

LEMMA CharacteristicMapped ==
    ASSUME Typed, Agreed, DescriptorsMapped, HandleCharacteristic
    PROVE  DescriptorsMapped'
<1> DEFINE head == Head(requests)
<1> DEFINE mapped == DOMAIN descriptor_to_characteristic
<1>1. PICK service \in DOMAIN services : service = pending[head.id]
  BY DEF HandleCharacteristic
<1>2. /\ Answering("characteristics") /\ Made /\ KnownTyped /\ bare' = bare
      /\ descriptor_to_characteristic' = descriptor_to_characteristic
  BY <1>1 DEF HandleCharacteristic, Typed, maps
<1>3. CASE UNCHANGED services
  BY <1>2, <1>3 DEF DescriptorsMapped
<1>4. ASSUME NEW page \in Pages(Matches(head, DOMAIN Char_Db)),
             services' = [services EXCEPT ![service].chars = Extended(service, page)]
      PROVE  DescriptorsMapped'
  <2>1. page \in SUBSET DOMAIN Char_Db /\ Min(page) \in page
    BY <1>1, <1>2, <1>4, PageOfService
  <2>2. /\ CharsTyped(Extended(service, page))
        /\ DOMAIN Extended(service, page) = DOMAIN services[service].chars \cup page
        /\ \A c \in DOMAIN services[service].chars \ page :
              Extended(service, page)[c].descs = services[service].chars[c].descs
    <3> HIDE DEF head
    <3>1. QED
      BY <1>2, <2>1, ExtendedCharacteristics
  <2>3. \A c \in page : Extended(service, page)[c].descs = {}
    BY ExtendedDescriptors
  <2>4. /\ DOMAIN services' = DOMAIN services
        /\ services'[service].chars = Extended(service, page)
        /\ \A s \in DOMAIN services : s # service => services'[s].chars = services[s].chars
    <3>1. services' = SetChars(services, service, Extended(service, page))
      BY <1>4 DEF SetChars
    <3>2. QED
      BY <1>2, <2>2, <3>1, CharsReplaced, Zenon
  <2>5. SUFFICES ASSUME bare = {} PROVE InMap(services', mapped)
    BY <1>2 DEF DescriptorsMapped
  <2>6. InMap(services, mapped)
    BY <2>5 DEF DescriptorsMapped
  <2>7. ASSUME NEW s \in DOMAIN services', NEW d \in DOMAIN services'[s].chars
        PROVE  \/ services'[s].chars[d].descs = {}
               \/ /\ s \in DOMAIN services /\ d \in DOMAIN services[s].chars
                  /\ services'[s].chars[d].descs = services[s].chars[d].descs
                  /\ services[s].chars[d].descs \cap mapped \subseteq mapped
    <3>1. CASE s = service
      BY <2>2, <2>3, <2>4, <2>7, <3>1
    <3>2. CASE s # service
      BY <2>4, <2>7, <3>2
    <3>3. QED
      BY <3>1, <3>2
  <2> HIDE DEF head, mapped
  <2>8. QED
    BY <2>6, <2>7, InMapStays
<1>5. QED
  BY <1>1, <1>3, <1>4, Zenon DEF HandleCharacteristic

\* A page of descriptors is taken to the maps; only a value alone is bare.
LEMMA DescriptorPageMapped ==
    ASSUME Typed, Agreed, Surveyed, Described, DescriptorsMapped,
           Answering("descriptors"), Made,
           NEW char, char = pending[Head(requests).id], Known(char),
           NEW page \in Pages(Matches(Head(requests), Attributes)),
           HandleDescriptorPage(char, page)
    PROVE  DescriptorsMapped'
<1> DEFINE sv == ServiceOf(char)
<1> DEFINE new == page \ {Char(char).value}
<1> DEFINE descs == Char(char).descs \cup new
<1> DEFINE mapped == DOMAIN descriptor_to_characteristic
<1>1. /\ services' = [services EXCEPT ![sv].chars[char].descs = descs]
      /\ bare' = IF new = {} THEN bare \cup {char} ELSE bare
  BY Zenon DEF HandleDescriptorPage
<1>2. descriptor_to_characteristic' = With(descriptor_to_characteristic, [d \in new |-> char])
  BY Zenon DEF HandleDescriptorPage
<1>3. DOMAIN descriptor_to_characteristic' = mapped \cup new
  BY <1>2 DEF With
<1>4. SUFFICES ASSUME bare' = {} PROVE InMap(services', mapped \cup new)
  BY <1>3 DEF DescriptorsMapped
<1>5. bare = {}
  <2> HIDE DEF new
  <2>1. bare \subseteq bare'
    BY ONLY <1>1
  <2>2. QED
    BY ONLY <1>4, <2>1
<1>6. InMap(services, mapped)
  BY <1>5 DEF DescriptorsMapped
<1>7. /\ sv \in DOMAIN services /\ char \in DOMAIN services[sv].chars /\ char \in DOMAIN Char_Db
      /\ ServicesTyped(services) /\ OfServer
      /\ Char(char).descs = services[sv].chars[char].descs
      /\ Char(char).value = Char_Db[char].value
  BY KnownCharacteristic DEF Typed, KnownTyped, Agreed, Char
<1>8. Char(char).descs \subseteq Char_Db[char].descs \cap mapped /\ Char(char).descs \subseteq Handle
  <2> HIDE DEF sv, mapped
  <2>1. Char(char).descs \subseteq Char_Db[char].descs \cap mapped
    BY ONLY <1>6, <1>7 DEF InMap
  <2>2. Char(char).descs \subseteq Handle
    BY KnownCharacteristic, HeldCharacteristic DEF Typed
  <2>3. QED
    BY <2>1, <2>2
<1>9. new \in SUBSET Handle /\ new \subseteq Char_Db[char].descs
  <2>1. Describes(Head(requests), char) /\ Head(requests).start \in Handle
    BY AnsweredDescribes
  <2>2. Head(requests).end = Char_Db[char].end /\ char < Head(requests).start
    BY <1>5, <2>1 DEF Describes
  <2>3. new = page \ {Char_Db[char].value}
    BY <1>7
  <2> HIDE DEF new
  <2>4. QED
    BY <1>7, <2>1, <2>2, <2>3, DescriptorPage
<1>10. /\ descs \in SUBSET Handle
       /\ descs \subseteq Char_Db[char].descs \cap (mapped \cup new)
       /\ mapped \ services[sv].chars[char].descs \subseteq mapped \cup new
  BY <1>8, <1>9
<1> HIDE DEF sv, new, descs, mapped
<1>11. services' = SetDescs(services, sv, char, descs)
  <2>1. [services EXCEPT ![sv].chars[char].descs = descs] = SetDescs(services, sv, char, descs)
    BY ONLY <1>7, SetByPath
  <2>2. QED
    BY ONLY <1>1, <2>1, Zenon
<1>12. QED
  BY <1>6, <1>7, <1>10, <1>11, InMapOne

LEMMA DescriptorsAreMapped ==
    ASSUME Typed, Agreed, Surveyed, Described, DescriptorsMapped, HandleDescriptors
    PROVE  DescriptorsMapped'
<1>1. PICK char : char = pending[Head(requests).id]
  OBVIOUS
<1>2. Answering("descriptors") /\ Made
  BY DEF HandleDescriptors
<1>3. CASE UNCHANGED <<services, descriptor_to_characteristic, bare>>
  BY <1>3 DEF DescriptorsMapped
<1>4. ASSUME Known(char), NEW page \in Pages(Matches(Head(requests), Attributes)),
             HandleDescriptorPage(char, page)
      PROVE  DescriptorsMapped'
  BY <1>1, <1>2, <1>4, DescriptorPageMapped
<1>5. QED
  BY <1>1, <1>3, <1>4, Zenon DEF HandleDescriptors

LEMMA MappedStep ==
    ASSUME Typed, Agreed, Surveyed, Described, DescriptorsMapped, [Next]_vars
    PROVE  DescriptorsMapped'
<1>1. UNCHANGED known => DescriptorsMapped'
  BY DEF known, maps, DescriptorsMapped
<1>2. CASE \/ HandleMtu \/ HandleNotMade \/ HandlePrimaryForService \/ HandleCharacteristicRead
           \/ HandleDescriptorRead \/ HandleWrite
  BY <1>1, <1>2 DEF HandleMtu, HandleNotMade, HandlePrimaryForService,
                    HandleCharacteristicRead, HandleDescriptorRead, HandleWrite
<1>3. CASE UNCHANGED vars
  BY <1>1, <1>3 DEF vars
<1>4. QED
  BY <1>2, <1>3, AppMapped, PrimaryMapped, CharacteristicMapped, DescriptorsAreMapped
     DEF Next, Answer

-----------------------------------------------------------------------------
(***************************************************************************)
(* What finishSetNotifyOperations() writes.                                *)
(***************************************************************************)
LEMMA ConfigurationsAreWritten ==
    ASSUME Typed, requests # <<>>, NEW char \in DOMAIN pending_set_notify,
           NEW descs \in SUBSET Handle, NEW mapped, FinishDescriptors(char, descs, mapped)
    PROVE  /\ \A d \in descs \cap Cccd \cap mapped : \E i \in DOMAIN requests' :
                 /\ requests'[i].id >= next_id
                 /\ requests'[i].start = d
                 /\ (requests'[i].value = "notify") = pending_set_notify[char]
           /\ \A i \in DOMAIN requests' :
                 requests'[i].id >= next_id => requests'[i].start \in descs \cap Cccd
<1> DEFINE S == descs \cap Cccd \cap mapped
<1> DEFINE value == Configuration(pending_set_notify[char])
<1>1. PICK order \in Ascending(S) : AskMoreAll(Writes(order, value), EmptyMap)
  BY FinishDescriptorsCases
<1>2. (value = "notify") = pending_set_notify[char] /\ value \in RequestValue
  <2>1. pending_set_notify[char] \in BOOLEAN
    BY DEF Typed, KnownTyped
  <2>2. CASE pending_set_notify[char] = TRUE
    BY <2>2 DEF Configuration, RequestValue
  <2>3. CASE pending_set_notify[char] = FALSE
    BY <2>3 DEF Configuration, RequestValue
  <2>4. QED
    BY <2>1, <2>2, <2>3
<1>3. S \in SUBSET Handle /\ S \subseteq descs \cap Cccd
  OBVIOUS
<1> HIDE DEF S, value
<1> DEFINE new == Writes(order, value)
<1> DEFINE old == Tail(requests)
<1>4. /\ new \in Seq(Request) /\ NumberedFrom(new, next_id)
      /\ \A i \in DOMAIN new : new[i].start \in S /\ new[i].value = value
      /\ \A d \in S : \E i \in DOMAIN new : new[i].start = d
  BY <1>1, <1>2, <1>3, WritesInOrder DEF Typed, Queued
<1>5. old \in Seq(Request) /\ Numbered(old, next_id) /\ next_id \in Nat
  BY NumberedTail DEF Typed, Queued
<1>6. requests' = old \o new
  BY <1>1 DEF AskMoreAll
<1> HIDE DEF new, old
<1>7. /\ DOMAIN requests' = 1..(Len(old) + Len(new)) /\ Len(old) \in Nat /\ Len(new) \in Nat
      /\ DOMAIN new = 1..Len(new) /\ DOMAIN old = 1..Len(old)
      /\ \A i \in 1..Len(old) : requests'[i] = old[i]
      /\ \A i \in 1..Len(new) : requests'[Len(old) + i] = new[i]
  BY <1>4, <1>5, <1>6
<1>8. ASSUME NEW d \in S
      PROVE  \E i \in DOMAIN requests' :
                /\ requests'[i].id >= next_id
                /\ requests'[i].start = d
                /\ (requests'[i].value = "notify") = pending_set_notify[char]
  <2>1. PICK i \in DOMAIN new : new[i].start = d
    BY <1>4
  <2>2. new[i].id = next_id + i - 1 /\ new[i].value = value
    BY <1>4 DEF NumberedFrom
  <2>3. /\ Len(old) + i \in DOMAIN requests' /\ requests'[Len(old) + i] = new[i]
        /\ next_id + i - 1 >= next_id
    BY <1>5, <1>7
  <2>4. QED
    BY <1>2, <2>1, <2>2, <2>3
<1>9. ASSUME NEW i \in DOMAIN requests', requests'[i].id >= next_id
      PROVE  requests'[i].start \in descs \cap Cccd
  <2>1. CASE i <= Len(old)
    <3>1. i \in DOMAIN old /\ requests'[i] = old[i]
      BY <1>7, <2>1
    <3>2. old[i].id < next_id /\ old[i].id \in Nat
      BY <1>5, <3>1, RequestFields DEF Numbered
    <3>3. QED
      BY <1>5, <1>9, <3>1, <3>2
  <2>2. CASE ~ (i <= Len(old))
    <3>1. i - Len(old) \in 1..Len(new) /\ Len(old) + (i - Len(old)) = i
      BY <1>7, <2>2
    <3>2. requests'[i] = new[i - Len(old)]
      BY <1>7, <3>1
    <3>3. QED
      BY <1>3, <1>4, <1>7, <3>1, <3>2
  <2>3. QED
    BY <2>1, <2>2
<1>10. QED
  BY <1>8, <1>9 DEF S

\* What is announced of descriptors is what the finished discovery has found;
\* its last response held more than the value.
LEMMA AnnouncedIsFinished ==
    ASSUME Typed, Agreed, Surveyed, Described, HandleDescriptors,
           NEW char, signal' = <<"descriptorsDiscovered", char>>
    PROVE  /\ \E descs \in SUBSET Handle :
                 /\ FinishDescriptors(char, descs, DOMAIN descriptor_to_characteristic')
                 /\ Char(char)'.descs = descs
           /\ bare' = bare /\ Known(char) /\ ServiceOf(char)' = ServiceOf(char)
<1>1. PICK c : c = pending[Head(requests).id]
  OBVIOUS
<1>2. /\ requests # <<>> /\ Typed /\ Agreed /\ Answering("descriptors") /\ Made
      /\ characteristic_to_service' = characteristic_to_service
      /\ \A x : ServiceOf(x)' = ServiceOf(x)
  BY DEF HandleDescriptors, Answering, ServiceOf
<1>3. ASSUME signal' = <<"unknownCharacteristic", c>> PROVE FALSE
  BY <1>3
<1>4. CASE /\ Known(c)
           /\ FinishDescriptors(c, Char(c).descs, DOMAIN descriptor_to_characteristic)
           /\ UNCHANGED <<services, descriptor_to_characteristic, bare>>
  <2>1. c = char
    BY <1>4 DEF FinishDescriptors
  <2>2. PICK descs : descs = Char(c).descs
    OBVIOUS
  <2>3. Char(c)' = Char(c)
    BY <1>2, <1>4 DEF Char
  <2>4. descs \in SUBSET Handle
    BY <1>2, <1>4, <2>2, KnownCharacteristic, HeldCharacteristic DEF Typed
  <2>5. /\ FinishDescriptors(char, descs, DOMAIN descriptor_to_characteristic')
        /\ Char(char)'.descs = descs
    BY <1>4, <2>1, <2>2, <2>3
  <2>6. QED
    BY <1>2, <1>4, <2>1, <2>4, <2>5
<1>5. ASSUME Known(c), NEW page \in Pages(Matches(Head(requests), Attributes)),
             HandleDescriptorPage(c, page)
      PROVE  /\ \E descs \in SUBSET Handle :
                   /\ FinishDescriptors(char, descs, DOMAIN descriptor_to_characteristic')
                   /\ Char(char)'.descs = descs
             /\ bare' = bare /\ Known(char) /\ ServiceOf(char)' = ServiceOf(char)
  <2> DEFINE new == page \ {Char(c).value}
  <2> DEFINE last == IF new = {} THEN 0 ELSE Max(new)
  <2> DEFINE descs == Char(c).descs \cup new
  <2>1. /\ services' = [services EXCEPT ![ServiceOf(c)].chars[c].descs = descs]
        /\ bare' = IF new = {} THEN bare \cup {c} ELSE bare
    BY <1>5, Zenon DEF HandleDescriptorPage
  <2>2. \/ /\ last >= Char(c).end
           /\ FinishDescriptors(c, descs, DOMAIN descriptor_to_characteristic')
        \/ signal' = Quiet
    <3>1. descriptor_to_characteristic' = With(descriptor_to_characteristic, [d \in new |-> c])
      BY <1>5, Zenon DEF HandleDescriptorPage
    <3>2. \/ /\ last >= Char(c).end
             /\ FinishDescriptors(c, descs,
                                  DOMAIN With(descriptor_to_characteristic, [d \in new |-> c]))
          \/ signal' = Quiet
      BY <1>5, Zenon DEF HandleDescriptorPage
    <3>3. QED
      BY <3>1, <3>2, Zenon
  <2>3. page \in SUBSET Handle
    BY ServerHandles DEF Pages, Matches
  <2>4. descs \in SUBSET Handle
    BY <1>2, <1>5, <2>3, KnownCharacteristic, HeldCharacteristic DEF Typed
  <2>5. new = {} => last = 0
    OBVIOUS
  <2> HIDE DEF new, last, descs
  <2>6. /\ last >= Char(c).end
        /\ FinishDescriptors(c, descs, DOMAIN descriptor_to_characteristic')
    BY <2>2 DEF Quiet
  <2>7. c = char
    BY <2>6 DEF FinishDescriptors
  <2>8. Char(c)'.descs = descs
    BY ONLY <1>2, <1>5, <2>1, <2>4, OneDescribed
  <2>9. new # {}
    <3>1. Char(c).end = Char_Db[c].end /\ c \in DOMAIN Char_Db
      BY <1>1, <1>2, <1>5, AnsweredDescribes, KnownCharacteristic
    <3>2. PICK sv \in DOMAIN Db : c \in DOMAIN Db[sv].chars
      BY <3>1, CharacteristicsOfServer
    <3>3. c \in Nat /\ Char_Db[c].value \in Nat /\ Char_Db[c].end \in Nat
          /\ c < Char_Db[c].value /\ Char_Db[c].value <= Char_Db[c].end
      BY <3>2, CharacteristicRange
    <3>4. ~ (0 >= Char(c).end)
      BY <3>1, <3>3
    <3>5. QED
      BY <2>5, <2>6, <3>4
  <2>10. QED
    BY <1>2, <1>5, <2>1, <2>4, <2>6, <2>7, <2>8, <2>9
<1>6. QED
  BY <1>1, <1>3, <1>4, <1>5, Zenon DEF HandleDescriptors

LEMMA NotificationStep ==
    ASSUME Typed, Agreed, Surveyed, Described, DescriptorsMapped', DescriptorsComplete',
           Agreed', Next,
           NEW char \in DOMAIN pending_set_notify, signal' = <<"descriptorsDiscovered", char>>
    PROVE  /\ \A d \in Char_Db[char].descs \cap Cccd :
                 bare = {} \/ d \in DOMAIN descriptor_to_characteristic' =>
                     \E i \in DOMAIN requests' :
                         /\ requests'[i].id >= next_id
                         /\ requests'[i].start = d
                         /\ (requests'[i].value = "notify") = pending_set_notify[char]
           /\ char \notin bare =>
                 \A i \in DOMAIN requests' :
                     requests'[i].id >= next_id => requests'[i].start \in Char_Db[char].descs \cap Cccd
<1>1. HandleDescriptors
  <2>1. ~ App
    BY CallsAreQuiet DEF Quiet
  <2>2. ASSUME HandlePrimary PROVE FALSE
    <3>1. signal' = Quiet \/ signal' = <<"servicesDiscovered", AllFound>>
      BY <2>2, Zenon DEF HandlePrimary
    <3>2. QED
      BY <3>1 DEF Quiet
  <2>3. ASSUME HandleCharacteristic PROVE FALSE
    <3>1. \/ signal' = Quiet
          \/ signal' = <<"characteristicsDiscovered", pending[Head(requests).id]>>
      BY <2>3, Zenon DEF HandleCharacteristic, Discovered
    <3>2. QED
      BY <3>1 DEF Quiet
  <2>4. ASSUME \/ HandleMtu \/ HandleNotMade \/ HandlePrimaryForService
               \/ HandleCharacteristicRead \/ HandleDescriptorRead \/ HandleWrite
        PROVE  FALSE
    BY <2>4 DEF HandleMtu, HandleNotMade, HandlePrimaryForService, HandleCharacteristicRead,
                HandleDescriptorRead, HandleWrite, Quiet
  <2>5. QED
    BY <2>1, <2>2, <2>3, <2>4 DEF Next, Answer
<1> DEFINE mapped == DOMAIN descriptor_to_characteristic'
<1>2. PICK descs \in SUBSET Handle :
         FinishDescriptors(char, descs, mapped) /\ Char(char)'.descs = descs
  BY <1>1, AnnouncedIsFinished
<1>3. bare' = bare /\ requests # <<>>
  BY <1>1, AnnouncedIsFinished DEF HandleDescriptors, Answering
<1>4. /\ Char_Db[char].descs \subseteq descs
      /\ char \notin bare => descs = Char_Db[char].descs
  <2>1. /\ Char_Db[char].descs \subseteq Char(char)'.descs
        /\ char \notin bare' => Char(char)'.descs = Char_Db[char].descs
    BY Zenon DEF DescriptorsComplete
  <2>2. QED
    BY ONLY <1>2, <1>3, <2>1
<1>5. bare = {} => descs \subseteq mapped
  <2>1. Known(char)'
    BY <1>1, AnnouncedIsFinished DEF HandleDescriptors, Known
  <2>2. /\ ServiceOf(char)' \in DOMAIN services'
        /\ char \in DOMAIN services'[ServiceOf(char)'].chars
    BY <2>1 DEF Agreed, Mapped, Known, Held, ServiceOf
  <2>3. bare' = {} => services'[ServiceOf(char)'].chars[char].descs \subseteq mapped
    BY <2>2 DEF DescriptorsMapped, InMap
  <2>4. QED
    BY <1>2, <1>3, <2>3 DEF Char
<1>6. /\ \A d \in descs \cap Cccd \cap mapped : \E i \in DOMAIN requests' :
            /\ requests'[i].id >= next_id
            /\ requests'[i].start = d
            /\ (requests'[i].value = "notify") = pending_set_notify[char]
      /\ \A i \in DOMAIN requests' :
            requests'[i].id >= next_id => requests'[i].start \in descs \cap Cccd
  <2>1. PICK m : m = mapped
    OBVIOUS
  <2>2. FinishDescriptors(char, descs, m)
    BY <1>2, <2>1
  <2> HIDE DEF mapped
  <2>3. /\ \A d \in descs \cap Cccd \cap m : \E i \in DOMAIN requests' :
              /\ requests'[i].id >= next_id
              /\ requests'[i].start = d
              /\ (requests'[i].value = "notify") = pending_set_notify[char]
        /\ \A i \in DOMAIN requests' :
              requests'[i].id >= next_id => requests'[i].start \in descs \cap Cccd
    BY <1>3, <2>2, ConfigurationsAreWritten
  <2>4. QED
    BY Zenon, <2>1, <2>3
<1> HIDE DEF mapped
<1>7. ASSUME NEW d \in Char_Db[char].descs \cap Cccd, bare = {} \/ d \in mapped
      PROVE  d \in descs \cap Cccd \cap mapped
  BY <1>4, <1>5, <1>7
<1>8. QED
  BY <1>4, <1>6, <1>7 DEF mapped

(***************************************************************************)
(* A setNotification() that had to look for the configuration is not       *)
(* forgotten: when the descriptors are announced, finishSetNotify-         *)
(* Operations() (gatoperipheral.cpp:560-578) has made a request that       *)
(* writes what was asked to every configuration of the characteristic, and *)
(* to nothing else, however the pages were cut and over however many       *)
(* links; with the exception of the values that came alone.                *)
(***************************************************************************)
THEOREM NotificationsAreConfigured == Disciplined => (Spec => NotificationIsConfigured)
<1> SUFFICES ASSUME Disciplined PROVE Spec => NotificationIsConfigured
  OBVIOUS
<1> DEFINE Invariant == Typed /\ Agreed /\ Surveyed /\ Described /\ DescriptorsComplete
<1> DEFINE Configured ==
      \A char \in DOMAIN pending_set_notify \ DOMAIN pending_set_notify' :
          signal' = <<"descriptorsDiscovered", char>> =>
              LET own == Char_Db[char].descs \cap Cccd
                  written == {i \in DOMAIN requests' : requests'[i].id >= next_id} IN
              /\ \A d \in own :
                    bare = {} \/ d \in DOMAIN descriptor_to_characteristic' =>
                        \E i \in written :
                            /\ requests'[i].start = d
                            /\ (requests'[i].value = "notify") = pending_set_notify[char]
              /\ char \notin bare => \A i \in written : requests'[i].start \in own
<1>1. Init => DescriptorsMapped
  BY NoEntries DEF Init, DescriptorsMapped, InMap
<1>2. Invariant /\ DescriptorsMapped /\ [Next]_vars => DescriptorsMapped'
  BY MappedStep
<1>3. Invariant /\ Invariant' /\ DescriptorsMapped' /\ [Next]_vars => [Configured]_vars
  <2>1. SUFFICES ASSUME Invariant, Invariant', DescriptorsMapped', Next,
                        NEW char \in DOMAIN pending_set_notify,
                        signal' = <<"descriptorsDiscovered", char>>
                 PROVE  LET own == Char_Db[char].descs \cap Cccd
                            written == {i \in DOMAIN requests' : requests'[i].id >= next_id} IN
                        /\ \A d \in own :
                              bare = {} \/ d \in DOMAIN descriptor_to_characteristic' =>
                                  \E i \in written :
                                      /\ requests'[i].start = d
                                      /\ (requests'[i].value = "notify") = pending_set_notify[char]
                        /\ char \notin bare => \A i \in written : requests'[i].start \in own
    BY Zenon
  <2>2. QED
    BY <2>1, NotificationStep
<1>4. Spec => []Invariant
  BY AlwaysDescribed
<1> HIDE DEF Configured
<1>5. Spec => [][Configured]_vars
  BY <1>1, <1>2, <1>3, <1>4, PTL DEF Spec
<1>6. QED
  BY <1>5, PTL DEF NotificationIsConfigured, Configured

=====
