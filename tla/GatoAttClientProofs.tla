------------------------ MODULE GatoAttClientProofs ------------------------
(***************************************************************************)
(* GatoAttClient for every set of opcodes, every server and every bound.   *)
(*                                                                         *)
(* All properties are about where the PDUs of an exchange are: in one of   *)
(* the queues of the socket, in the kernel on either side of the link, or  *)
(* in the argument of a suspended call.  The proofs see these five places  *)
(* as sequences of PDUs and ask of each whether it holds one of a set S of *)
(* PDUs (Has), and no more than one (One).                                 *)
(***************************************************************************)
EXTENDS GatoAttClient, SequenceTheorems, FiniteSetTheorems, TLAPS

-----------------------------------------------------------------------------
(***************************************************************************)
(* The types, with what may be where: requests and confirmations only go   *)
(* out, responses only come in, and of the client's own PDUs only those    *)
(* have an id.  A frame that carries a PDU carries one of the right kind.  *)
(***************************************************************************)
OutPdu == {p \in Pdu : /\ p.kind \in {"request", "confirmation", "command"}
                       /\ p.id # 0 <=> p.kind = "request"}

InPdu == {p \in Pdu : /\ p.kind \in {"response", "error", "notification", "indication",
                                     "request"}
                      /\ p.id # 0 <=> p.kind \in {"response", "error"}
                      /\ p.kind = "request" => PeerRequests}

\* What a callback may get: no event, and if no request has an opcode without a
\* case, or the peer makes no requests, an answer.
NoMistake == RawOpcode = {} \/ ~ PeerRequests
AnswerPdu == {p \in InPdu : ~ IsEvent(p) /\ (NoMistake => p.id # 0)}

BareFrame == [at : {"write", "readyRead", "connected", "abort"}, arg : {<<>>}]
OutFrame == [at : {"send"}, arg : {<<p>> : p \in OutPdu}]
InFrame == [at : {"received"}, arg : {<<p>> : p \in InPdu}]
AnswerFrame == [at : {"response"}, arg : {<<p>> : p \in AnswerPdu}]
GoodFrame == BareFrame \cup OutFrame \cup InFrame \cup AnswerFrame

\* Only callbacks are suspended below another frame, and the slots of
\* disconnected() run on a socket that is closed or connecting.
StackOK(k, state) ==
    /\ k \in Seq(GoodFrame)
    /\ \A j \in DOMAIN k : j # 1 => k[j].at = "response"
    /\ k # <<>> /\ Head(k).at \in SuspendedFrames => state # "Connected"

Callbacks(k) ==
    /\ k \in Seq(GoodFrame)
    /\ \A j \in DOMAIN k : k[j].at = "response"

SocketTyped ==
    /\ s \in State
    /\ writeEnabled \in BOOLEAN
    /\ readQueue \in Seq(InPdu)
    /\ writeQueue \in Seq(OutPdu)
    /\ outbound \in Seq(OutPdu)
    /\ inbound \in Seq(InPdu)
    /\ StackOK(stack, s)

AttTyped ==
    /\ pending_requests \in Seq(Request)
    /\ next_id \in Nat \ {0}
    /\ cur_mtu \in Nat
    /\ connections \in Nat
    /\ owed \in BOOLEAN

Typed == SocketTyped /\ AttTyped

\* A callback runs for the head; of what can be suspended above it, the slots
\* of disconnected(), there is one frame.
Nested ==
    /\ CalledBack => pending_requests # <<>>
    /\ stack # <<>> =>
          Tail(stack) = <<>> \/ (Head(stack).at = "send" /\ Tail(Tail(stack)) = <<>>)

(***************************************************************************)
(* Sequences of PDUs, and the five places.                                 *)
(***************************************************************************)
Has(q, S) == \E i \in DOMAIN q : q[i] \in S

One(q, S) == \A i, j \in DOMAIN q : q[i] \in S /\ q[j] \in S => i = j

NoPdu == [kind |-> "none", op |-> "none", id |-> 0]

Load(frame) == IF frame.arg = <<>> THEN NoPdu ELSE frame.arg[1]

Cargo(k) == [j \in DOMAIN k |-> Load(k[j])]

\* With the frames k on the stack.
SomewhereWith(S, k) ==
    \/ Has(Cargo(k), S)
    \/ Has(writeQueue, S)
    \/ Has(outbound, S)
    \/ Has(inbound, S)
    \/ Has(readQueue, S)

OnceWith(S, k) ==
    /\ One(Cargo(k), S) /\ One(writeQueue, S) /\ One(outbound, S)
    /\ One(inbound, S) /\ One(readQueue, S)
    /\ Has(Cargo(k), S) =>
          ~ (Has(writeQueue, S) \/ Has(outbound, S) \/ Has(inbound, S) \/ Has(readQueue, S))
    /\ Has(writeQueue, S) => ~ (Has(outbound, S) \/ Has(inbound, S) \/ Has(readQueue, S))
    /\ Has(outbound, S) => ~ (Has(inbound, S) \/ Has(readQueue, S))
    /\ Has(inbound, S) => ~ Has(readQueue, S)

Somewhere(S) == SomewhereWith(S, stack)

Once(S) == OnceWith(S, stack)

Own == {p \in Pdu : p.id # 0}

Exchange == {p \in Pdu : p.kind \in {"indication", "confirmation"}}

-----------------------------------------------------------------------------
(***************************************************************************)
(* What queueing, taking the head, pushing and popping do to a place.      *)
(***************************************************************************)
LEMMA EmptyPlace ==
    ASSUME NEW S
    PROVE  /\ ~ Has(<<>>, S) /\ One(<<>>, S)
           /\ ~ Has(Cargo(<<>>), S) /\ One(Cargo(<<>>), S)
<1>1. DOMAIN <<>> = {}
  OBVIOUS
<1>2. DOMAIN Cargo(<<>>) = {}
  BY <1>1 DEF Cargo
<1>3. QED
  BY <1>1, <1>2, Zenon DEF Has, One

LEMMA AppendPlace ==
    ASSUME NEW P, NEW q \in Seq(P), NEW p \in P, NEW S
    PROVE  /\ Append(q, p) \in Seq(P) /\ Append(q, p) # <<>>
           /\ Has(Append(q, p), S) <=> Has(q, S) \/ p \in S
           /\ One(Append(q, p), S) <=> One(q, S) /\ ~ (Has(q, S) /\ p \in S)
<1> DEFINE r == Append(q, p)
<1>1. /\ Len(q) \in Nat /\ DOMAIN q = 1..Len(q)
      /\ r \in Seq(P) /\ r # <<>> /\ DOMAIN r = 1..(Len(q) + 1)
      /\ r[Len(q) + 1] = p /\ \A i \in 1..Len(q) : r[i] = q[i]
  BY LenProperties
<1> HIDE DEF r
<1>2. Has(r, S) <=> Has(q, S) \/ p \in S
  BY <1>1 DEF Has
<1>3. ASSUME One(r, S) PROVE One(q, S) /\ ~ (Has(q, S) /\ p \in S)
  BY <1>1, <1>3 DEF One, Has
<1>4. ASSUME One(q, S), ~ (Has(q, S) /\ p \in S) PROVE One(r, S)
  BY <1>1, <1>4 DEF One, Has
<1>5. QED
  BY <1>1, <1>2, <1>3, <1>4 DEF r

LEMMA HeadPlace ==
    ASSUME NEW P, NEW q \in Seq(P), q # <<>>, NEW S
    PROVE  /\ Head(q) \in P /\ Tail(q) \in Seq(P)
           /\ Has(q, S) <=> Head(q) \in S \/ Has(Tail(q), S)
           /\ One(q, S) <=> One(Tail(q), S) /\ ~ (Head(q) \in S /\ Has(Tail(q), S))
<1> DEFINE r == Tail(q)
<1> DEFINE n == Len(q)
<1>1. /\ n \in Nat \ {0} /\ DOMAIN q = 1..n /\ Head(q) \in P /\ Head(q) = q[1]
      /\ r \in Seq(P) /\ DOMAIN r = 1..(n - 1)
      /\ \A i \in 1..(n - 1) : r[i] = q[i + 1]
  BY LenProperties, EmptySeq, HeadTailProperties
<1> HIDE DEF r, n
<1>2. \A i \in 1..n : i = 1 \/ (i - 1 \in 1..(n - 1) /\ q[i] = r[i - 1])
  <2>1. \A i \in 1..n : i = 1 \/ (i - 1 \in 1..(n - 1) /\ (i - 1) + 1 = i)
    BY <1>1
  <2>2. QED
    BY <1>1, <2>1
<1>3. \A i \in 1..(n - 1) : i + 1 \in 1..n /\ i + 1 # 1
  BY <1>1
<1>4. 1 \in 1..n
  BY <1>1
<1>5. Has(q, S) <=> q[1] \in S \/ Has(r, S)
  BY <1>1, <1>2, <1>3, <1>4 DEF Has
<1>6. ASSUME One(q, S) PROVE One(r, S) /\ ~ (q[1] \in S /\ Has(r, S))
  <2>1. ~ (q[1] \in S /\ Has(r, S))
    BY <1>1, <1>3, <1>4, <1>6 DEF One, Has
  <2>2. ASSUME NEW i \in 1..(n - 1), NEW j \in 1..(n - 1), r[i] \in S, r[j] \in S
        PROVE  i = j
    <3>1. i + 1 = j + 1
      BY <1>1, <1>3, <1>6, <2>2 DEF One
    <3>2. QED
      BY <3>1
  <2>3. QED
    BY <1>1, <2>1, <2>2 DEF One
<1>7. ASSUME One(r, S), ~ (q[1] \in S /\ Has(r, S)) PROVE One(q, S)
  <2>1. ASSUME NEW i \in 1..n, NEW j \in 1..n, q[i] \in S, q[j] \in S
        PROVE  i = j
    <3>1. CASE i = 1 \/ j = 1
      BY <1>1, <1>2, <1>7, <2>1, <3>1 DEF Has
    <3>2. CASE i # 1 /\ j # 1
      <4>1. i - 1 = j - 1
        BY <1>1, <1>2, <1>7, <2>1, <3>2 DEF One
      <4>2. QED
        BY <4>1
    <3>3. QED
      BY <3>1, <3>2
  <2>2. QED
    BY <1>1, <2>1 DEF One
<1>8. QED
  BY <1>1, <1>5, <1>6, <1>7 DEF r, n

LEMMA PushSeq ==
    ASSUME NEW F, NEW f \in F, NEW k \in Seq(F)
    PROVE  /\ <<f>> \o k \in Seq(F) /\ <<f>> \o k # <<>>
           /\ Head(<<f>> \o k) = f /\ Tail(<<f>> \o k) = k
           /\ DOMAIN (<<f>> \o k) = 1..(Len(k) + 1)
           /\ (<<f>> \o k)[1] = f
           /\ \A j \in 1..(Len(k) + 1) :
                  j # 1 => j - 1 \in DOMAIN k /\ (<<f>> \o k)[j] = k[j - 1]
<1> DEFINE r == <<f>> \o k
<1>1. <<f>> \in Seq(F) /\ Len(<<f>>) = 1 /\ <<f>>[1] = f
  OBVIOUS
<1>2. Len(k) \in Nat /\ DOMAIN k = 1..Len(k)
  BY LenProperties
<1>3. /\ r \in Seq(F) /\ Len(r) = Len(k) + 1
      /\ \A j \in 1..(1 + Len(k)) : r[j] = IF j <= 1 THEN <<f>>[j] ELSE k[j - 1]
  BY <1>1, <1>2, ConcatProperties
<1> HIDE DEF r
<1>4. r # <<>> /\ DOMAIN r = 1..(Len(k) + 1)
  BY <1>2, <1>3, EmptySeq, LenProperties
<1>5. r[1] = f
  BY <1>1, <1>2, <1>3
<1>6. \A j \in 1..(Len(k) + 1) : j # 1 => j - 1 \in DOMAIN k /\ r[j] = k[j - 1]
  BY <1>2, <1>3
<1>7. Tail(r) \in Seq(F) /\ Len(Tail(r)) = Len(k) /\ \A i \in 1..Len(k) : Tail(r)[i] = r[i + 1]
  BY <1>2, <1>3, <1>4, HeadTailProperties
<1>8. \A i \in 1..Len(k) : r[i + 1] = k[i]
  BY <1>2, <1>3
<1>9. Tail(r) = k
  BY <1>7, <1>8, SeqEqual
<1>10. Head(r) = r[1]
  BY <1>3, <1>4
<1>11. QED
  BY <1>3, <1>4, <1>5, <1>6, <1>9, <1>10 DEF r

\* A frame and the PDU it carries.
LEMMA Loads ==
    ASSUME NEW f \in GoodFrame
    PROVE  /\ f.at \in FrameNames
           /\ f.at \in {"write", "readyRead", "connected", "abort"} => Load(f) = NoPdu
           /\ f.at = "send" => Load(f) \in OutPdu
           /\ f.at = "received" => Load(f) \in InPdu
           /\ f.at = "response" => Load(f) \in AnswerPdu
           /\ f.at \in {"send", "received", "response"} =>
                  f.arg = <<Load(f)>> /\ Head(f.arg) = Load(f)
<1>1. CASE f \in BareFrame
  BY <1>1 DEF BareFrame, Load, FrameNames
<1>2. CASE f \in OutFrame
  <2>1. PICK p \in OutPdu : f.arg = <<p>>
    BY <1>2 DEF OutFrame
  <2>2. Load(f) = p /\ Head(f.arg) = p
    BY <2>1 DEF Load
  <2>3. QED
    BY <1>2, <2>1, <2>2 DEF OutFrame, FrameNames
<1>3. CASE f \in InFrame
  <2>1. PICK p \in InPdu : f.arg = <<p>>
    BY <1>3 DEF InFrame
  <2>2. Load(f) = p /\ Head(f.arg) = p
    BY <2>1 DEF Load
  <2>3. QED
    BY <1>3, <2>1, <2>2 DEF InFrame, FrameNames
<1>4. CASE f \in AnswerFrame
  <2>1. PICK p \in AnswerPdu : f.arg = <<p>>
    BY <1>4 DEF AnswerFrame
  <2>2. Load(f) = p /\ Head(f.arg) = p
    BY <2>1 DEF Load
  <2>3. QED
    BY <1>4, <2>1, <2>2 DEF AnswerFrame, FrameNames
<1>5. QED
  BY <1>1, <1>2, <1>3, <1>4 DEF GoodFrame

LEMMA MakeFrame ==
    /\ \A at \in {"write", "readyRead", "connected", "abort"} :
            Frame(at, <<>>) \in GoodFrame /\ Load(Frame(at, <<>>)) = NoPdu
    /\ \A p \in OutPdu : Frame("send", <<p>>) \in GoodFrame /\ Load(Frame("send", <<p>>)) = p
    /\ \A p \in InPdu :
            Frame("received", <<p>>) \in GoodFrame /\ Load(Frame("received", <<p>>)) = p
    /\ \A p \in AnswerPdu :
            Frame("response", <<p>>) \in GoodFrame /\ Load(Frame("response", <<p>>)) = p
    /\ \A at, arg : Frame(at, arg).at = at /\ Frame(at, arg).arg = arg
<1>1. \A at \in {"write", "readyRead", "connected", "abort"} :
            Frame(at, <<>>) \in GoodFrame /\ Load(Frame(at, <<>>)) = NoPdu
  BY DEF Frame, GoodFrame, BareFrame, Load
<1>2. ASSUME NEW p \in OutPdu
      PROVE  Frame("send", <<p>>) \in GoodFrame /\ Load(Frame("send", <<p>>)) = p
  BY DEF Frame, GoodFrame, OutFrame, Load
<1>3. ASSUME NEW p \in InPdu
      PROVE  Frame("received", <<p>>) \in GoodFrame /\ Load(Frame("received", <<p>>)) = p
  BY DEF Frame, GoodFrame, InFrame, Load
<1>4. ASSUME NEW p \in AnswerPdu
      PROVE  Frame("response", <<p>>) \in GoodFrame /\ Load(Frame("response", <<p>>)) = p
  BY DEF Frame, GoodFrame, AnswerFrame, Load
<1>5. \A at, arg : Frame(at, arg).at = at /\ Frame(at, arg).arg = arg
  BY DEF Frame
<1>6. QED
  BY <1>1, <1>2, <1>3, <1>4, <1>5

LEMMA NoPduNowhere == NoPdu \notin Pdu
BY DEF NoPdu, Pdu, Kind

LEMMA CargoPlace ==
    ASSUME NEW k \in Seq(GoodFrame), k # <<>>, NEW S
    PROVE  /\ Has(Cargo(k), S) <=> Load(Head(k)) \in S \/ Has(Cargo(Tail(k)), S)
           /\ One(Cargo(k), S) <=>
                  One(Cargo(Tail(k)), S) /\ ~ (Load(Head(k)) \in S /\ Has(Cargo(Tail(k)), S))
<1> DEFINE P == {Load(f) : f \in GoodFrame}
<1> DEFINE c == Cargo(k)
<1> DEFINE n == Len(k)
<1>1. /\ n \in Nat \ {0} /\ DOMAIN k = 1..n /\ \A i \in 1..n : k[i] \in GoodFrame
      /\ Tail(k) \in Seq(GoodFrame) /\ DOMAIN Tail(k) = 1..(n - 1) /\ Head(k) = k[1]
      /\ \A i \in 1..(n - 1) : Tail(k)[i] = k[i + 1]
  BY LenProperties, EmptySeq, HeadTailProperties, ElementOfSeq
<1> HIDE DEF n
<1>2. c = [i \in 1..n |-> Load(k[i])] /\ Cargo(Tail(k)) = [i \in 1..(n - 1) |-> Load(k[i + 1])]
  BY <1>1 DEF Cargo
<1>3. \A i \in 1..n : Load(k[i]) \in P
  BY <1>1
<1> HIDE DEF P
<1>4. c \in Seq(P) /\ Len(c) = n /\ Head(c) = Load(k[1]) /\ c # <<>>
  <2>1. c \in [1..n -> P]
    BY <1>2, <1>3
  <2>2. c \in Seq(P) /\ Len(c) = n
    BY <1>1, <2>1, SeqDef
  <2>3. c # <<>>
    BY <1>1, <2>2, EmptySeq
  <2>4. QED
    BY <1>1, <1>2, <2>2, <2>3
<1>5. Tail(c) = Cargo(Tail(k))
  <2> DEFINE d == Cargo(Tail(k))
  <2>1. Tail(c) \in Seq(P) /\ Len(Tail(c)) = n - 1 /\ \A i \in 1..(n - 1) : Tail(c)[i] = c[i + 1]
    BY <1>4, HeadTailProperties
  <2>2. \A i \in 1..(n - 1) : i + 1 \in 1..n /\ c[i + 1] = Load(k[i + 1])
    BY <1>1, <1>2
  <2>3. n - 1 \in Nat /\ d \in [1..(n - 1) -> P]
    BY <1>1, <1>2, <1>3, <2>2
  <2>4. d \in Seq(P) /\ Len(d) = n - 1
    BY <2>3, SeqDef
  <2>5. \A i \in 1..(n - 1) : d[i] = Load(k[i + 1])
    BY <1>2
  <2> HIDE DEF d
  <2>6. Tail(c) = d
    BY <2>1, <2>2, <2>4, <2>5, SeqEqual
  <2>7. QED
    BY <2>6 DEF d
<1> HIDE DEF c
<1>6. /\ Has(c, S) <=> Head(c) \in S \/ Has(Tail(c), S)
      /\ One(c, S) <=> One(Tail(c), S) /\ ~ (Head(c) \in S /\ Has(Tail(c), S))
  BY <1>4, HeadPlace
<1>7. QED
  BY <1>1, <1>4, <1>5, <1>6 DEF c

-----------------------------------------------------------------------------
(***************************************************************************)
(* Stacks: pushing onto callbacks, popping, and giving up.                 *)
(***************************************************************************)
LEMMA CallbacksAreOK ==
    ASSUME NEW k, Callbacks(k), NEW state
    PROVE  /\ StackOK(k, state)
           /\ k # <<>> => Head(k).at = "response"
<1>1. k # <<>> => Head(k) = k[1] /\ 1 \in DOMAIN k
  BY EmptySeq, LenProperties DEF Callbacks
<1>2. k # <<>> => Head(k).at = "response"
  BY <1>1 DEF Callbacks
<1>3. QED
  BY <1>2 DEF Callbacks, StackOK, SuspendedFrames

LEMMA PushedIsOK ==
    ASSUME NEW k, Callbacks(k), NEW f \in GoodFrame, NEW state,
           f.at \in SuspendedFrames => state # "Connected"
    PROVE  /\ StackOK(<<f>> \o k, state)
           /\ <<f>> \o k # <<>> /\ Head(<<f>> \o k) = f /\ Tail(<<f>> \o k) = k
<1>1. /\ <<f>> \o k \in Seq(GoodFrame) /\ <<f>> \o k # <<>>
      /\ Head(<<f>> \o k) = f /\ Tail(<<f>> \o k) = k
      /\ DOMAIN (<<f>> \o k) = 1..(Len(k) + 1)
      /\ \A j \in 1..(Len(k) + 1) : j # 1 => j - 1 \in DOMAIN k /\ (<<f>> \o k)[j] = k[j - 1]
  BY PushSeq DEF Callbacks
<1>2. QED
  BY <1>1 DEF Callbacks, StackOK

LEMMA PoppedIsCallbacks ==
    ASSUME NEW k, NEW state, StackOK(k, state), k # <<>>
    PROVE  Callbacks(Tail(k)) /\ Head(k) \in GoodFrame
<1>1. /\ k \in Seq(GoodFrame) /\ Head(k) \in GoodFrame /\ Tail(k) \in Seq(GoodFrame)
      /\ Len(k) \in Nat \ {0} /\ Len(Tail(k)) = Len(k) - 1
      /\ \A i \in 1..Len(Tail(k)) : Tail(k)[i] = k[i + 1]
      /\ DOMAIN k = 1..Len(k) /\ DOMAIN Tail(k) = 1..Len(Tail(k))
  BY EmptySeq, LenProperties, HeadTailProperties DEF StackOK
<1>2. \A i \in 1..Len(Tail(k)) : i + 1 \in 1..Len(k) /\ i + 1 # 1
  BY <1>1
<1>3. QED
  BY <1>1, <1>2 DEF StackOK, Callbacks

LEMMA RunningIsCallbacks ==
    ASSUME NEW k, NEW state, StackOK(k, state), k = <<>> \/ Head(k).at = "response"
    PROVE  Callbacks(k)
<1>1. k # <<>> => Head(k) = k[1]
  BY EmptySeq, LenProperties DEF StackOK
<1>2. QED
  BY <1>1, EmptySeq DEF StackOK, Callbacks

LEMMA AbortIsOK ==
    ASSUME NEW state
    PROVE  /\ StackOK(Abort, state)
           /\ Abort # <<>> /\ Head(Abort).at = "abort"
           /\ \A S : ~ (NoPdu \in S) => ~ Has(Cargo(Abort), S) /\ One(Cargo(Abort), S)
<1> DEFINE f == Frame("abort", <<>>)
<1>1. f \in GoodFrame /\ f.at = "abort" /\ Load(f) = NoPdu
  BY MakeFrame
<1>2. Abort = <<f>>
  BY DEF Abort
<1> HIDE DEF f
<1>3. Abort \in Seq(GoodFrame) /\ DOMAIN Abort = 1..1 /\ Abort[1] = f /\ Abort # <<>>
      /\ Head(Abort) = f
  BY <1>1, <1>2
<1>4. DOMAIN Cargo(Abort) = 1..1 /\ Cargo(Abort)[1] = NoPdu
  BY <1>1, <1>3 DEF Cargo
<1>5. QED
  BY <1>1, <1>3, <1>4 DEF StackOK, SuspendedFrames, Has, One

-----------------------------------------------------------------------------
(***************************************************************************)
(* The fragments of the socket.  A step that only moves PDUs leaves none   *)
(* where there was none before, with the frames k on the stack, and no two *)
(* where there was one; unless the link ends it loses none.                *)
(***************************************************************************)
Shrinks(S, k) ==
    /\ Somewhere(S)' => SomewhereWith(S, k)
    /\ OnceWith(S, k) => Once(S)'

Keeps(S, k) == s' # "Disconnected" /\ SomewhereWith(S, k) => Somewhere(S)'

LEMMA PopStack ==
    ASSUME SocketTyped, stack # <<>>, NEW S
    PROVE  /\ Somewhere(S) <=> Load(Head(stack)) \in S \/ SomewhereWith(S, Tail(stack))
           /\ Once(S) <=> /\ OnceWith(S, Tail(stack))
                          /\ ~ (Load(Head(stack)) \in S /\ SomewhereWith(S, Tail(stack)))
<1>1. stack \in Seq(GoodFrame)
  BY DEF SocketTyped, StackOK
<1>2. /\ Has(Cargo(stack), S) <=> Load(Head(stack)) \in S \/ Has(Cargo(Tail(stack)), S)
      /\ One(Cargo(stack), S) <=>
             /\ One(Cargo(Tail(stack)), S)
             /\ ~ (Load(Head(stack)) \in S /\ Has(Cargo(Tail(stack)), S))
  BY <1>1, CargoPlace
<1>3. QED
  BY <1>2 DEF Somewhere, Once, SomewhereWith, OnceWith

LEMMA CloseTyped ==
    ASSUME SocketTyped, NEW k, StackOK(k, "Disconnected"), CloseThen(k)
    PROVE  SocketTyped'
BY EmptySeq DEF SocketTyped, CloseThen, State

LEMMA CloseMoves ==
    ASSUME NEW k, CloseThen(k), NEW S
    PROVE  Shrinks(S, k) /\ Keeps(S, k)
BY EmptyPlace DEF CloseThen, Shrinks, Keeps, Somewhere, SomewhereWith, Once, OnceWith

LEMMA ConnectTyped ==
    ASSUME SocketTyped, ConnectTo(stack)
    PROVE  SocketTyped' /\ s' \in {"Connecting", "Disconnected"} /\ stack' = stack
<1>1. StackOK(stack, "Disconnected") /\ StackOK(stack, "Connecting")
  BY DEF SocketTyped, StackOK
<1>2. CASE CloseThen(stack)
  BY <1>1, <1>2, CloseTyped DEF CloseThen
<1>3. CASE ~ CloseThen(stack)
  BY <1>1, <1>3 DEF ConnectTo, SocketTyped, State
<1>4. QED
  BY <1>2, <1>3

LEMMA ConnectMoves ==
    ASSUME ConnectTo(stack), NEW S
    PROVE  Shrinks(S, stack) /\ Keeps(S, stack)
<1>1. CASE CloseThen(stack)
  BY <1>1, CloseMoves
<1>2. CASE ~ CloseThen(stack)
  BY <1>2 DEF ConnectTo, Shrinks, Keeps, Somewhere, SomewhereWith, Once, OnceWith
<1>3. QED
  BY <1>1, <1>2

\* What stays on the stack is k, unless the process has ended.
LEMMA EnqueueTyped ==
    ASSUME SocketTyped, NEW pkt \in OutPdu, NEW k, Callbacks(k), Enqueue(pkt, k)
    PROVE  /\ SocketTyped'
           /\ stack' = k \/ (stack' = Abort /\ s = "Disconnected")
           /\ s' = s
<1>1. Append(writeQueue, pkt) \in Seq(OutPdu)
  BY AppendPlace DEF SocketTyped
<1>2. StackOK(k, s) /\ StackOK(Abort, s)
  BY CallbacksAreOK, AbortIsOK
<1>3. QED
  BY <1>1, <1>2 DEF Enqueue, SetWriteEnabled, SocketTyped, State

LEMMA EnqueueMoves ==
    ASSUME SocketTyped, NEW pkt \in OutPdu, NEW k, Callbacks(k), Enqueue(pkt, k),
           NEW S \in SUBSET Pdu
    PROVE  /\ Somewhere(S)' => SomewhereWith(S, k) \/ pkt \in S
           /\ pkt \in S => Somewhere(S)'
           /\ OnceWith(S, k) /\ ~ (pkt \in S /\ SomewhereWith(S, k)) => Once(S)'
           /\ Keeps(S, k)
<1>1. /\ Has(writeQueue', S) <=> Has(writeQueue, S) \/ pkt \in S
      /\ One(writeQueue', S) <=> One(writeQueue, S) /\ ~ (Has(writeQueue, S) /\ pkt \in S)
  BY AppendPlace DEF SocketTyped, Enqueue
<1>2. UNCHANGED <<s, outbound, inbound, readQueue>>
  BY DEF Enqueue
<1>3. \/ stack' = k
      \/ s' = "Disconnected" /\ ~ Has(Cargo(stack'), S) /\ One(Cargo(stack'), S)
  BY NoPduNowhere, AbortIsOK DEF Enqueue, SetWriteEnabled
<1>4. QED
  BY <1>1, <1>2, <1>3 DEF Keeps, Somewhere, SomewhereWith, Once, OnceWith

LEMMA SendTyped ==
    ASSUME SocketTyped, NEW pkt \in OutPdu, NEW k, Callbacks(k), Send(pkt, k)
    PROVE  /\ SocketTyped'
           /\ stack' \in {k, <<Frame("send", <<pkt>>)>> \o k, Abort}
           /\ stack' = <<Frame("send", <<pkt>>)>> \o k => WriteMayFail
           /\ s' \in {s, "Disconnected"}
<1> DEFINE f == Frame("send", <<pkt>>)
<1>1. f \in GoodFrame /\ f.at = "send"
  BY MakeFrame
<1>2. <<f>> \o k # k /\ <<f>> \o k # Abort
  <2>1. Head(<<f>> \o k) = f /\ <<f>> \o k # <<>> /\ Head(Abort).at = "abort"
    BY <1>1, PushedIsOK, AbortIsOK
  <2>2. k # <<>> => Head(k).at = "response"
    BY CallbacksAreOK
  <2>3. QED
    BY <1>1, <2>1, <2>2
<1>3. CASE /\ outbound' = Append(outbound, pkt)
           /\ stack' = k
           /\ UNCHANGED <<s, writeEnabled, readQueue, writeQueue, inbound>>
  <2>1. StackOK(k, s)
    BY CallbacksAreOK
  <2>2. Append(outbound, pkt) \in Seq(OutPdu)
    BY AppendPlace DEF SocketTyped
  <2>3. QED
    BY <1>2, <1>3, <2>1, <2>2 DEF SocketTyped
<1>4. CASE WriteMayFail /\ CloseThen(<<f>> \o k)
  <2>1. StackOK(<<f>> \o k, "Disconnected")
    BY <1>1, PushedIsOK
  <2>2. QED
    BY <1>4, <2>1, CloseTyped DEF CloseThen
<1>5. CASE Enqueue(pkt, k)
  BY <1>2, <1>5, EnqueueTyped
<1>6. QED
  BY <1>3, <1>4, <1>5 DEF Send, Close

LEMMA SendMoves ==
    ASSUME SocketTyped, NEW pkt \in OutPdu, NEW k, Callbacks(k), Send(pkt, k),
           NEW S \in SUBSET Pdu
    PROVE  /\ Somewhere(S)' => SomewhereWith(S, k) \/ pkt \in S
           /\ pkt \in S => Somewhere(S)'
           /\ OnceWith(S, k) /\ ~ (pkt \in S /\ SomewhereWith(S, k)) => Once(S)'
           /\ Keeps(S, k)
<1> DEFINE f == Frame("send", <<pkt>>)
<1>1. CASE /\ outbound' = Append(outbound, pkt)
           /\ stack' = k
           /\ UNCHANGED <<s, writeEnabled, readQueue, writeQueue, inbound>>
  <2>1. /\ Has(outbound', S) <=> Has(outbound, S) \/ pkt \in S
        /\ One(outbound', S) <=> One(outbound, S) /\ ~ (Has(outbound, S) /\ pkt \in S)
    BY <1>1, AppendPlace DEF SocketTyped
  <2>2. QED
    BY <1>1, <2>1 DEF Keeps, Somewhere, SomewhereWith, Once, OnceWith
<1>2. CASE CloseThen(<<f>> \o k)
  <2>1. f \in GoodFrame /\ Load(f) = pkt /\ f.at = "send"
    BY MakeFrame
  <2>2. <<f>> \o k \in Seq(GoodFrame) /\ <<f>> \o k # <<>>
        /\ Head(<<f>> \o k) = f /\ Tail(<<f>> \o k) = k
    BY <2>1, PushSeq DEF Callbacks
  <2> DEFINE t == <<f>> \o k
  <2>3. /\ Has(Cargo(t), S) <=> pkt \in S \/ Has(Cargo(k), S)
        /\ One(Cargo(t), S) <=> One(Cargo(k), S) /\ ~ (pkt \in S /\ Has(Cargo(k), S))
    BY <2>1, <2>2, CargoPlace
  <2>4. /\ stack' = t /\ s' = "Disconnected"
        /\ ~ Has(writeQueue', S) /\ ~ Has(outbound', S)
        /\ ~ Has(inbound', S) /\ ~ Has(readQueue', S)
        /\ One(writeQueue', S) /\ One(outbound', S) /\ One(inbound', S) /\ One(readQueue', S)
    BY <1>2, EmptyPlace DEF CloseThen
  <2> HIDE DEF t
  <2>5. QED
    BY <2>3, <2>4 DEF Keeps, Somewhere, SomewhereWith, Once, OnceWith
<1>3. CASE Enqueue(pkt, k)
  BY <1>3, EnqueueMoves
<1>4. QED
  BY <1>1, <1>2, <1>3 DEF Send, Close

-----------------------------------------------------------------------------
(***************************************************************************)
(* The steps of the socket itself.                                         *)
(***************************************************************************)
Moves(S) == Shrinks(S, stack) /\ Keeps(S, stack)

LEMMA SendRestTyped ==
    ASSUME SocketTyped, SendRest
    PROVE  /\ SocketTyped' /\ s' = s
           /\ stack # <<>> /\ Head(stack).at = "send"
           /\ stack' = Tail(stack) \/ (stack' = Abort /\ s = "Disconnected")
<1> DEFINE pkt == Head(Head(stack).arg)
<1>1. stack # <<>> /\ Head(stack).at = "send" /\ Enqueue(pkt, Tail(stack))
  BY DEF SendRest, Running
<1>2. Callbacks(Tail(stack)) /\ Head(stack) \in GoodFrame
  BY <1>1, PoppedIsCallbacks DEF SocketTyped
<1>3. pkt \in OutPdu
  BY <1>1, <1>2, Loads
<1>4. QED
  BY <1>1, <1>2, <1>3, EnqueueTyped

LEMMA SendRestMoves ==
    ASSUME SocketTyped, SendRest, NEW S \in SUBSET Pdu
    PROVE  Moves(S)
<1> DEFINE pkt == Head(Head(stack).arg)
<1>1. stack # <<>> /\ Head(stack).at = "send" /\ Enqueue(pkt, Tail(stack))
  BY DEF SendRest, Running
<1>2. Callbacks(Tail(stack)) /\ Head(stack) \in GoodFrame
  BY <1>1, PoppedIsCallbacks DEF SocketTyped
<1>3. pkt \in OutPdu /\ pkt = Load(Head(stack))
  BY <1>1, <1>2, Loads
<1> HIDE DEF pkt
<1>4. /\ Somewhere(S)' => SomewhereWith(S, Tail(stack)) \/ pkt \in S
      /\ pkt \in S => Somewhere(S)'
      /\ OnceWith(S, Tail(stack)) /\ ~ (pkt \in S /\ SomewhereWith(S, Tail(stack))) => Once(S)'
      /\ Keeps(S, Tail(stack))
  BY <1>1, <1>2, <1>3, EnqueueMoves
<1>5. /\ Somewhere(S) <=> pkt \in S \/ SomewhereWith(S, Tail(stack))
      /\ Once(S) <=> /\ OnceWith(S, Tail(stack))
                     /\ ~ (pkt \in S /\ SomewhereWith(S, Tail(stack)))
  BY <1>1, <1>3, PopStack
<1>6. SomewhereWith(S, stack) = Somewhere(S) /\ OnceWith(S, stack) = Once(S)
  BY DEF Somewhere, Once
<1>7. QED
  BY <1>4, <1>5, <1>6 DEF Moves, Shrinks, Keeps

\* Popping a frame that carries nothing.
LEMMA PopMoves ==
    ASSUME SocketTyped, stack # <<>>, Load(Head(stack)) \notin Pdu,
           stack' = Tail(stack) \/ (stack' = Abort /\ s' = "Disconnected"),
           UNCHANGED <<readQueue, writeQueue, outbound, inbound>>,
           NEW S \in SUBSET Pdu
    PROVE  Moves(S)
<1>1. /\ Somewhere(S) <=> SomewhereWith(S, Tail(stack))
      /\ Once(S) <=> OnceWith(S, Tail(stack))
  BY PopStack
<1>2. SomewhereWith(S, stack) = Somewhere(S) /\ OnceWith(S, stack) = Once(S)
  BY DEF Somewhere, Once
<1>3. CASE stack' = Tail(stack)
  BY <1>1, <1>2, <1>3 DEF Moves, Shrinks, Keeps, Somewhere, SomewhereWith, Once, OnceWith
<1>4. CASE stack' = Abort /\ s' = "Disconnected"
  <2>1. ~ Has(Cargo(stack'), S) /\ One(Cargo(stack'), S)
    BY <1>4, NoPduNowhere, AbortIsOK
  <2>2. QED
    BY <1>1, <1>2, <1>4, <2>1 DEF Moves, Shrinks, Keeps, Somewhere, SomewhereWith, Once, OnceWith
<1>5. QED
  BY <1>3, <1>4

LEMMA WriteRestTyped ==
    ASSUME SocketTyped, WriteRest
    PROVE  /\ SocketTyped' /\ s' = s
           /\ stack # <<>> /\ Head(stack).at = "write" /\ Load(Head(stack)) = NoPdu
           /\ stack' = Tail(stack) \/ (stack' = Abort /\ s = "Disconnected")
           /\ UNCHANGED <<readQueue, writeQueue, outbound, inbound>>
<1>1. stack # <<>> /\ Head(stack).at = "write"
  BY DEF WriteRest, Running
<1>2. Callbacks(Tail(stack)) /\ Head(stack) \in GoodFrame
  BY <1>1, PoppedIsCallbacks DEF SocketTyped
<1>3. StackOK(Tail(stack), s) /\ StackOK(Abort, s)
  BY <1>2, CallbacksAreOK, AbortIsOK
<1>4. Load(Head(stack)) = NoPdu
  BY <1>1, <1>2, Loads
<1>5. QED
  BY <1>1, <1>3, <1>4 DEF WriteRest, SetWriteEnabled, SocketTyped

LEMMA BareStack ==
    ASSUME NEW at \in {"write", "readyRead", "connected"}, NEW state,
           at = "write" => state # "Connected"
    PROVE  /\ StackOK(<<Frame(at, <<>>)>>, state)
           /\ <<Frame(at, <<>>)>> # <<>> /\ Head(<<Frame(at, <<>>)>>).at = at
           /\ \A S \in SUBSET Pdu :
                  ~ Has(Cargo(<<Frame(at, <<>>)>>), S) /\ One(Cargo(<<Frame(at, <<>>)>>), S)
<1> DEFINE f == Frame(at, <<>>)
<1> DEFINE k == <<f>>
<1>1. f \in GoodFrame /\ f.at = at /\ Load(f) = NoPdu
  BY MakeFrame
<1> HIDE DEF f
<1>2. k \in Seq(GoodFrame) /\ DOMAIN k = 1..1 /\ k[1] = f /\ k # <<>> /\ Head(k) = f
  BY <1>1
<1> HIDE DEF k
<1>3. DOMAIN Cargo(k) = 1..1 /\ Cargo(k)[1] = NoPdu
  BY <1>1, <1>2 DEF Cargo
<1>4. \A S \in SUBSET Pdu : NoPdu \notin S
  BY NoPduNowhere
<1>5. StackOK(k, state) /\ k # <<>> /\ Head(k).at = at
  BY <1>1, <1>2 DEF StackOK, SuspendedFrames
<1>6. \A S \in SUBSET Pdu : ~ Has(Cargo(k), S) /\ One(Cargo(k), S)
  BY <1>3, <1>4 DEF Has, One
<1>7. QED
  BY <1>5, <1>6 DEF k, f

LEMMA ReadPacketTyped ==
    ASSUME SocketTyped, ReadPacket
    PROVE  /\ SocketTyped' /\ s' = s
           /\ stack = <<>>
           /\ stack' \in {<<>>, <<Frame("readyRead", <<>>)>>}
<1>1. Head(inbound) \in InPdu /\ Tail(inbound) \in Seq(InPdu)
  BY HeadPlace DEF SocketTyped, ReadPacket
<1>2. Append(readQueue, Head(inbound)) \in Seq(InPdu)
  BY <1>1, AppendPlace DEF SocketTyped
<1>3. stack' \in {<<>>, <<Frame("readyRead", <<>>)>>}
  BY DEF ReadPacket, ReadyRead
<1>4. StackOK(<<>>, s) /\ StackOK(<<Frame("readyRead", <<>>)>>, s)
  BY BareStack DEF StackOK
<1>5. QED
  BY <1>1, <1>2, <1>3, <1>4 DEF ReadPacket, Idle, SocketTyped

LEMMA ReadPacketMoves ==
    ASSUME SocketTyped, ReadPacket, NEW S \in SUBSET Pdu
    PROVE  Moves(S)
<1> DEFINE p == Head(inbound)
<1>1. p \in InPdu /\ inbound \in Seq(InPdu) /\ inbound # <<>> /\ readQueue \in Seq(InPdu)
  BY HeadPlace DEF SocketTyped, ReadPacket
<1>2. /\ Has(inbound, S) <=> p \in S \/ Has(inbound', S)
      /\ One(inbound, S) <=> One(inbound', S) /\ ~ (p \in S /\ Has(inbound', S))
  BY <1>1, HeadPlace DEF ReadPacket
<1>3. /\ Has(readQueue', S) <=> Has(readQueue, S) \/ p \in S
      /\ One(readQueue', S) <=> One(readQueue, S) /\ ~ (Has(readQueue, S) /\ p \in S)
  BY <1>1, AppendPlace DEF ReadPacket
<1>4. /\ ~ Has(Cargo(stack), S)
      /\ ~ Has(Cargo(stack'), S) /\ One(Cargo(stack'), S)
  BY ReadPacketTyped, EmptyPlace, BareStack
<1> HIDE DEF p
<1>5. UNCHANGED <<s, writeQueue, outbound>>
  BY DEF ReadPacket
<1>6. QED
  BY <1>2, <1>3, <1>4, <1>5 DEF Moves, Shrinks, Keeps, Somewhere, SomewhereWith, Once, OnceWith

LEMMA ReadFailsTyped ==
    ASSUME SocketTyped, ReadFails
    PROVE  SocketTyped' /\ s' = "Disconnected" /\ stack = <<>> /\ stack' = <<>>
<1>1. StackOK(<<>>, "Disconnected")
  BY DEF StackOK
<1>2. QED
  BY <1>1, CloseTyped DEF ReadFails, Close, CloseThen, Idle

LEMMA ReadFailsMoves ==
    ASSUME SocketTyped, ReadFails, NEW S \in SUBSET Pdu
    PROVE  Moves(S)
BY CloseMoves DEF ReadFails, Close, Idle, Moves

\* The five outcomes of writeNotify().
LEMMA WriteNotifyTyped ==
    ASSUME SocketTyped, WriteNotify
    PROVE  /\ SocketTyped'
           /\ stack = <<>>
           /\ \/ s = "Connecting" /\ s' = "Connected" /\ stack' = <<Frame("connected", <<>>)>>
              \/ s' \in {s, "Disconnected"} /\ stack' = <<>>
              \/ s' = "Disconnected" /\ stack' = <<Frame("write", <<>>)>>
<1>1. stack = <<>> /\ StackOK(<<>>, s) /\ StackOK(<<>>, "Disconnected")
  <2>1. stack = <<>>
    BY Zenon DEF WriteNotify, ConnectSucceeds, ConnectFails, WriteHead, WriteNothing, WriteFails,
                 Writable, Idle
  <2>2. \A state : StackOK(<<>>, state)
    BY DEF StackOK
  <2>3. QED
    BY <2>1, <2>2
<1>2. CASE ConnectSucceeds
  <2>1. StackOK(<<Frame("connected", <<>>)>>, "Connected")
    BY BareStack
  <2>2. QED
    BY <1>1, <1>2, <2>1 DEF ConnectSucceeds, Writable, SocketTyped, State
<1>3. CASE ConnectFails
  BY <1>1, <1>3, CloseTyped DEF ConnectFails, Close, CloseThen
<1>4. CASE WriteHead
  <2>1. Head(writeQueue) \in OutPdu /\ Tail(writeQueue) \in Seq(OutPdu)
    BY <1>4, HeadPlace DEF SocketTyped, WriteHead
  <2>2. Append(outbound, Head(writeQueue)) \in Seq(OutPdu)
    BY <2>1, AppendPlace DEF SocketTyped
  <2>3. QED
    BY <1>1, <1>4, <2>1, <2>2 DEF WriteHead, SocketTyped
<1>5. CASE WriteNothing
  BY <1>1, <1>5 DEF WriteNothing, Writable, SetWriteEnabled, SocketTyped
<1>6. CASE WriteFails
  <2>1. StackOK(<<Frame("write", <<>>)>>, "Disconnected")
    BY BareStack
  <2>2. QED
    BY <1>1, <1>6, <2>1, CloseTyped DEF WriteFails, Close, CloseThen
<1>7. QED
  BY <1>2, <1>3, <1>4, <1>5, <1>6 DEF WriteNotify

LEMMA WriteNotifyMoves ==
    ASSUME SocketTyped, WriteNotify, NEW S \in SUBSET Pdu
    PROVE  Moves(S)
<1>1. stack = <<>> /\ ~ Has(Cargo(stack), S) /\ One(Cargo(stack), S)
  BY WriteNotifyTyped, EmptyPlace
<1>2. CASE ConnectSucceeds
  <2>1. ~ Has(Cargo(stack'), S) /\ One(Cargo(stack'), S)
    BY <1>2, BareStack DEF ConnectSucceeds
  <2>2. QED
    BY <1>1, <1>2, <2>1
       DEF ConnectSucceeds, Moves, Shrinks, Keeps, Somewhere, SomewhereWith, Once, OnceWith
<1>3. CASE ConnectFails
  BY <1>1, <1>3, CloseMoves DEF ConnectFails, Close, Moves
<1>4. CASE WriteHead
  <2> DEFINE p == Head(writeQueue)
  <2>1. p \in OutPdu /\ writeQueue \in Seq(OutPdu) /\ writeQueue # <<>> /\ outbound \in Seq(OutPdu)
    BY <1>4, HeadPlace DEF SocketTyped, WriteHead
  <2>2. /\ Has(writeQueue, S) <=> p \in S \/ Has(writeQueue', S)
        /\ One(writeQueue, S) <=> One(writeQueue', S) /\ ~ (p \in S /\ Has(writeQueue', S))
    BY <1>4, <2>1, HeadPlace DEF WriteHead
  <2>3. /\ Has(outbound', S) <=> Has(outbound, S) \/ p \in S
        /\ One(outbound', S) <=> One(outbound, S) /\ ~ (Has(outbound, S) /\ p \in S)
    BY <1>4, <2>1, AppendPlace DEF WriteHead
  <2> HIDE DEF p
  <2>4. UNCHANGED <<s, stack, inbound, readQueue>>
    BY <1>4 DEF WriteHead
  <2>5. QED
    BY <2>2, <2>3, <2>4 DEF Moves, Shrinks, Keeps, Somewhere, SomewhereWith, Once, OnceWith
<1>5. CASE WriteNothing
  BY <1>1, <1>5 DEF WriteNothing, Writable, SetWriteEnabled, Moves, Shrinks, Keeps, Somewhere,
                    SomewhereWith, Once, OnceWith
<1>6. CASE WriteFails
  <2>1. ~ Has(Cargo(stack'), S) /\ One(Cargo(stack'), S)
    BY <1>6, BareStack DEF WriteFails, Close, CloseThen
  <2>2. Shrinks(S, stack') /\ s' = "Disconnected"
    BY <1>6, CloseMoves DEF WriteFails, Close, CloseThen
  <2>3. QED
    BY <1>1, <2>1, <2>2 DEF Moves, Shrinks, Keeps, SomewhereWith, OnceWith, Somewhere, Once
<1>7. QED
  BY <1>2, <1>3, <1>4, <1>5, <1>6 DEF WriteNotify

-----------------------------------------------------------------------------
(***************************************************************************)
(* The steps of the client that receive.                                   *)
(***************************************************************************)
\* A frame that takes the place of the head of the stack.
LEMMA ReplaceTyped ==
    ASSUME SocketTyped, stack # <<>>, NEW f \in GoodFrame, f.at \notin SuspendedFrames
    PROVE  /\ StackOK(<<f>> \o Tail(stack), s)
           /\ Callbacks(Tail(stack))
           /\ <<f>> \o Tail(stack) # <<>> /\ Head(<<f>> \o Tail(stack)) = f
           /\ \A S : /\ Has(Cargo(<<f>> \o Tail(stack)), S) <=>
                            Load(f) \in S \/ Has(Cargo(Tail(stack)), S)
                     /\ One(Cargo(<<f>> \o Tail(stack)), S) <=>
                            /\ One(Cargo(Tail(stack)), S)
                            /\ ~ (Load(f) \in S /\ Has(Cargo(Tail(stack)), S))
<1> DEFINE k == Tail(stack)
<1>1. Callbacks(k)
  BY PoppedIsCallbacks DEF SocketTyped
<1> HIDE DEF k
<1>2. /\ StackOK(<<f>> \o k, s)
      /\ <<f>> \o k # <<>> /\ Head(<<f>> \o k) = f /\ Tail(<<f>> \o k) = k
      /\ <<f>> \o k \in Seq(GoodFrame)
  BY <1>1, PushedIsOK DEF StackOK
<1>3. \A S : /\ Has(Cargo(<<f>> \o k), S) <=> Load(f) \in S \/ Has(Cargo(k), S)
             /\ One(Cargo(<<f>> \o k), S) <=>
                    One(Cargo(k), S) /\ ~ (Load(f) \in S /\ Has(Cargo(k), S))
  BY <1>2, CargoPlace
<1>4. QED
  BY <1>1, <1>2, <1>3 DEF k

LEMMA ReceiveTyped ==
    ASSUME SocketTyped, ReceivePdu
    PROVE  /\ SocketTyped' /\ s' = s
           /\ stack # <<>> /\ Head(stack).at = "readyRead" /\ Load(Head(stack)) = NoPdu
           /\ Head(readQueue) \in InPdu
           /\ stack' = <<Frame("received", <<Head(readQueue)>>)>> \o Tail(stack)
           /\ stack' # <<>> /\ Head(stack').at = "received"
<1> DEFINE p == Head(readQueue)
<1> DEFINE f == Frame("received", <<p>>)
<1>1. /\ stack # <<>> /\ Head(stack).at = "readyRead"
      /\ readQueue # <<>> /\ readQueue' = Tail(readQueue)
      /\ stack' = <<f>> \o Tail(stack)
      /\ UNCHANGED <<s, writeEnabled, writeQueue, outbound, inbound>>
  BY DEF ReceivePdu, Running, Receive
<1>2. p \in InPdu /\ Tail(readQueue) \in Seq(InPdu)
  BY <1>1, HeadPlace DEF SocketTyped
<1>3. f \in GoodFrame /\ f.at = "received" /\ Load(f) = p
  BY <1>2, MakeFrame
<1>4. Head(stack) \in GoodFrame
  BY <1>1, PoppedIsCallbacks DEF SocketTyped
<1>5. Load(Head(stack)) = NoPdu
  BY <1>1, <1>4, Loads
<1> HIDE DEF f
<1>6. StackOK(stack', s) /\ stack' # <<>> /\ Head(stack') = f
  BY <1>1, <1>3, ReplaceTyped DEF SuspendedFrames
<1>7. SocketTyped'
  BY <1>1, <1>2, <1>6 DEF SocketTyped
<1>8. QED
  BY <1>1, <1>2, <1>3, <1>5, <1>6, <1>7 DEF f

LEMMA ReceiveMoves ==
    ASSUME SocketTyped, ReceivePdu, NEW S \in SUBSET Pdu
    PROVE  Moves(S)
<1> DEFINE p == Head(readQueue)
<1> DEFINE f == Frame("received", <<p>>)
<1> DEFINE k == Tail(stack)
<1>1. /\ stack # <<>> /\ Load(Head(stack)) = NoPdu /\ p \in InPdu /\ stack' = <<f>> \o k
  BY ReceiveTyped
<1>2. f \in GoodFrame /\ f.at = "received" /\ Load(f) = p
  BY <1>1, MakeFrame
<1> HIDE DEF f
<1>3. /\ Has(Cargo(stack'), S) <=> p \in S \/ Has(Cargo(k), S)
      /\ One(Cargo(stack'), S) <=> One(Cargo(k), S) /\ ~ (p \in S /\ Has(Cargo(k), S))
  BY <1>1, <1>2, ReplaceTyped DEF SuspendedFrames
<1>4. stack \in Seq(GoodFrame) /\ readQueue \in Seq(InPdu) /\ readQueue # <<>>
      /\ readQueue' = Tail(readQueue)
  BY DEF SocketTyped, StackOK, ReceivePdu, Receive
<1>5. /\ Has(Cargo(stack), S) <=> Has(Cargo(k), S)
      /\ One(Cargo(stack), S) <=> One(Cargo(k), S)
  BY <1>1, <1>4, CargoPlace, NoPduNowhere
<1>6. /\ Has(readQueue, S) <=> p \in S \/ Has(readQueue', S)
      /\ One(readQueue, S) <=> One(readQueue', S) /\ ~ (p \in S /\ Has(readQueue', S))
  BY <1>4, HeadPlace
<1> HIDE DEF p, k
<1>7. UNCHANGED <<s, writeQueue, outbound, inbound>>
  BY DEF ReceivePdu
<1>8. QED
  BY <1>3, <1>5, <1>6, <1>7 DEF Moves, Shrinks, Keeps, Somewhere, SomewhereWith, Once, OnceWith

\* The packet that has been received.
LEMMA ReceivedIsIn ==
    ASSUME SocketTyped, Running("received")
    PROVE  /\ stack # <<>> /\ Head(stack).at = "received"
           /\ Received \in InPdu /\ Received = Load(Head(stack))
           /\ Callbacks(Tail(stack))
<1>1. stack # <<>> /\ Head(stack).at = "received"
  BY DEF Running
<1>2. Head(stack) \in GoodFrame /\ Callbacks(Tail(stack))
  BY <1>1, PoppedIsCallbacks DEF SocketTyped
<1>3. QED
  BY <1>1, <1>2, Loads DEF Received

LEMMA UnansweredTyped ==
    ASSUME SocketTyped, HandleUnanswered
    PROVE  SocketTyped' /\ s' = s /\ stack' = Tail(stack)
<1>1. /\ Running("received") /\ stack' = Tail(stack)
      /\ UNCHANGED <<s, writeEnabled, readQueue, writeQueue, outbound, inbound>>
  BY DEF HandleUnanswered, SocketUnchangedBut
<1>2. StackOK(Tail(stack), s)
  BY <1>1, ReceivedIsIn, CallbacksAreOK
<1>3. QED
  BY <1>1, <1>2 DEF SocketTyped

LEMMA UnansweredMoves ==
    ASSUME SocketTyped, HandleUnanswered, NEW S \in SUBSET Pdu
    PROVE  /\ Shrinks(S, stack)
           /\ Received \notin S => Moves(S)
<1>1. /\ Running("received") /\ stack' = Tail(stack)
      /\ UNCHANGED <<s, writeEnabled, readQueue, writeQueue, outbound, inbound>>
  BY DEF HandleUnanswered, SocketUnchangedBut
<1>2. stack # <<>> /\ Received = Load(Head(stack))
  BY <1>1, ReceivedIsIn
<1>3. /\ Somewhere(S) <=> Received \in S \/ SomewhereWith(S, Tail(stack))
      /\ Once(S) <=> /\ OnceWith(S, Tail(stack))
                     /\ ~ (Received \in S /\ SomewhereWith(S, Tail(stack)))
  BY <1>2, PopStack
<1>4. Somewhere(S)' = SomewhereWith(S, Tail(stack)) /\ Once(S)' = OnceWith(S, Tail(stack))
  BY <1>1 DEF Somewhere, Once, SomewhereWith, OnceWith
<1>5. SomewhereWith(S, stack) = Somewhere(S) /\ OnceWith(S, stack) = Once(S)
  BY DEF Somewhere, Once
<1>6. QED
  BY <1>3, <1>4, <1>5 DEF Moves, Shrinks, Keeps

\* What handleResponse() calls back for is an answer, if nobody mistakes a
\* peer's request for one.
LEMMA ResponseTyped ==
    ASSUME Typed, HandleResponse
    PROVE  /\ SocketTyped' /\ s' = s
           /\ Received \in AnswerPdu
           /\ stack' = <<Frame("response", <<Received>>)>> \o Tail(stack)
<1> DEFINE f == Frame("response", <<Received>>)
<1>1. /\ Running("received") /\ ~ IsEvent(Received) /\ pending_requests # <<>>
      /\ Answers(Received, Head(pending_requests))
      /\ stack' = <<f>> \o Tail(stack)
      /\ UNCHANGED <<s, writeEnabled, readQueue, writeQueue, outbound, inbound>>
  BY DEF HandleResponse, SocketUnchangedBut
<1>2. SocketTyped /\ stack # <<>> /\ Received \in InPdu
  BY <1>1, ReceivedIsIn DEF Typed
<1>3. NoMistake => Received.id # 0
  BY <1>1, <1>2 DEF NoMistake, Answers, IsEvent, InPdu
<1>4. Received \in AnswerPdu
  BY <1>1, <1>2, <1>3 DEF AnswerPdu
<1>5. f \in GoodFrame /\ f.at = "response"
  BY <1>4, MakeFrame
<1>6. StackOK(stack', s)
  BY <1>1, <1>2, <1>5, ReplaceTyped DEF SuspendedFrames
<1>7. QED
  BY <1>1, <1>2, <1>4, <1>6 DEF SocketTyped

LEMMA ResponseMoves ==
    ASSUME Typed, HandleResponse, NEW S \in SUBSET Pdu
    PROVE  Moves(S)
<1> DEFINE f == Frame("response", <<Received>>)
<1> DEFINE k == Tail(stack)
<1>1. /\ Running("received") /\ stack' = <<f>> \o k
      /\ UNCHANGED <<s, readQueue, writeQueue, outbound, inbound>>
  BY DEF HandleResponse, SocketUnchangedBut
<1>2. SocketTyped /\ stack # <<>> /\ Received = Load(Head(stack)) /\ Received \in AnswerPdu
  BY <1>1, ReceivedIsIn, ResponseTyped DEF Typed
<1>3. f \in GoodFrame /\ f.at = "response" /\ Load(f) = Received
  BY <1>2, MakeFrame
<1> HIDE DEF f
<1>4. /\ Has(Cargo(stack'), S) <=> Received \in S \/ Has(Cargo(k), S)
      /\ One(Cargo(stack'), S) <=> One(Cargo(k), S) /\ ~ (Received \in S /\ Has(Cargo(k), S))
  BY <1>1, <1>2, <1>3, ReplaceTyped DEF SuspendedFrames
<1>5. stack \in Seq(GoodFrame)
  BY <1>2 DEF SocketTyped, StackOK
<1>6. /\ Has(Cargo(stack), S) <=> Received \in S \/ Has(Cargo(k), S)
      /\ One(Cargo(stack), S) <=> One(Cargo(k), S) /\ ~ (Received \in S /\ Has(Cargo(k), S))
  BY <1>2, <1>5, CargoPlace
<1> HIDE DEF k
<1>7. QED
  BY <1>1, <1>4, <1>6 DEF Moves, Shrinks, Keeps, Somewhere, SomewhereWith, Once, OnceWith

-----------------------------------------------------------------------------
(***************************************************************************)
(* The server, which turns a request into its answer.                      *)
(***************************************************************************)
AnswerTo(pdu, kind) == [pdu EXCEPT !.kind = kind]

LEMMA AnswerIsIn ==
    ASSUME NEW pdu \in OutPdu, pdu.kind = "request", NEW kind \in {"response", "error"}
    PROVE  /\ AnswerTo(pdu, kind) \in InPdu
           /\ AnswerTo(pdu, kind).kind = kind
           /\ AnswerTo(pdu, kind).id = pdu.id /\ AnswerTo(pdu, kind).op = pdu.op
           /\ pdu.id # 0
BY DEF AnswerTo, OutPdu, InPdu, Pdu, Kind

LEMMA ServerTakesTyped ==
    ASSUME SocketTyped, NEW pdu, ServerTakes(pdu)
    PROVE  /\ SocketTyped' /\ s' = s /\ stack' = stack
           /\ pdu \in OutPdu /\ pdu = Head(outbound)
<1>1. /\ outbound # <<>> /\ pdu = Head(outbound) /\ outbound' = Tail(outbound)
      /\ UNCHANGED <<s, writeEnabled, readQueue, writeQueue, stack>>
  BY DEF ServerTakes
<1>2. pdu \in OutPdu /\ Tail(outbound) \in Seq(OutPdu)
  BY <1>1, HeadPlace DEF SocketTyped
<1>3. inbound' \in Seq(InPdu)
  <2>1. CASE inbound' = inbound
    BY <2>1 DEF SocketTyped
  <2>2. CASE inbound' # inbound
    <3>1. PICK kind \in {"response", "error"} : inbound' = Append(inbound, AnswerTo(pdu, kind))
      BY <2>2 DEF ServerTakes, AnswerTo
    <3>2. pdu.kind = "request"
      BY <2>2 DEF ServerTakes
    <3>3. QED
      BY <1>2, <3>1, <3>2, AnswerIsIn, AppendPlace DEF SocketTyped
  <2>3. QED
    BY <2>1, <2>2
<1>4. QED
  BY <1>1, <1>2, <1>3 DEF SocketTyped

\* S has a request if it has its answers, and nothing else the server takes.
LEMMA ServerTakesMoves ==
    ASSUME SocketTyped, NEW pdu, ServerTakes(pdu), NEW S \in SUBSET Pdu,
           pdu.kind = "request" =>
               \A kind \in {"response", "error"} : AnswerTo(pdu, kind) \in S <=> pdu \in S
    PROVE  /\ Shrinks(S, stack)
           /\ (pdu.kind # "request" => pdu \notin S) => Moves(S)
<1>1. /\ outbound \in Seq(OutPdu) /\ inbound \in Seq(InPdu)
      /\ outbound # <<>> /\ pdu = Head(outbound) /\ outbound' = Tail(outbound)
      /\ UNCHANGED <<s, writeEnabled, readQueue, writeQueue, stack>>
  BY DEF ServerTakes, SocketTyped
<1>2. /\ Has(outbound, S) <=> pdu \in S \/ Has(outbound', S)
      /\ One(outbound, S) <=> One(outbound', S) /\ ~ (pdu \in S /\ Has(outbound', S))
  BY <1>1, HeadPlace
<1>3. CASE pdu.kind = "request"
  <2>1. PICK kind \in {"response", "error"} : inbound' = Append(inbound, AnswerTo(pdu, kind))
    BY <1>3 DEF ServerTakes, AnswerTo
  <2>2. AnswerTo(pdu, kind) \in InPdu
    BY <1>3, ServerTakesTyped, AnswerIsIn
  <2>3. AnswerTo(pdu, kind) \in S <=> pdu \in S
    BY <1>3
  <2>4. /\ Has(inbound', S) <=> Has(inbound, S) \/ pdu \in S
        /\ One(inbound', S) <=> One(inbound, S) /\ ~ (Has(inbound, S) /\ pdu \in S)
    BY <1>1, <2>1, <2>2, <2>3, AppendPlace
  <2>5. QED
    BY <1>1, <1>2, <2>4 DEF Moves, Shrinks, Keeps, Somewhere, SomewhereWith, Once, OnceWith
<1>4. CASE pdu.kind # "request"
  <2>1. inbound' = inbound
    BY <1>4 DEF ServerTakes
  <2>2. QED
    BY <1>1, <1>2, <1>4, <2>1
       DEF Moves, Shrinks, Keeps, Somewhere, SomewhereWith, Once, OnceWith
<1>5. QED
  BY <1>3, <1>4

LEMMA PeerSendsTyped ==
    ASSUME SocketTyped, NEW kind \in {"notification", "indication", "request"}, PeerSends(kind)
    PROVE  /\ SocketTyped' /\ s' = s /\ stack' = stack
           /\ Unsolicited(kind) \in InPdu
<1>1. Unsolicited(kind) \in InPdu
  BY DEF PeerSends, Unsolicited, InPdu, Pdu, Kind
<1>2. Append(inbound, Unsolicited(kind)) \in Seq(InPdu)
  BY <1>1, AppendPlace DEF SocketTyped
<1>3. QED
  BY <1>1, <1>2 DEF PeerSends, SocketTyped

LEMMA PeerSendsMoves ==
    ASSUME SocketTyped, NEW kind \in {"notification", "indication", "request"}, PeerSends(kind),
           NEW S \in SUBSET Pdu
    PROVE  /\ Unsolicited(kind) \notin S => Moves(S)
           /\ Unsolicited(kind) \in S => Somewhere(S)'
           /\ Once(S) /\ ~ Somewhere(S) => Once(S)'
           /\ Keeps(S, stack)
<1> DEFINE p == Unsolicited(kind)
<1>1. p \in InPdu /\ inbound \in Seq(InPdu) /\ inbound' = Append(inbound, p)
      /\ UNCHANGED <<s, readQueue, writeQueue, outbound, stack>>
  BY PeerSendsTyped DEF PeerSends, SocketTyped
<1>2. /\ Has(inbound', S) <=> Has(inbound, S) \/ p \in S
      /\ One(inbound', S) <=> One(inbound, S) /\ ~ (Has(inbound, S) /\ p \in S)
  BY <1>1, AppendPlace
<1> HIDE DEF p
<1>3. QED
  BY <1>1, <1>2 DEF Moves, Shrinks, Keeps, Somewhere, SomewhereWith, Once, OnceWith, p

-----------------------------------------------------------------------------
(***************************************************************************)
(* Requests.                                                               *)
(***************************************************************************)
LEMMA OutPdus ==
    /\ \A req \in Request : RequestPdu(req) \in OutPdu /\ RequestPdu(req) \in Own
    /\ \A kind \in {"command", "confirmation"} : Unsolicited(kind) \in OutPdu
<1>1. ASSUME NEW req \in Request PROVE RequestPdu(req) \in OutPdu /\ RequestPdu(req) \in Own
  BY DEF RequestPdu, Request, OutPdu, Own, Pdu, Kind, Opcode
<1>2. ASSUME NEW kind \in {"command", "confirmation"} PROVE Unsolicited(kind) \in OutPdu
  BY DEF Unsolicited, OutPdu, Pdu, Kind
<1>3. QED
  BY <1>1, <1>2

\* The request made, and whether it is sent.
NewRequest(op) == [id |-> next_id, op |-> op]

LEMMA DoRequestTyped ==
    ASSUME Typed, NEW op \in Opcode, NEW k, Callbacks(k), DoRequest(op, k)
    PROVE  /\ SocketTyped' /\ NewRequest(op) \in Request
           /\ pending_requests' = Append(pending_requests, NewRequest(op))
           /\ pending_requests' \in Seq(Request)
           /\ next_id' = next_id + 1 /\ next_id' \in Nat \ {0}
           /\ IF pending_requests = <<>> THEN Send(RequestPdu(NewRequest(op)), k)
                                         ELSE SocketUnchangedBut(k)
           /\ s' \in {s, "Disconnected"}
           /\ stack' \in {k, <<Frame("send", <<RequestPdu(NewRequest(op))>>)>> \o k, Abort}
           /\ stack' = <<Frame("send", <<RequestPdu(NewRequest(op))>>)>> \o k => WriteMayFail
<1> DEFINE req == NewRequest(op)
<1>1. req \in Request
  BY DEF Typed, AttTyped, Request, NewRequest
<1>2. /\ next_id' = next_id + 1 /\ pending_requests' = Append(pending_requests, req)
      /\ IF Len(pending_requests') = 1 THEN Send(RequestPdu(req), k) ELSE SocketUnchangedBut(k)
  BY DEF DoRequest, NewRequest
<1>3. pending_requests \in Seq(Request) /\ next_id \in Nat \ {0}
  BY DEF Typed, AttTyped
<1> HIDE DEF req
<1>4. /\ pending_requests' \in Seq(Request)
      /\ Len(pending_requests') = 1 <=> pending_requests = <<>>
  BY <1>1, <1>2, <1>3, EmptySeq, LenProperties
<1>5. CASE pending_requests = <<>>
  <2>1. Send(RequestPdu(req), k) /\ RequestPdu(req) \in OutPdu
    BY <1>1, <1>2, <1>4, <1>5, OutPdus
  <2>2. QED
    BY <1>1, <1>2, <1>3, <1>4, <1>5, <2>1, SendTyped DEF Typed, req
<1>6. CASE pending_requests # <<>>
  <2>1. SocketUnchangedBut(k)
    BY <1>2, <1>4, <1>6
  <2>2. StackOK(k, s)
    BY CallbacksAreOK
  <2>3. SocketTyped'
    BY <2>1, <2>2 DEF SocketUnchangedBut, SocketTyped, Typed
  <2>4. stack' = k /\ s' = s
    BY <2>1 DEF SocketUnchangedBut
  <2>5. <<Frame("send", <<RequestPdu(req)>>)>> \o k # k
    <3>1. Frame("send", <<RequestPdu(req)>>) \in GoodFrame
          /\ Frame("send", <<RequestPdu(req)>>).at = "send"
      BY <1>1, OutPdus, MakeFrame
    <3>2. <<Frame("send", <<RequestPdu(req)>>)>> \o k # <<>>
          /\ Head(<<Frame("send", <<RequestPdu(req)>>)>> \o k).at = "send"
      BY <3>1, PushedIsOK
    <3>3. QED
      BY <3>2, CallbacksAreOK
  <2>6. QED
    BY <1>1, <1>2, <1>3, <1>4, <1>6, <2>1, <2>3, <2>4, <2>5 DEF req
<1>7. QED
  BY <1>5, <1>6

LEMMA NextRequestTyped ==
    ASSUME Typed, pending_requests # <<>>, NEW k, Callbacks(k), NextRequest(k)
    PROVE  /\ SocketTyped'
           /\ pending_requests' = Tail(pending_requests)
           /\ pending_requests' \in Seq(Request)
           /\ pending_requests' # <<>> => Head(pending_requests') \in Request
           /\ IF pending_requests' = <<>> THEN SocketUnchangedBut(k)
                                          ELSE Send(RequestPdu(Head(pending_requests')), k)
           /\ s' \in {s, "Disconnected"}
           /\ stack' \in {k, Abort,
                          <<Frame("send", <<RequestPdu(Head(pending_requests'))>>)>> \o k}
           /\ Running("send")' => WriteMayFail
<1>1. /\ pending_requests' = Tail(pending_requests)
      /\ IF pending_requests' # <<>> THEN Send(RequestPdu(Head(pending_requests')), k)
                                     ELSE SocketUnchangedBut(k)
  BY DEF NextRequest
<1>2. pending_requests' \in Seq(Request)
  BY <1>1, HeadPlace DEF Typed, AttTyped
<1>3. pending_requests' # <<>> => Head(pending_requests') \in Request
  BY <1>2, HeadPlace
<1>4. k # <<>> => Head(k).at = "response"
  BY CallbacksAreOK
<1>5. CASE pending_requests' = <<>>
  <2>1. SocketUnchangedBut(k) /\ StackOK(k, s)
    BY <1>1, <1>5, CallbacksAreOK
  <2>2. SocketTyped' /\ stack' = k /\ s' = s
    BY <2>1 DEF SocketUnchangedBut, SocketTyped, Typed
  <2>3. QED
    BY <1>1, <1>2, <1>3, <1>4, <1>5, <2>1, <2>2 DEF Running
<1>6. CASE pending_requests' # <<>>
  <2>1. PICK pkt : pkt = RequestPdu(Head(pending_requests'))
    OBVIOUS
  <2>2. pkt \in OutPdu /\ Send(pkt, k)
    BY <1>1, <1>3, <1>6, <2>1, OutPdus
  <2>3. /\ SocketTyped' /\ s' \in {s, "Disconnected"}
        /\ stack' \in {k, <<Frame("send", <<pkt>>)>> \o k, Abort}
        /\ stack' = <<Frame("send", <<pkt>>)>> \o k => WriteMayFail
    BY <2>2, SendTyped DEF Typed
  <2>4. Running("send")' => WriteMayFail
    BY <1>4, <2>3, AbortIsOK DEF Running
  <2>5. QED
    BY <1>1, <1>2, <1>3, <1>6, <2>1, <2>3, <2>4
<1>7. QED
  BY <1>5, <1>6

-----------------------------------------------------------------------------
(***************************************************************************)
(* Every step keeps the types.                                             *)
(***************************************************************************)
\* Calls from the event loop, a callback or the slot of a live link: there is
\* nothing on the stack but callbacks.
LEMMA CallsFromCallbacks ==
    ASSUME SocketTyped, s = "Connected", NEW call, May(call)
    PROVE  Callbacks(stack)
<1>1. stack = <<>> \/ Head(stack).at \notin SuspendedFrames
  BY DEF SocketTyped, StackOK
<1>2. stack = <<>> \/ Head(stack).at = "response"
  BY <1>1 DEF May, InSlot, InCallback, Idle, Running
<1>3. QED
  BY <1>2, RunningIsCallbacks DEF SocketTyped

LEMMA ConfirmationTyped ==
    ASSUME SocketTyped, HandleIndication
    PROVE  /\ SocketTyped' /\ Callbacks(Tail(stack))
           /\ Received \in InPdu /\ Received.kind = "indication"
           /\ stack # <<>> /\ Head(stack).at = "received" /\ Received = Load(Head(stack))
           /\ Unsolicited("confirmation") \in OutPdu
           /\ Send(Unsolicited("confirmation"), Tail(stack))
           /\ stack' \in {Tail(stack), Abort,
                          <<Frame("send", <<Unsolicited("confirmation")>>)>> \o Tail(stack)}
           /\ Running("send")' => WriteMayFail
           /\ s' \in {s, "Disconnected"}
<1>1. /\ Running("received") /\ Received.kind = "indication"
      /\ Send(Unsolicited("confirmation"), Tail(stack))
  BY DEF HandleIndication
<1>2. PICK pkt : pkt = Unsolicited("confirmation")
  OBVIOUS
<1>3. pkt \in OutPdu /\ Send(pkt, Tail(stack)) /\ Callbacks(Tail(stack))
  BY <1>1, <1>2, OutPdus, ReceivedIsIn
<1>4. /\ SocketTyped' /\ s' \in {s, "Disconnected"}
      /\ stack' \in {Tail(stack), <<Frame("send", <<pkt>>)>> \o Tail(stack), Abort}
      /\ stack' = <<Frame("send", <<pkt>>)>> \o Tail(stack) => WriteMayFail
  BY <1>3, SendTyped
<1>5. Tail(stack) # <<>> => Head(Tail(stack)).at = "response"
  BY <1>3, CallbacksAreOK
<1>6. Running("send")' => WriteMayFail
  BY <1>4, <1>5, AbortIsOK DEF Running
<1>7. QED
  BY <1>1, <1>2, <1>3, <1>4, <1>6, ReceivedIsIn

LEMMA CommandTyped ==
    ASSUME SocketTyped, AppCommand
    PROVE  /\ SocketTyped' /\ Callbacks(stack)
           /\ Unsolicited("command") \in OutPdu
           /\ Send(Unsolicited("command"), stack)
           /\ stack' \in {stack, Abort, <<Frame("send", <<Unsolicited("command")>>)>> \o stack}
           /\ Running("send")' => WriteMayFail
           /\ s' \in {s, "Disconnected"}
<1>1. Send(Unsolicited("command"), stack) /\ Callbacks(stack)
  BY CallsFromCallbacks DEF AppCommand
<1>2. PICK pkt : pkt = Unsolicited("command")
  OBVIOUS
<1>3. pkt \in OutPdu /\ Send(pkt, stack)
  BY <1>1, <1>2, OutPdus
<1>4. /\ SocketTyped' /\ s' \in {s, "Disconnected"}
      /\ stack' \in {stack, <<Frame("send", <<pkt>>)>> \o stack, Abort}
      /\ stack' = <<Frame("send", <<pkt>>)>> \o stack => WriteMayFail
  BY <1>1, <1>3, SendTyped
<1>5. stack # <<>> => Head(stack).at = "response"
  BY <1>1, CallbacksAreOK
<1>6. Running("send")' => WriteMayFail
  BY <1>4, <1>5, AbortIsOK DEF Running
<1>7. QED
  BY <1>1, <1>2, <1>3, <1>4, <1>6

LEMMA CloseCallTyped ==
    ASSUME SocketTyped, AppClose
    PROVE  SocketTyped' /\ CloseThen(stack) /\ s' = "Disconnected" /\ stack' = stack
<1>1. CloseThen(stack)
  BY DEF AppClose, Close
<1>2. StackOK(stack, "Disconnected")
  BY DEF SocketTyped, StackOK
<1>3. QED
  BY <1>1, <1>2, CloseTyped DEF CloseThen

\* connect() is answered: the stack below is empty of anything but callbacks.
LEMMA ConnectedTyped ==
    ASSUME Typed, HandleSocketConnected
    PROVE  /\ stack # <<>> /\ Head(stack).at = "connected" /\ Load(Head(stack)) = NoPdu
           /\ Callbacks(Tail(stack)) /\ DoRequest(MtuRequest, Tail(stack))
           /\ MtuRequest \in Opcode
<1>1. stack # <<>> /\ Head(stack).at = "connected"
  BY DEF HandleSocketConnected, Running
<1>2. Callbacks(Tail(stack)) /\ Head(stack) \in GoodFrame
  BY <1>1, PoppedIsCallbacks DEF Typed, SocketTyped
<1>3. QED
  BY <1>1, <1>2, Loads DEF HandleSocketConnected, Opcode

LEMMA ResponseRestTyped ==
    ASSUME Typed, Nested, ResponseRest
    PROVE  /\ stack # <<>> /\ Head(stack).at = "response" /\ Load(Head(stack)) \in AnswerPdu
           /\ pending_requests # <<>> /\ Callbacks(Tail(stack)) /\ Tail(stack) = <<>>
           /\ NextRequest(Tail(stack))
<1>1. stack # <<>> /\ Head(stack).at = "response"
  BY DEF ResponseRest, Running
<1>2. Callbacks(Tail(stack)) /\ Head(stack) \in GoodFrame
  BY <1>1, PoppedIsCallbacks DEF Typed, SocketTyped
<1>3. CalledBack
  <2>1. 1 \in DOMAIN stack /\ Head(stack) = stack[1]
    BY <1>1, EmptySeq, LenProperties DEF Typed, SocketTyped, StackOK
  <2>2. QED
    BY <1>1, <2>1 DEF CalledBack
<1>4. QED
  BY <1>1, <1>2, <1>3, Loads DEF ResponseRest, Nested

LEMMA RemoveTyped ==
    ASSUME NEW P, NEW q \in Seq(P), NEW i \in DOMAIN q
    PROVE  /\ Remove(q, i) \in Seq(P) /\ Len(Remove(q, i)) = Len(q) - 1
           /\ DOMAIN Remove(q, i) = 1..(Len(q) - 1)
           /\ \A j \in 1..(Len(q) - 1) : Remove(q, i)[j] = IF j < i THEN q[j] ELSE q[j + 1]
           /\ i # 1 => Remove(q, i) # <<>> /\ Head(Remove(q, i)) = Head(q)
<1> DEFINE a == SubSeq(q, 1, i - 1)
<1> DEFINE b == SubSeq(q, i + 1, Len(q))
<1> DEFINE n == Len(q)
<1>1. n \in Nat /\ DOMAIN q = 1..n /\ i \in 1..n
  BY LenProperties
<1> HIDE DEF n
<1>2. /\ a \in Seq(P) /\ Len(a) = i - 1
      /\ \A j \in 1..(i - 1) : a[j] = q[j]
  <2>1. \A j \in 1..(i - 1) : q[j] \in P
    BY <1>1, ElementOfSeq DEF n
  <2>2. QED
    BY <1>1, <2>1, SubSeqProperties DEF n
<1>3. /\ b \in Seq(P) /\ Len(b) = n - i
      /\ \A j \in 1..(n - i) : b[j] = q[i + j]
  BY <1>1, SubSeqProperties DEF n
<1> HIDE DEF a, b
<1> DEFINE r == a \o b
<1>4. /\ r \in Seq(P) /\ Len(r) = n - 1
      /\ \A j \in 1..(n - 1) : r[j] = IF j <= i - 1 THEN a[j] ELSE b[j - (i - 1)]
  <2>1. /\ r \in Seq(P) /\ Len(r) = Len(a) + Len(b)
        /\ \A j \in 1..(Len(a) + Len(b)) :
               r[j] = IF j <= Len(a) THEN a[j] ELSE b[j - Len(a)]
    BY <1>2, <1>3, ConcatProperties
  <2> HIDE DEF r
  <2>2. Len(a) + Len(b) = n - 1
    BY <1>1, <1>2, <1>3
  <2>3. QED
    BY <1>2, <2>1, <2>2
<1> HIDE DEF r
<1>5. \A j \in 1..(n - 1) : r[j] = IF j < i THEN q[j] ELSE q[j + 1]
  <2>1. ASSUME NEW j \in 1..(n - 1), j < i PROVE r[j] = q[j]
    BY <1>1, <1>2, <1>4, <2>1
  <2>2. ASSUME NEW j \in 1..(n - 1), ~ (j < i) PROVE r[j] = q[j + 1]
    <3>1. j - (i - 1) \in 1..(n - i) /\ i + (j - (i - 1)) = j + 1 /\ ~ (j <= i - 1)
      BY <1>1, <2>2
    <3>2. QED
      BY <1>3, <1>4, <3>1
  <2>3. QED
    BY <2>1, <2>2
<1>6. i # 1 => r # <<>> /\ Head(r) = Head(q)
  <2> SUFFICES ASSUME i # 1 PROVE r # <<>> /\ Head(r) = Head(q)
    OBVIOUS
  <2>1. n - 1 \in Nat \ {0} /\ 1 \in 1..(n - 1) /\ 1 < i
    BY <1>1
  <2>2. r[1] = q[1]
    BY <1>5, <2>1
  <2>3. r # <<>> /\ q # <<>>
    BY <1>1, <1>4, <2>1, EmptySeq DEF n
  <2>4. QED
    BY <1>4, <2>2, <2>3
<1>7. DOMAIN r = 1..(n - 1)
  BY <1>4, LenProperties
<1>8. Remove(q, i) = r
  BY DEF Remove, r, a, b, n
<1>9. QED
  BY <1>4, <1>5, <1>6, <1>7, <1>8 DEF n

LEMMA TypedStep ==
    ASSUME Typed, Nested, [Next]_vars
    PROVE  Typed'
<1> USE AttAssumption DEF Typed
<1>1. CASE AppConnect
  <2>1. SocketTyped'
    BY <1>1, ConnectTyped DEF AppConnect
  <2>2. QED
    BY <1>1, <2>1 DEF AppConnect, ServerLink, AttTyped
<1>2. CASE AppClose
  <2>1. SocketTyped'
    BY <1>2, CloseCallTyped
  <2>2. QED
    BY <1>2, <2>1 DEF AppClose, ServerLink, AttTyped
<1>3. ASSUME NEW op \in AppOpcode, AppRequest(op) PROVE Typed'
  <2>1. Callbacks(stack) /\ DoRequest(op, stack) /\ op \in Opcode
    BY <1>3, CallsFromCallbacks DEF AppRequest, Opcode
  <2>2. SocketTyped' /\ pending_requests' \in Seq(Request) /\ next_id' \in Nat \ {0}
    BY <2>1, DoRequestTyped
  <2>3. QED
    BY <1>3, <2>2 DEF AppRequest, ServerLink, AttTyped
<1>4. CASE AppCommand
  <2>1. SocketTyped'
    BY <1>4, CommandTyped
  <2>2. QED
    BY <1>4, <2>1 DEF AppCommand, ServerLink, AttTyped
<1>5. ASSUME NEW i \in DOMAIN pending_requests, AppCancel(i) PROVE Typed'
  <2>1. pending_requests' \in Seq(Request)
    BY <1>5, RemoveTyped DEF AppCancel, AttTyped
  <2>2. SocketTyped'
    BY <1>5 DEF AppCancel, socketVars, SocketTyped
  <2>3. QED
    BY <1>5, <2>1, <2>2 DEF AppCancel, AttTyped
<1>6. ASSUME SocketTyped',
             owed' = (owed /\ s' # "Disconnected"),
             UNCHANGED <<pending_requests, next_id, cur_mtu, connections>>
      PROVE  Typed'
  BY <1>6 DEF AttTyped
<1>7. CASE \/ SocketStep(SendRest) \/ SocketStep(WriteRest) \/ SocketStep(ReadPacket)
           \/ SocketStep(ReadFails) \/ SocketStep(WriteNotify)
  <2>1. SocketTyped'
    BY <1>7, SendRestTyped, WriteRestTyped, ReadPacketTyped, ReadFailsTyped, WriteNotifyTyped
       DEF SocketStep
  <2>2. QED
    BY <1>6, <1>7, <2>1 DEF SocketStep, ServerLink
<1>8. CASE HandleSocketConnected
  <2>1. SocketTyped' /\ pending_requests' \in Seq(Request) /\ next_id' \in Nat \ {0}
    BY <1>8, ConnectedTyped, DoRequestTyped
  <2>2. QED
    BY <1>8, <2>1 DEF HandleSocketConnected, ServerLink, AttTyped
<1>9. CASE ReceivePdu
  BY <1>9, ReceiveTyped DEF ReceivePdu, attVars, AttTyped
<1>10. CASE HandleIndication
  BY <1>10, ConfirmationTyped DEF HandleIndication, ServerLink, AttTyped
<1>11. CASE HandleUnanswered
  BY <1>11, UnansweredTyped DEF HandleUnanswered, attVars, AttTyped
<1>12. CASE HandleResponse
  <2>1. SocketTyped'
    BY <1>12, ResponseTyped
  <2>2. cur_mtu' \in Nat
    BY <1>12 DEF HandleResponse, NegotiatedMtu, ATT_DEFAULT_LE_MTU, AttTyped
  <2>3. QED
    BY <1>12, <2>1, <2>2 DEF HandleResponse, AttTyped
<1>13. CASE ResponseRest
  <2>1. SocketTyped' /\ pending_requests' \in Seq(Request)
    BY <1>13, ResponseRestTyped, NextRequestTyped
  <2>2. QED
    BY <1>13, <2>1 DEF ResponseRest, ServerLink, AttTyped
<1>14. ASSUME NEW pdu, ServerTakes(pdu) PROVE Typed'
  BY <1>14, ServerTakesTyped DEF ServerTakes, AttTyped
<1>15. ASSUME NEW kind \in {"notification", "indication", "request"}, PeerSends(kind) PROVE Typed'
  BY <1>15, PeerSendsTyped DEF PeerSends, AttTyped
<1>16. CASE UNCHANGED vars
  BY <1>16 DEF vars, socketVars, attVars, SocketTyped, AttTyped
<1>17. QED
  BY <1>1, <1>2, <1>3, <1>4, <1>5, <1>7, <1>8, <1>9, <1>10, <1>11, <1>12, <1>13, <1>14, <1>15,
     <1>16
     DEF Next, App, Continue, ServerAnswers, Peer

LEMMA NestedKept ==
    ASSUME NEW k, Callbacks(k), k = <<>> \/ Tail(k) = <<>>, stack' = k,
           k # <<>> => pending_requests' # <<>>
    PROVE  Nested'
<1>1. k = <<>> => ~ CalledBack'
  BY DEF CalledBack
<1>2. QED
  BY <1>1 DEF Nested

LEMMA NestedPush ==
    ASSUME NEW k, Callbacks(k), k = <<>> \/ Tail(k) = <<>>, NEW f \in GoodFrame,
           stack' = <<f>> \o k,
           f.at = "send" \/ k = <<>>,
           f.at = "response" \/ k # <<>> => pending_requests' # <<>>
    PROVE  Nested'
<1>1. /\ DOMAIN stack' = 1..(Len(k) + 1) /\ stack'[1] = f
      /\ Head(stack') = f /\ Tail(stack') = k
      /\ \A j \in 1..(Len(k) + 1) : j # 1 => j - 1 \in DOMAIN k
  BY PushSeq DEF Callbacks
<1>2. CalledBack' => f.at = "response" \/ k # <<>>
  BY <1>1 DEF CalledBack
<1>3. QED
  BY <1>1, <1>2 DEF Nested

LEMMA NestedAbort ==
    ASSUME stack' = Abort
    PROVE  Nested'
<1>1. DOMAIN stack' = 1..1 /\ stack'[1].at = "abort" /\ Tail(stack') = <<>>
  BY DEF Abort, Frame
<1>2. QED
  BY <1>1 DEF Nested, CalledBack

\* What send() leaves on the stack.
LEMMA NestedSend ==
    ASSUME NEW k, Callbacks(k), k = <<>> \/ Tail(k) = <<>>, NEW pkt \in OutPdu,
           stack' \in {k, <<Frame("send", <<pkt>>)>> \o k, Abort},
           k # <<>> => pending_requests' # <<>>
    PROVE  Nested'
<1> DEFINE f == Frame("send", <<pkt>>)
<1>1. f \in GoodFrame /\ f.at = "send"
  BY MakeFrame
<1> HIDE DEF f
<1>2. CASE stack' = <<f>> \o k
  BY <1>1, <1>2, NestedPush
<1>3. QED
  BY <1>2, NestedKept, NestedAbort DEF f

\* Below any frame there is at most one callback, of the head.
LEMMA BelowTheTop ==
    ASSUME Typed, Nested
    PROVE  /\ stack # <<>> => /\ Callbacks(Tail(stack))
                              /\ Tail(stack) = <<>> \/ Tail(Tail(stack)) = <<>>
                              /\ Head(stack).at # "send" => Tail(stack) = <<>>
                              /\ Tail(stack) # <<>> => pending_requests # <<>>
           /\ Callbacks(stack) => /\ stack = <<>> \/ Tail(stack) = <<>>
                                  /\ stack # <<>> => pending_requests # <<>>
<1>1. StackOK(stack, s)
  BY DEF Typed, SocketTyped
<1>2. stack \in Seq(GoodFrame)
  BY <1>1 DEF StackOK
<1>3. ASSUME stack # <<>>
      PROVE  /\ Callbacks(Tail(stack))
             /\ Tail(stack) = <<>> \/ Tail(Tail(stack)) = <<>>
             /\ Head(stack).at # "send" => Tail(stack) = <<>>
  BY <1>1, <1>3, PoppedIsCallbacks DEF Nested
<1>4. ASSUME stack # <<>>, Tail(stack) # <<>>
      PROVE  pending_requests # <<>>
  <2>1. Len(stack) \in Nat /\ DOMAIN stack = 1..Len(stack) /\ Len(stack) # 0 /\ Len(stack) # 1
    <3>1. Len(Tail(stack)) = Len(stack) - 1 /\ Len(stack) \in Nat
      BY <1>2, <1>4, HeadTailProperties, LenProperties
    <3>2. Len(Tail(stack)) # 0 /\ Len(stack) # 0
      BY <1>2, <1>4, EmptySeq, HeadTailProperties
    <3>3. QED
      BY <1>2, <3>1, <3>2, LenProperties
  <2>2. 2 \in DOMAIN stack
    BY <2>1
  <2>3. stack[2].at = "response"
    BY <1>1, <2>2 DEF StackOK
  <2>4. QED
    BY <2>2, <2>3 DEF CalledBack, Nested
<1>5. ASSUME Callbacks(stack), stack # <<>>
      PROVE  Tail(stack) = <<>> /\ pending_requests # <<>>
  <2>1. 1 \in DOMAIN stack /\ Head(stack) = stack[1]
    BY <1>2, <1>5, EmptySeq, LenProperties
  <2>2. Head(stack).at = "response"
    BY <1>5, <2>1 DEF Callbacks
  <2>3. QED
    BY <1>3, <1>5, <2>1, <2>2 DEF CalledBack, Nested
<1>6. QED
  BY <1>3, <1>4, <1>5

LEMMA NestedStep ==
    ASSUME Typed, Nested, [Next]_vars
    PROVE  Nested'
<1>1. ASSUME stack' = stack, pending_requests' = pending_requests PROVE Nested'
  BY <1>1 DEF Nested, CalledBack
<1>2. ASSUME stack # <<>>, stack' = Tail(stack) \/ stack' = Abort,
             pending_requests' = pending_requests
      PROVE  Nested'
  BY <1>2, BelowTheTop, NestedKept, NestedAbort
<1>3. CASE AppConnect
  BY <1>1, <1>3, ConnectTyped DEF AppConnect, Typed
<1>4. CASE AppClose
  BY <1>1, <1>4, CloseCallTyped DEF AppClose, Typed
<1>5. ASSUME NEW op \in AppOpcode, AppRequest(op) PROVE Nested'
  <2>1. Callbacks(stack) /\ DoRequest(op, stack) /\ op \in Opcode
    BY <1>5, CallsFromCallbacks DEF AppRequest, Opcode, Typed
  <2>2. PICK pkt : pkt = RequestPdu(NewRequest(op))
    OBVIOUS
  <2>3. /\ pending_requests' = Append(pending_requests, NewRequest(op))
        /\ stack' \in {stack, <<Frame("send", <<pkt>>)>> \o stack, Abort}
        /\ NewRequest(op) \in Request
    BY <2>1, <2>2, DoRequestTyped
  <2>4. pending_requests' # <<>> /\ pkt \in OutPdu
    BY <2>2, <2>3, OutPdus, AppendPlace DEF Typed, AttTyped
  <2>5. QED
    BY <2>1, <2>3, <2>4, BelowTheTop, NestedSend
<1>6. CASE AppCommand
  <2>1. PICK pkt : pkt = Unsolicited("command")
    OBVIOUS
  <2>2. /\ Callbacks(stack) /\ pkt \in OutPdu
        /\ stack' \in {stack, <<Frame("send", <<pkt>>)>> \o stack, Abort}
    BY <1>6, <2>1, CommandTyped DEF Typed
  <2>3. pending_requests' = pending_requests
    BY <1>6 DEF AppCommand
  <2>4. QED
    BY <2>2, <2>3, BelowTheTop, NestedSend
<1>7. ASSUME NEW i \in DOMAIN pending_requests, AppCancel(i) PROVE Nested'
  <2>1. CalledBack => pending_requests' # <<>>
    BY <1>7, RemoveTyped DEF AppCancel, Typed, AttTyped
  <2>2. stack' = stack
    BY <1>7 DEF AppCancel, socketVars
  <2>3. QED
    BY <2>1, <2>2 DEF Nested, CalledBack
<1>8. CASE SocketStep(SendRest) \/ SocketStep(WriteRest)
  BY <1>2, <1>8, SendRestTyped, WriteRestTyped DEF SocketStep, Typed
<1>9. CASE SocketStep(ReadPacket) \/ SocketStep(ReadFails) \/ SocketStep(WriteNotify)
  <2>1. \/ stack' = <<>>
        \/ \E at \in {"write", "readyRead", "connected"} : stack' = <<Frame(at, <<>>)>>
    BY <1>9, ReadPacketTyped, ReadFailsTyped, WriteNotifyTyped DEF SocketStep, Typed
  <2>2. CASE stack' = <<>>
    <3>1. Callbacks(<<>>)
      BY DEF Callbacks
    <3>2. QED
      BY <2>2, <3>1, NestedKept
  <2>3. ASSUME NEW at \in {"write", "readyRead", "connected"}, stack' = <<Frame(at, <<>>)>>
        PROVE  Nested'
    <3>1. Frame(at, <<>>) \in GoodFrame /\ Frame(at, <<>>).at # "response"
      BY MakeFrame
    <3>2. Callbacks(<<>>) /\ stack' = <<Frame(at, <<>>)>> \o <<>>
      BY <2>3 DEF Callbacks
    <3>3. QED
      BY <3>1, <3>2, NestedPush
  <2>4. QED
    BY <2>1, <2>2, <2>3
<1>10. CASE HandleSocketConnected
  <2>1. /\ stack # <<>> /\ Head(stack).at = "connected"
        /\ Callbacks(Tail(stack)) /\ DoRequest(MtuRequest, Tail(stack)) /\ MtuRequest \in Opcode
    BY <1>10, ConnectedTyped
  <2>2. Tail(stack) = <<>>
    BY <2>1, BelowTheTop
  <2>3. PICK pkt : pkt = RequestPdu(NewRequest(MtuRequest))
    OBVIOUS
  <2>4. /\ stack' \in {Tail(stack), <<Frame("send", <<pkt>>)>> \o Tail(stack), Abort}
        /\ NewRequest(MtuRequest) \in Request
    BY <2>1, <2>3, DoRequestTyped
  <2>5. pkt \in OutPdu
    BY <2>3, <2>4, OutPdus
  <2>6. QED
    BY <2>1, <2>2, <2>4, <2>5, NestedSend
<1>11. CASE ReceivePdu
  <2> DEFINE f == Frame("received", <<Head(readQueue)>>)
  <2>1. stack # <<>> /\ Head(stack).at = "readyRead" /\ stack' = <<f>> \o Tail(stack)
        /\ Head(readQueue) \in InPdu
    BY <1>11, ReceiveTyped DEF Typed
  <2>2. f \in GoodFrame /\ f.at = "received"
    BY <2>1, MakeFrame
  <2> HIDE DEF f
  <2>3. Callbacks(Tail(stack)) /\ Tail(stack) = <<>>
    BY <2>1, BelowTheTop
  <2>4. QED
    BY <2>1, <2>2, <2>3, NestedPush
<1>12. CASE HandleIndication
  <2>1. PICK pkt : pkt = Unsolicited("confirmation")
    OBVIOUS
  <2>2. /\ pkt \in OutPdu /\ stack # <<>> /\ Head(stack).at = "received"
        /\ stack' \in {Tail(stack), <<Frame("send", <<pkt>>)>> \o Tail(stack), Abort}
    BY <1>12, <2>1, ConfirmationTyped DEF Typed
  <2>3. Callbacks(Tail(stack)) /\ Tail(stack) = <<>>
    BY <2>2, BelowTheTop
  <2>4. QED
    BY <2>2, <2>3, NestedSend
<1>13. CASE HandleUnanswered
  <2>1. stack # <<>> /\ stack' = Tail(stack) /\ pending_requests' = pending_requests
    BY <1>13, UnansweredTyped DEF HandleUnanswered, Running, attVars, Typed
  <2>2. QED
    BY <1>2, <2>1
<1>14. CASE HandleResponse
  <2> DEFINE f == Frame("response", <<Received>>)
  <2>1. /\ Running("received") /\ pending_requests # <<>>
        /\ pending_requests' = pending_requests
        /\ Received \in AnswerPdu /\ stack' = <<f>> \o Tail(stack)
    BY <1>14, ResponseTyped DEF HandleResponse
  <2>2. f \in GoodFrame /\ f.at = "response"
    BY <2>1, MakeFrame
  <2> HIDE DEF f
  <2>3. stack # <<>> /\ Head(stack).at = "received"
    BY <2>1 DEF Running
  <2>4. Callbacks(Tail(stack)) /\ Tail(stack) = <<>>
    BY <2>3, BelowTheTop
  <2>5. QED
    BY <2>1, <2>2, <2>4, NestedPush
<1>15. CASE ResponseRest
  <2>1. /\ pending_requests # <<>> /\ Callbacks(Tail(stack)) /\ Tail(stack) = <<>>
        /\ NextRequest(Tail(stack))
    BY <1>15, ResponseRestTyped
  <2>2. PICK pkt : pkt = RequestPdu(Head(pending_requests'))
    OBVIOUS
  <2>3. /\ stack' \in {Tail(stack), Abort, <<Frame("send", <<pkt>>)>> \o Tail(stack)}
        /\ pending_requests' # <<>> => Head(pending_requests') \in Request
        /\ pending_requests' = <<>> => stack' = Tail(stack)
    BY <2>1, <2>2, NextRequestTyped DEF SocketUnchangedBut
  <2>4. CASE pending_requests' = <<>>
    BY <2>1, <2>3, <2>4, NestedKept
  <2>5. CASE pending_requests' # <<>>
    <3>1. pkt \in OutPdu
      BY <2>2, <2>3, <2>5, OutPdus
    <3>2. QED
      BY <2>1, <2>3, <3>1, NestedSend
  <2>6. QED
    BY <2>4, <2>5
<1>16. ASSUME NEW pdu, ServerTakes(pdu) PROVE Nested'
  BY <1>1, <1>16 DEF ServerTakes
<1>17. ASSUME NEW kind, PeerSends(kind) PROVE Nested'
  BY <1>1, <1>17 DEF PeerSends
<1>18. CASE UNCHANGED vars
  BY <1>1, <1>18 DEF vars, socketVars, attVars
<1>19. QED
  BY <1>3, <1>4, <1>5, <1>6, <1>7, <1>8, <1>9, <1>10, <1>11, <1>12, <1>13, <1>14, <1>15, <1>16,
     <1>17, <1>18
     DEF Next, App, Continue, ServerAnswers, Peer

LEMMA InitTyped == Init => Typed /\ Nested
<1> SUFFICES ASSUME Init PROVE Typed /\ Nested
  OBVIOUS
<1>1. /\ StackOK(<<>>, s)
      /\ ~ \E j \in DOMAIN <<>> : <<>>[j].at = "response"
  BY DEF StackOK
<1>2. <<>> \in Seq(InPdu) /\ <<>> \in Seq(OutPdu) /\ <<>> \in Seq(Request)
  OBVIOUS
<1>3. SocketTyped
  BY <1>1, <1>2 DEF Init, SocketInit, SocketTyped, State
<1>4. AttTyped
  <2>1. pending_requests \in Seq(Request)
    BY <1>2 DEF Init
  <2>2. next_id \in Nat \ {0} /\ connections \in Nat
    BY DEF Init
  <2>3. cur_mtu \in Nat
    BY DEF Init, ATT_DEFAULT_LE_MTU
  <2>4. owed \in BOOLEAN
    BY DEF Init
  <2>5. QED
    BY <2>1, <2>2, <2>3, <2>4 DEF AttTyped
<1>5. Nested
  BY <1>1 DEF Init, SocketInit, Nested, CalledBack
<1>6. QED
  BY <1>3, <1>4, <1>5 DEF Typed

LEMMA PlacesHoldPdus ==
    ASSUME SocketTyped
    PROVE  /\ writeQueue \in Seq(Pdu) /\ outbound \in Seq(Pdu)
           /\ inbound \in Seq(Pdu) /\ readQueue \in Seq(Pdu)
<1>1. OutPdu \subseteq Pdu /\ InPdu \subseteq Pdu
  BY DEF OutPdu, InPdu
<1>2. QED
  BY <1>1, SeqMonotonic DEF SocketTyped

\* What the queues and the stack hold has the types of the model.
LEMMA TypedIsTypeOK == Typed => TypeOK
<1> SUFFICES ASSUME Typed PROVE TypeOK
  OBVIOUS
<1>1. GoodFrame \subseteq Frames
  <2>1. ASSUME NEW f \in GoodFrame PROVE f \in Frames
    <3>1. \A p \in Pdu : <<p>> \in Seq(Pdu)
      OBVIOUS
    <3>2. OutPdu \subseteq Pdu /\ InPdu \subseteq Pdu /\ AnswerPdu \subseteq Pdu
      BY DEF OutPdu, InPdu, AnswerPdu
    <3>3. <<>> \in Seq(Pdu)
      OBVIOUS
    <3>4. QED
      BY <3>1, <3>2, <3>3
         DEF GoodFrame, BareFrame, OutFrame, InFrame, AnswerFrame, Frames, FrameNames
  <2>2. QED
    BY <2>1
<1>2. stack \in Seq(Frames)
  BY <1>1, SeqMonotonic DEF Typed, SocketTyped, StackOK
<1>3. QED
  BY <1>2, PlacesHoldPdus DEF Typed, SocketTyped, AttTyped, TypeOK, SocketTypeOK

\* The queues, the kernel and the suspended calls hold what they are meant to:
\* whatever fails, is called from a slot or cancelled, the client sends
\* requests, commands and confirmations only.
THEOREM TypeCorrect == Spec => []TypeOK
<1>1. Init => Typed /\ Nested
  BY InitTyped
<1>2. Typed /\ Nested /\ [Next]_vars => (Typed /\ Nested)'
  BY TypedStep, NestedStep
<1>3. Typed /\ Nested => TypeOK
  BY TypedIsTypeOK
<1>4. QED
  BY <1>1, <1>2, <1>3, PTL DEF Spec
=============================================================================
