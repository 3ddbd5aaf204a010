--------------------------- MODULE AttQueueProofs ---------------------------
(***************************************************************************)
(* GatoAttClient implements AttQueue: seen as the ids of the requests and  *)
(* the id that is on its way, every step makes a request, answers the one  *)
(* that is out and sends the next, takes back one that was not sent, loses *)
(* the one that is out, or changes nothing.                                *)
(***************************************************************************)
EXTENDS AttExchangeProofs

-----------------------------------------------------------------------------
(***************************************************************************)
(* Ids grow, and there are as many as the bounds allow: MaxRequests of the *)
(* application and one of each connection, whose request for the MTU is    *)
(* made when it is established.                                            *)
(***************************************************************************)
Growing(q, bound) ==
    /\ \A i \in DOMAIN q : q[i].id < bound
    /\ \A i, j \in DOMAIN q : i < j => q[i].id < q[j].id

Increasing == Growing(pending_requests, next_id)

Establishing == s = "Connecting" \/ Running("connected")

Bounded ==
    /\ next_id <= MaxRequests + connections + 1
    /\ Establishing => next_id <= MaxRequests + connections
    /\ Running("connected") => s # "Connecting"
    /\ connections <= MaxConnections

-----------------------------------------------------------------------------
(***************************************************************************)
(* The ids of a queue of requests.                                         *)
(***************************************************************************)
Ids(q) == [i \in DOMAIN q |-> q[i].id]

LEMMA IdsOfSeq ==
    ASSUME NEW q \in Seq(Request)
    PROVE  /\ Ids(q) \in Seq(Nat \ {0}) /\ Len(Ids(q)) = Len(q) /\ DOMAIN Ids(q) = DOMAIN q
           /\ \A i \in DOMAIN q : Ids(q)[i] = q[i].id
           /\ Ids(q) = <<>> <=> q = <<>>
           /\ q # <<>> => Head(Ids(q)) = Head(q).id
<1>1. Len(q) \in Nat /\ DOMAIN q = 1..Len(q) /\ \A i \in 1..Len(q) : q[i] \in Request
  BY LenProperties, ElementOfSeq
<1>2. Ids(q) \in [1..Len(q) -> Nat \ {0}]
  BY <1>1 DEF Ids, Request
<1>3. Ids(q) \in Seq(Nat \ {0}) /\ Len(Ids(q)) = Len(q) /\ DOMAIN Ids(q) = DOMAIN q
  BY <1>1, <1>2, SeqDef
<1>4. \A i \in DOMAIN q : Ids(q)[i] = q[i].id
  BY DEF Ids
<1>5. Ids(q) = <<>> <=> q = <<>>
  BY <1>3, EmptySeq
<1>6. ASSUME q # <<>> PROVE Head(Ids(q)) = Head(q).id
  <2>1. 1 \in DOMAIN q /\ Head(q) = q[1]
    BY <1>1, <1>6, EmptySeq
  <2>2. Head(Ids(q)) = Ids(q)[1]
    BY <1>3, <1>5, <1>6
  <2>3. QED
    BY <1>4, <2>1, <2>2
<1>7. QED
  BY <1>3, <1>4, <1>5, <1>6

LEMMA IdsOfAppend ==
    ASSUME NEW q \in Seq(Request), NEW req \in Request
    PROVE  Ids(Append(q, req)) = Append(Ids(q), req.id)
<1> DEFINE r == Append(q, req)
<1>1. /\ r \in Seq(Request) /\ Len(r) = Len(q) + 1 /\ Len(q) \in Nat
      /\ r[Len(q) + 1] = req /\ \A i \in 1..Len(q) : r[i] = q[i]
      /\ DOMAIN r = 1..(Len(q) + 1) /\ DOMAIN q = 1..Len(q)
  BY LenProperties
<1> HIDE DEF r
<1>2. req.id \in Nat \ {0}
  BY DEF Request
<1>3. Ids(q) \in Seq(Nat \ {0}) /\ Len(Ids(q)) = Len(q) /\ \A i \in DOMAIN q : Ids(q)[i] = q[i].id
  BY IdsOfSeq
<1>4. Ids(r) \in Seq(Nat \ {0}) /\ Len(Ids(r)) = Len(r) /\ \A i \in DOMAIN r : Ids(r)[i] = r[i].id
  BY <1>1, IdsOfSeq
<1> DEFINE t == Append(Ids(q), req.id)
<1>5. /\ t \in Seq(Nat \ {0}) /\ Len(t) = Len(q) + 1
      /\ t[Len(q) + 1] = req.id /\ \A i \in 1..Len(q) : t[i] = Ids(q)[i]
  BY <1>1, <1>2, <1>3
<1> HIDE DEF t
<1>6. ASSUME NEW i \in 1..(Len(q) + 1) PROVE Ids(r)[i] = t[i]
  <2>1. CASE i = Len(q) + 1
    BY <1>1, <1>4, <1>5, <2>1
  <2>2. CASE i \in 1..Len(q)
    BY <1>1, <1>3, <1>4, <1>5, <2>2
  <2>3. QED
    BY <1>1, <2>1, <2>2
<1>7. Ids(r) = t
  BY <1>1, <1>4, <1>5, <1>6, SeqEqual
<1>8. QED
  BY <1>7 DEF r, t

LEMMA IdsOfTail ==
    ASSUME NEW q \in Seq(Request), q # <<>>
    PROVE  Ids(Tail(q)) = Tail(Ids(q))
<1> DEFINE r == Tail(q)
<1>1. /\ r \in Seq(Request) /\ Len(r) = Len(q) - 1 /\ Len(q) \in Nat \ {0}
      /\ \A i \in 1..Len(r) : r[i] = q[i + 1]
      /\ DOMAIN r = 1..Len(r) /\ DOMAIN q = 1..Len(q)
  BY LenProperties, EmptySeq, HeadTailProperties
<1> HIDE DEF r
<1>2. /\ Ids(q) \in Seq(Nat \ {0}) /\ Len(Ids(q)) = Len(q) /\ Ids(q) # <<>>
      /\ \A i \in DOMAIN q : Ids(q)[i] = q[i].id
  BY IdsOfSeq
<1>3. Ids(r) \in Seq(Nat \ {0}) /\ Len(Ids(r)) = Len(r) /\ \A i \in DOMAIN r : Ids(r)[i] = r[i].id
  BY <1>1, IdsOfSeq
<1> DEFINE t == Tail(Ids(q))
<1>4. t \in Seq(Nat \ {0}) /\ Len(t) = Len(r) /\ \A i \in 1..Len(t) : t[i] = Ids(q)[i + 1]
  BY <1>1, <1>2, HeadTailProperties
<1> HIDE DEF t
<1>5. \A i \in 1..Len(r) : i + 1 \in DOMAIN q
  BY <1>1
<1>6. \A i \in 1..Len(r) : Ids(r)[i] = t[i]
  BY <1>1, <1>2, <1>3, <1>4, <1>5
<1>7. Ids(r) = t
  BY <1>3, <1>4, <1>6, SeqEqual
<1>8. QED
  BY <1>7 DEF r, t

LEMMA IdsOfRemove ==
    ASSUME NEW q \in Seq(Request), NEW i \in DOMAIN q
    PROVE  Ids(Remove(q, i)) = Remove(Ids(q), i)
<1> DEFINE r == Remove(q, i)
<1> DEFINE n == Len(q)
<1>1. /\ r \in Seq(Request) /\ Len(r) = n - 1 /\ DOMAIN r = 1..(n - 1)
      /\ \A j \in 1..(n - 1) : r[j] = IF j < i THEN q[j] ELSE q[j + 1]
  BY RemoveTyped
<1>2. n \in Nat /\ DOMAIN q = 1..n /\ i \in 1..n
  BY LenProperties
<1>3. /\ Ids(q) \in Seq(Nat \ {0}) /\ Len(Ids(q)) = n /\ i \in DOMAIN Ids(q)
      /\ \A j \in DOMAIN q : Ids(q)[j] = q[j].id
  BY IdsOfSeq
<1> DEFINE t == Remove(Ids(q), i)
<1>4. /\ t \in Seq(Nat \ {0}) /\ Len(t) = n - 1
      /\ \A j \in 1..(n - 1) : t[j] = IF j < i THEN Ids(q)[j] ELSE Ids(q)[j + 1]
  BY <1>3, RemoveTyped
<1> HIDE DEF r, n, t
<1>5. Ids(r) \in Seq(Nat \ {0}) /\ Len(Ids(r)) = n - 1 /\ \A j \in 1..(n - 1) : Ids(r)[j] = r[j].id
  BY <1>1, IdsOfSeq
<1>6. ASSUME NEW j \in 1..(n - 1) PROVE Ids(r)[j] = t[j]
  <2>1. j \in 1..n /\ j + 1 \in 1..n
    BY <1>2
  <2>2. CASE j < i
    BY <1>1, <1>2, <1>3, <1>4, <1>5, <2>1, <2>2
  <2>3. CASE ~ (j < i)
    BY <1>1, <1>2, <1>3, <1>4, <1>5, <2>1, <2>3
  <2>4. QED
    BY <2>2, <2>3
<1>7. Ids(r) = t
  BY <1>4, <1>5, <1>6, SeqEqual
<1>8. QED
  BY <1>7 DEF r, t

-----------------------------------------------------------------------------
(***************************************************************************)
(* Ids grow.                                                               *)
(***************************************************************************)
LEMMA GrowingAppend ==
    ASSUME NEW q \in Seq(Request), NEW n \in Nat \ {0}, Growing(q, n),
           NEW req \in Request, req.id = n
    PROVE  Growing(Append(q, req), n + 1)
<1> DEFINE r == Append(q, req)
<1>1. /\ Len(q) \in Nat /\ DOMAIN r = 1..(Len(q) + 1) /\ DOMAIN q = 1..Len(q)
      /\ r[Len(q) + 1] = req /\ \A i \in 1..Len(q) : r[i] = q[i]
  BY LenProperties
<1> HIDE DEF r
<1>2. \A i \in 1..Len(q) : q[i].id \in Nat
  <2>1. \A i \in 1..Len(q) : q[i] \in Request
    BY ElementOfSeq
  <2>2. QED
    BY <2>1 DEF Request
<1>3. ASSUME NEW i \in DOMAIN r PROVE r[i].id < n + 1
  <2>1. CASE i \in 1..Len(q)
    BY <1>1, <1>2, <2>1 DEF Growing
  <2>2. CASE i = Len(q) + 1
    BY <1>1, <2>2
  <2>3. QED
    BY <1>1, <2>1, <2>2
<1>4. ASSUME NEW i \in DOMAIN r, NEW j \in DOMAIN r, i < j PROVE r[i].id < r[j].id
  <2>1. i \in 1..Len(q)
    BY <1>1, <1>4
  <2>2. CASE j \in 1..Len(q)
    BY <1>1, <1>4, <2>1, <2>2 DEF Growing
  <2>3. CASE j = Len(q) + 1
    BY <1>1, <2>1, <2>3 DEF Growing
  <2>4. QED
    BY <1>1, <2>2, <2>3
<1>5. QED
  BY <1>3, <1>4 DEF Growing, r

LEMMA GrowingTail ==
    ASSUME NEW q \in Seq(Request), q # <<>>, NEW n, Growing(q, n)
    PROVE  Growing(Tail(q), n)
<1> DEFINE r == Tail(q)
<1>1. /\ Len(q) \in Nat \ {0} /\ DOMAIN r = 1..(Len(q) - 1) /\ DOMAIN q = 1..Len(q)
      /\ \A i \in 1..(Len(q) - 1) : r[i] = q[i + 1]
  BY LenProperties, EmptySeq, HeadTailProperties
<1> HIDE DEF r
<1>2. \A i, j \in 1..(Len(q) - 1) : /\ i + 1 \in 1..Len(q) /\ j + 1 \in 1..Len(q)
                                    /\ i < j => i + 1 < j + 1
  BY <1>1
<1>3. QED
  BY <1>1, <1>2 DEF Growing, r

LEMMA GrowingRemove ==
    ASSUME NEW q \in Seq(Request), NEW k \in DOMAIN q, NEW n, Growing(q, n)
    PROVE  Growing(Remove(q, k), n)
<1> DEFINE r == Remove(q, k)
<1>1. /\ DOMAIN r = 1..(Len(q) - 1)
      /\ \A j \in 1..(Len(q) - 1) : r[j] = IF j < k THEN q[j] ELSE q[j + 1]
  BY RemoveTyped
<1>2. Len(q) \in Nat /\ DOMAIN q = 1..Len(q) /\ k \in 1..Len(q)
  BY LenProperties
<1> HIDE DEF r
<1> DEFINE old(j) == IF j < k THEN j ELSE j + 1
<1>3. \A j \in 1..(Len(q) - 1) : old(j) \in 1..Len(q) /\ r[j] = q[old(j)]
  BY <1>1, <1>2
<1>4. \A i, j \in 1..(Len(q) - 1) : i < j => old(i) < old(j)
  BY <1>2
<1> HIDE DEF old
<1>5. QED
  BY <1>1, <1>2, <1>3, <1>4 DEF Growing, r

LEMMA IncreasingStep ==
    ASSUME Typed, Nested, Increasing, [Next]_vars
    PROVE  Increasing'
<1> SUFFICES Growing(pending_requests', next_id')
  BY DEF Increasing, Growing
<1>0. pending_requests \in Seq(Request) /\ next_id \in Nat \ {0} /\ Growing(pending_requests, next_id)
  BY DEF Typed, AttTyped, Increasing
<1>1. ASSUME NEW op \in Opcode, NEW k, Callbacks(k), DoRequest(op, k)
      PROVE  Growing(pending_requests', next_id')
  <2>1. /\ NewRequest(op) \in Request /\ next_id' = next_id + 1
        /\ pending_requests' = Append(pending_requests, NewRequest(op))
    BY <1>1, DoRequestTyped
  <2>2. NewRequest(op).id = next_id
    BY DEF NewRequest
  <2>3. QED
    BY <1>0, <2>1, <2>2, GrowingAppend
<1>2. CASE Requesting
  <2>1. ASSUME NEW op \in AppOpcode, AppRequest(op) PROVE Growing(pending_requests', next_id')
    <3>1. Callbacks(stack) /\ DoRequest(op, stack) /\ op \in Opcode
      BY <2>1, CallsFromCallbacks DEF AppRequest, Opcode, Typed
    <3>2. QED
      BY <1>1, <3>1
  <2>2. CASE HandleSocketConnected
    BY <1>1, <2>2, ConnectedTyped
  <2>3. CASE ResponseRest
    <3>1. pending_requests # <<>> /\ pending_requests' = Tail(pending_requests)
          /\ next_id' = next_id
      BY <2>3, ResponseRestTyped DEF ResponseRest, NextRequest
    <3>2. QED
      BY <1>0, <3>1, GrowingTail
  <2>4. QED
    BY <1>2, <2>1, <2>2, <2>3 DEF Requesting
<1>3. ASSUME NEW i \in DOMAIN pending_requests, AppCancel(i)
      PROVE  Growing(pending_requests', next_id')
  BY <1>0, <1>3, GrowingRemove DEF AppCancel
<1>4. CASE ~ Requesting /\ ~ Cancelling
  <2>1. UNCHANGED <<pending_requests, next_id>>
    BY <1>4, OtherStepsMove, StraysAreOwn
  <2>2. QED
    BY <1>0, <2>1
<1>5. QED
  BY <1>2, <1>3, <1>4 DEF Cancelling

-----------------------------------------------------------------------------
(***************************************************************************)
(* One request for the MTU for each connection.                            *)
(***************************************************************************)
\* connected() is emitted by writeNotify() alone, and nothing runs before its
\* handler.
LEMMA SendIsNotConnected ==
    ASSUME NEW pkt \in OutPdu, NEW k, Callbacks(k), Send(pkt, k)
    PROVE  ~ Running("connected")' /\ s' \in {s, "Disconnected"}
<1> DEFINE f == Frame("send", <<pkt>>)
<1>1. f \in GoodFrame /\ f.at = "send"
  BY MakeFrame
<1>2. <<f>> \o k # <<>> /\ Head(<<f>> \o k) = f
  BY <1>1, PushedIsOK
<1>3. stack' \in {k, Abort, <<f>> \o k}
  BY DEF Send, Close, CloseThen, Enqueue, SetWriteEnabled
<1> HIDE DEF f
<1>4. ~ Running("connected")'
  BY <1>1, <1>2, <1>3, CallbacksAreOK, AbortIsOK DEF Running
<1>5. s' \in {s, "Disconnected"}
  BY DEF Send, Close, CloseThen, Enqueue
<1>6. QED
  BY <1>4, <1>5

LEMMA DoRequestIsNotConnected ==
    ASSUME Typed, NEW op \in Opcode, NEW k, Callbacks(k), DoRequest(op, k)
    PROVE  ~ Running("connected")' /\ s' \in {s, "Disconnected"} /\ next_id' = next_id + 1
<1>1. PICK pkt : pkt = RequestPdu(NewRequest(op))
  OBVIOUS
<1>2. /\ IF pending_requests = <<>> THEN Send(pkt, k) ELSE SocketUnchangedBut(k)
      /\ NewRequest(op) \in Request /\ next_id' = next_id + 1
  BY <1>1, DoRequestTyped
<1>3. pkt \in OutPdu
  BY <1>1, <1>2, OutPdus
<1>4. CASE Send(pkt, k)
  BY <1>2, <1>3, <1>4, SendIsNotConnected
<1>5. CASE SocketUnchangedBut(k)
  BY <1>2, <1>5, CallbacksAreOK DEF SocketUnchangedBut, Running
<1>6. QED
  BY <1>2, <1>4, <1>5

\* How far a connection is, in the steps that do not open one.
Later ==
    /\ Running("connected")' => Running("connected") /\ s' \in {s, "Disconnected"}
    /\ s' = "Connecting" => s = "Connecting"
    /\ UNCHANGED <<next_id, connections>>

LEMMA LaterSteps ==
    ASSUME Typed, Nested, [Next]_vars, ~ AppConnect, ~ HandleSocketConnected,
           ~ \E op \in AppOpcode : AppRequest(op)
    PROVE  Later \/ (s = "Connecting" /\ s' = "Connected" /\ UNCHANGED <<next_id, connections>>)
<1> USE DEF Typed
<1>1. ASSUME stack' = stack, s' \in {s, "Disconnected"}, UNCHANGED <<next_id, connections>>
      PROVE  Later
  BY <1>1 DEF Later, Running
<1>2. ASSUME ~ Running("connected")', s' \in {s, "Disconnected"},
             UNCHANGED <<next_id, connections>>
      PROVE  Later
  BY <1>2 DEF Later
<1>3. ASSUME stack # <<>>, stack' = Tail(stack) \/ stack' = Abort PROVE ~ Running("connected")'
  <2>1. Callbacks(Tail(stack))
    BY <1>3, PoppedIsCallbacks DEF SocketTyped
  <2>2. QED
    BY <1>3, <2>1, CallbacksAreOK, AbortIsOK DEF Running
<1>4. CASE AppClose
  BY <1>1, <1>4, CloseCallTyped DEF AppClose
<1>5. CASE AppCommand
  <2>1. PICK pkt : pkt = Unsolicited("command")
    OBVIOUS
  <2>2. Callbacks(stack) /\ pkt \in OutPdu /\ Send(pkt, stack)
    BY <1>5, <2>1, CommandTyped
  <2>3. QED
    BY <1>2, <1>5, <2>2, SendIsNotConnected DEF AppCommand
<1>6. ASSUME NEW i \in DOMAIN pending_requests, AppCancel(i) PROVE Later
  BY <1>1, <1>6 DEF AppCancel, socketVars
<1>7. CASE SocketStep(SendRest) \/ SocketStep(WriteRest)
  BY <1>2, <1>3, <1>7, SendRestTyped, WriteRestTyped DEF SocketStep
<1>8. CASE SocketStep(ReadPacket) \/ SocketStep(ReadFails)
  <2>1. stack' = <<>> \/ stack' = <<Frame("readyRead", <<>>)>>
    BY <1>8, ReadPacketTyped, ReadFailsTyped DEF SocketStep
  <2>2. ~ Running("connected")'
    BY <2>1 DEF Running, Frame
  <2>3. QED
    BY <1>2, <1>8, <2>2, ReadPacketTyped, ReadFailsTyped DEF SocketStep
<1>9. CASE SocketStep(WriteNotify)
  <2>1. \/ s = "Connecting" /\ s' = "Connected"
        \/ s' \in {s, "Disconnected"} /\ stack' = <<>>
        \/ s' = "Disconnected" /\ stack' = <<Frame("write", <<>>)>>
    BY <1>9, WriteNotifyTyped DEF SocketStep
  <2>2. UNCHANGED <<next_id, connections>>
    BY <1>9 DEF SocketStep
  <2>3. CASE s' \in {s, "Disconnected"} /\ (stack' = <<>> \/ stack' = <<Frame("write", <<>>)>>)
    <3>1. ~ Running("connected")'
      BY <2>3 DEF Running, Frame
    <3>2. QED
      BY <1>2, <2>2, <2>3, <3>1
  <2>4. QED
    BY <2>1, <2>2, <2>3
<1>10. CASE ReceivePdu
  BY <1>2, <1>10, ReceiveTyped DEF ReceivePdu, attVars, Running
<1>11. CASE HandleIndication
  <2>1. PICK pkt : pkt = Unsolicited("confirmation")
    OBVIOUS
  <2>2. Callbacks(Tail(stack)) /\ pkt \in OutPdu /\ Send(pkt, Tail(stack))
    BY <1>11, <2>1, ConfirmationTyped
  <2>3. QED
    BY <1>2, <1>11, <2>2, SendIsNotConnected DEF HandleIndication
<1>12. CASE HandleUnanswered
  BY <1>2, <1>3, <1>12, UnansweredTyped DEF HandleUnanswered, attVars, Running
<1>13. CASE HandleResponse
  <2> DEFINE f == Frame("response", <<Received>>)
  <2>1. Running("received") /\ Received \in AnswerPdu /\ stack' = <<f>> \o Tail(stack)
        /\ s' = s /\ UNCHANGED <<next_id, connections>>
    BY <1>13, ResponseTyped DEF HandleResponse
  <2>2. f \in GoodFrame /\ f.at = "response" /\ Callbacks(Tail(stack))
    BY <2>1, MakeFrame, ReceivedIsIn
  <2> HIDE DEF f
  <2>3. Head(stack') = f
    BY <2>1, <2>2, PushSeq DEF Callbacks
  <2>4. ~ Running("connected")'
    BY <2>2, <2>3 DEF Running
  <2>5. QED
    BY <1>2, <2>1, <2>4
<1>14. CASE ResponseRest
  <2>1. PICK pkt : pkt = RequestPdu(Head(pending_requests'))
    OBVIOUS
  <2>2. /\ pending_requests # <<>> /\ Callbacks(Tail(stack)) /\ NextRequest(Tail(stack))
    BY <1>14, ResponseRestTyped
  <2>3. /\ IF pending_requests' = <<>> THEN SocketUnchangedBut(Tail(stack))
                                       ELSE Send(pkt, Tail(stack))
        /\ pending_requests' # <<>> => Head(pending_requests') \in Request
    BY <2>1, <2>2, NextRequestTyped
  <2>4. CASE pending_requests' # <<>>
    <3>1. pkt \in OutPdu
      BY <2>1, <2>3, <2>4, OutPdus
    <3>2. ~ Running("connected")' /\ s' \in {s, "Disconnected"}
      BY <2>2, <2>3, <2>4, <3>1, SendIsNotConnected
    <3>3. QED
      BY <1>2, <1>14, <3>2 DEF ResponseRest
  <2>5. CASE pending_requests' = <<>>
    <3>1. ~ Running("connected")' /\ s' = s
      BY <2>2, <2>3, <2>5, CallbacksAreOK DEF SocketUnchangedBut, Running
    <3>2. QED
      BY <1>2, <1>14, <3>1 DEF ResponseRest
  <2>6. QED
    BY <2>4, <2>5
<1>15. ASSUME NEW pdu, ServerTakes(pdu) PROVE Later
  BY <1>1, <1>15 DEF ServerTakes
<1>16. ASSUME NEW kind, PeerSends(kind) PROVE Later
  BY <1>1, <1>16 DEF PeerSends
<1>17. CASE UNCHANGED vars
  BY <1>1, <1>17 DEF vars, socketVars, attVars
<1>18. QED
  BY <1>4, <1>5, <1>6, <1>7, <1>8, <1>9, <1>10, <1>11, <1>12, <1>13, <1>14, <1>15, <1>16, <1>17
     DEF Next, App, Continue, ServerAnswers, Peer

LEMMA BoundedStep ==
    ASSUME Typed, Nested, Bounded, [Next]_vars
    PROVE  Bounded'
<1>0. next_id \in Nat /\ connections \in Nat /\ MaxRequests \in Nat /\ MaxConnections \in Nat
  BY AttAssumption DEF Typed, AttTyped
<1>1. CASE AppConnect
  <2>1. /\ connections < MaxConnections /\ connections' = connections + 1 /\ next_id' = next_id
        /\ s' \in {"Connecting", "Disconnected"} /\ stack' = stack
    BY <1>1, ConnectTyped DEF AppConnect, Typed
  <2>2. ~ Running("connected")
    BY <1>1 DEF AppConnect, May, Idle, InSlot, InCallback, Running, SuspendedFrames
  <2>3. ~ Running("connected")'
    BY <2>1, <2>2 DEF Running
  <2>4. connections' <= MaxConnections /\ next_id' <= MaxRequests + connections'
    BY <1>0, <2>1 DEF Bounded
  <2>5. next_id' <= MaxRequests + connections' + 1
    BY <1>0, <2>1, <2>4
  <2>6. QED
    BY <2>3, <2>4, <2>5 DEF Bounded
<1>2. ASSUME NEW op \in AppOpcode, AppRequest(op) PROVE Bounded'
  <2>1. Callbacks(stack) /\ DoRequest(op, stack) /\ op \in Opcode
        /\ s = "Connected" /\ next_id <= MaxRequests /\ connections' = connections
    BY <1>2, CallsFromCallbacks DEF AppRequest, Opcode, Typed
  <2>2. ~ Running("connected")' /\ s' # "Connecting" /\ next_id' = next_id + 1
    BY <2>1, DoRequestIsNotConnected
  <2>3. next_id' <= MaxRequests + connections' + 1
    BY <1>0, <2>1, <2>2
  <2>4. QED
    BY <2>1, <2>2, <2>3 DEF Bounded, Establishing
<1>3. CASE HandleSocketConnected
  <2>1. /\ Callbacks(Tail(stack)) /\ DoRequest(MtuRequest, Tail(stack)) /\ MtuRequest \in Opcode
        /\ Running("connected") /\ connections' = connections
    BY <1>3, ConnectedTyped DEF HandleSocketConnected
  <2>2. ~ Running("connected")' /\ s' # "Connecting" /\ next_id' = next_id + 1
    BY <2>1, DoRequestIsNotConnected DEF Bounded
  <2>3. next_id' <= MaxRequests + connections' + 1
    <3>1. next_id <= MaxRequests + connections
      BY <2>1 DEF Bounded, Establishing
    <3>2. QED
      BY <1>0, <2>1, <2>2, <3>1
  <2>4. QED
    BY <2>1, <2>2, <2>3 DEF Bounded, Establishing
<1>4. CASE ~ AppConnect /\ ~ HandleSocketConnected /\ ~ \E op \in AppOpcode : AppRequest(op)
  <2>1. Later \/ (s = "Connecting" /\ s' = "Connected" /\ UNCHANGED <<next_id, connections>>)
    BY <1>4, LaterSteps
  <2>2. QED
    BY <2>1 DEF Later, Bounded, Establishing
<1>5. QED
  BY <1>1, <1>2, <1>3, <1>4

-----------------------------------------------------------------------------
(***************************************************************************)
(* What is on its way, as the abstract queue sees it.                      *)
(***************************************************************************)
Out == {a.id : a \in InFlight}

\* It is the head's id when something of the client's own is anywhere.
OutFollows ==
    /\ Somewhere(Own) => Out = {Head(pending_requests).id}
    /\ ~ Somewhere(Own) => Out = {}

LEMMA OutIsTheHead == Typed /\ OwnOnce => OutFollows
<1> SUFFICES ASSUME Typed, OwnOnce PROVE OutFollows
  OBVIOUS
<1>1. InFlight = AllMarks(Own)
  BY EverywhereIsMarks DEF Typed
<1>2. InFlight # {} <=> Somewhere(Own)
  BY <1>1, MarksOfPlaces
<1>3. ASSUME NEW a \in InFlight PROVE a.id = Head(pending_requests).id
  <2>1. PICK p \in Own : a.id = p.id /\ \A T : p \in T => Somewhere(T)
    BY <1>1, MarkIsOf
  <2>2. p \in Of(pending_requests)
    BY <2>1 DEF OwnOnce, Strays
  <2>3. QED
    BY <2>1, <2>2 DEF Of
<1>4. QED
  BY <1>2, <1>3 DEF Out, OutFollows

LEMMA OutIsTheHeadLater ==
    ASSUME Typed', OwnOnce'
    PROVE  /\ Somewhere(Own)' => Out' = {Head(pending_requests').id}
           /\ ~ Somewhere(Own)' => Out' = {}
<1>1. OutFollows'
  BY OutIsTheHead, PTL
<1>2. QED
  BY <1>1 DEF OutFollows

\* The steps of AttQueue, said of the state of the client.
LEMMA QueueSteps ==
    ASSUME NEW p, p = pending_requests, NEW q, q = pending_requests'
    PROVE  /\ \A id \in 1..(MaxRequests + MaxConnections) :
                  /\ \A i \in DOMAIN Ids(p) : Ids(p)[i] < id
                  /\ Ids(q) = Append(Ids(p), id)
                  /\ Out' = IF Ids(p) = <<>> THEN {id} ELSE Out
                  => Queue!Next
           /\ /\ Ids(p) # <<>>
              /\ Out = {Head(Ids(p))}
              /\ Ids(q) = Tail(Ids(p))
              /\ Out' = IF Ids(q) = <<>> THEN {} ELSE {Head(Ids(q))}
              => Queue!Next
           /\ \A i \in DOMAIN Ids(p) :
                  /\ {Ids(p)[i]} # Out
                  /\ Ids(q) = Remove(Ids(p), i)
                  /\ Out' = Out
                  => Queue!Next
           /\ Ids(q) = Ids(p) /\ (Out' = {} \/ Out' = Out) => [Queue!Next]_Queue!vars
<1>1. ASSUME NEW id \in 1..(MaxRequests + MaxConnections),
             \A i \in DOMAIN Ids(p) : Ids(p)[i] < id,
             Ids(q) = Append(Ids(p), id),
             Out' = IF Ids(p) = <<>> THEN {id} ELSE Out
      PROVE  Queue!Next
  <2>1. Queue!Issue(id)
    BY <1>1 DEF Queue!Issue, Ids, Out
  <2>2. QED
    BY <2>1 DEF Queue!Next
<1>2. ASSUME Ids(p) # <<>>, Out = {Head(Ids(p))}, Ids(q) = Tail(Ids(p)),
             Out' = IF Ids(q) = <<>> THEN {} ELSE {Head(Ids(q))}
      PROVE  Queue!Next
  <2>1. Queue!Answer
    BY <1>2 DEF Queue!Answer, Ids, Out
  <2>2. QED
    BY <2>1 DEF Queue!Next
<1>3. ASSUME NEW i \in DOMAIN Ids(p), {Ids(p)[i]} # Out, Ids(q) = Remove(Ids(p), i), Out' = Out
      PROVE  Queue!Next
  <2>1. Queue!Cancel(i)
    BY <1>3 DEF Queue!Cancel, Ids, Out, Remove
  <2>2. QED
    BY <1>3, <2>1 DEF Queue!Next, Ids
<1>4. ASSUME Ids(q) = Ids(p), Out' = {} \/ Out' = Out PROVE [Queue!Next]_Queue!vars
  BY <1>4 DEF Queue!Next, Queue!Lose, Queue!vars, Ids, Out
<1>5. QED
  BY <1>1, <1>2, <1>3, <1>4

\* request() with the frames k below it.
LEMMA RequestIssues ==
    ASSUME OneOwnHolds, Typed, Nested, OwnOnce, Increasing, Typed', OwnOnce',
           next_id <= MaxRequests + MaxConnections,
           NEW op \in Opcode, NEW k, Callbacks(k), DoRequest(op, k),
           Somewhere(Own) <=> SomewhereWith(Own, k), OnceWith(Own, k), ~ SomewhereWith(Strays, k)
    PROVE  Queue!Next
<1>1. PICK p : p = pending_requests
  OBVIOUS
<1>2. PICK q : q = pending_requests'
  OBVIOUS
<1>3. PICK req : req = NewRequest(op)
  OBVIOUS
<1>4. /\ p \in Seq(Request) /\ req \in Request /\ q = Append(p, req) /\ q \in Seq(Request)
      /\ Growing(p, next_id) /\ req.id = next_id
      /\ next_id \in Nat \ {0}
  BY <1>1, <1>2, <1>3, DoRequestTyped DEF Typed, AttTyped, Increasing, NewRequest
<1>5. next_id \in 1..(MaxRequests + MaxConnections)
  BY <1>4, AttAssumption
<1>6. Ids(q) = Append(Ids(p), next_id)
  BY <1>4, IdsOfAppend
<1>7. \A i \in DOMAIN Ids(p) : Ids(p)[i] < next_id
  BY <1>4, IdsOfSeq DEF Growing
<1>8. Ids(p) = <<>> <=> p = <<>>
  BY <1>4, IdsOfSeq
<1>9. Out' = IF p = <<>> THEN {next_id} ELSE Out
  <2>1. CASE p = <<>>
    <3>1. Somewhere(Own)'
      BY <1>1, <2>1, DoRequestOwn
    <3>2. Out' = {Head(q).id}
      BY <1>2, <3>1, OutIsTheHeadLater
    <3>3. Head(q) = req
      BY <1>4, <2>1
    <3>4. QED
      BY <1>4, <2>1, <3>2, <3>3
  <2>2. CASE p # <<>>
    <3>1. SocketUnchangedBut(k)
      BY <1>1, <2>2, DoRequestTyped
    <3>2. Somewhere(Own)' <=> Somewhere(Own)
      BY <3>1 DEF SocketUnchangedBut, Somewhere, SomewhereWith
    <3>3. q # <<>> /\ Head(q) = Head(p)
      BY <1>4, <2>2
    <3>4. /\ Somewhere(Own) => Out = {Head(p).id}
          /\ ~ Somewhere(Own) => Out = {}
      BY <1>1, OutIsTheHead DEF OutFollows
    <3>5. /\ Somewhere(Own)' => Out' = {Head(q).id}
          /\ ~ Somewhere(Own)' => Out' = {}
      BY <1>2, OutIsTheHeadLater
    <3>6. Out' = Out
      BY <3>2, <3>3, <3>4, <3>5
    <3>7. QED
      BY <2>2, <3>6
  <2>3. QED
    BY <2>1, <2>2
<1>10. QED
  BY <1>1, <1>2, <1>5, <1>6, <1>7, <1>8, <1>9, QueueSteps

\* The end of handleSocketReadyRead() after a response.
LEMMA ResponseAnswers ==
    ASSUME OneOwnHolds, Typed, Nested, OwnOnce, Typed', OwnOnce', ResponseRest
    PROVE  Queue!Next
<1>1. PICK p : p = pending_requests
  OBVIOUS
<1>2. PICK q : q = pending_requests'
  OBVIOUS
<1>3. p \in Seq(Request) /\ p # <<>> /\ q = Tail(p) /\ q \in Seq(Request)
  BY <1>1, <1>2, ResponseRestTyped DEF Typed, AttTyped, NextRequest
<1>4. /\ stack # <<>> /\ Load(Head(stack)) \in Own
      /\ q # <<>> => Somewhere(Own)'
      /\ q = <<>> => ~ Somewhere(Own)'
  BY <1>2, ResponseRestOwn, ResponseRestTyped DEF OneOwnHolds
<1>5. Somewhere(Own)
  BY <1>4, PopStack DEF Typed
<1>6. Out = {Head(p).id}
  BY <1>1, <1>5, OutIsTheHead DEF OutFollows
<1>7. Out' = IF q = <<>> THEN {} ELSE {Head(q).id}
  <2>1. /\ Somewhere(Own)' => Out' = {Head(pending_requests').id}
        /\ ~ Somewhere(Own)' => Out' = {}
    BY OutIsTheHeadLater
  <2>2. QED
    BY <1>2, <1>4, <2>1
<1>8. /\ Ids(p) # <<>> /\ Head(Ids(p)) = Head(p).id /\ Ids(q) = Tail(Ids(p))
      /\ Ids(q) = <<>> <=> q = <<>>
      /\ q # <<>> => Head(Ids(q)) = Head(q).id
  BY <1>3, IdsOfSeq, IdsOfTail
<1>9. QED
  BY <1>1, <1>2, <1>6, <1>7, <1>8, QueueSteps

\* cancelRequest().
LEMMA CancelTakesBack ==
    ASSUME OneOwnHolds, Typed, Nested, OwnOnce, Increasing,
           NEW i \in DOMAIN pending_requests, AppCancel(i)
    PROVE  Queue!Next
<1>1. PICK p : p = pending_requests
  OBVIOUS
<1>2. PICK q : q = pending_requests'
  OBVIOUS
<1>3. /\ p \in Seq(Request) /\ q = Remove(p, i) /\ i \in DOMAIN p /\ i # 1 /\ p # <<>>
      /\ UNCHANGED socketVars /\ Growing(p, next_id)
  BY <1>1, <1>2, CancelOwn DEF Typed, AttTyped, AppCancel, OneOwnHolds, Increasing
<1>4. Out' = Out
  BY <1>3 DEF socketVars, Out, InFlight, Everywhere, Suspended, Tokens
<1>5. Ids(q) = Remove(Ids(p), i) /\ i \in DOMAIN Ids(p) /\ Ids(p)[i] = p[i].id
  BY <1>3, IdsOfRemove, IdsOfSeq
<1>6. Head(p) = p[1] /\ 1 \in DOMAIN p /\ 1 < i
  BY <1>3, LenProperties, EmptySeq
<1>7. p[1].id < p[i].id /\ p[1].id \in Nat
  <2>1. p[1] \in Request
    BY <1>3, <1>6, ElementOfSeq, LenProperties
  <2>2. p[1].id \in Nat
    BY <2>1 DEF Request
  <2>3. QED
    BY <1>3, <1>6, <2>2 DEF Growing
<1>8. Head(p).id # p[i].id
  BY <1>6, <1>7
<1>9. Out = {} \/ Out = {Head(p).id}
  BY <1>1, OutIsTheHead DEF OutFollows
<1>10. {Ids(p)[i]} # Out
  BY <1>5, <1>8, <1>9
<1>11. QED
  BY <1>1, <1>2, <1>4, <1>5, <1>10, QueueSteps

LEMMA StepIsQueued ==
    ASSUME OneOwnHolds, Typed, Nested, OwnOnce, Increasing, Bounded, Typed', OwnOnce', [Next]_vars
    PROVE  [Queue!Next]_Queue!vars
<1>0. /\ next_id \in Nat /\ connections \in Nat /\ MaxRequests \in Nat /\ MaxConnections \in Nat
      /\ SomewhereWith(Own, stack) = Somewhere(Own)
      /\ OnceWith(Own, stack) /\ ~ SomewhereWith(Strays, stack)
  BY AttAssumption DEF Typed, AttTyped, OwnOnce, Once, Somewhere
<1>1. ASSUME NEW op \in AppOpcode, AppRequest(op) PROVE Queue!Next
  <2>1. /\ Callbacks(stack) /\ DoRequest(op, stack) /\ op \in Opcode
        /\ next_id <= MaxRequests
    BY <1>1, CallsFromCallbacks DEF AppRequest, Opcode, Typed
  <2>2. next_id <= MaxRequests + MaxConnections
    BY <1>0, <2>1
  <2>3. QED
    BY <1>0, <2>1, <2>2, RequestIssues
<1>2. CASE HandleSocketConnected
  <2>1. /\ stack # <<>> /\ Load(Head(stack)) = NoPdu /\ Running("connected")
        /\ Callbacks(Tail(stack)) /\ DoRequest(MtuRequest, Tail(stack)) /\ MtuRequest \in Opcode
    BY <1>2, ConnectedTyped DEF HandleSocketConnected
  <2>2. /\ OnceWith(Own, Tail(stack))
        /\ ~ SomewhereWith(Strays, Tail(stack))
        /\ Somewhere(Own) <=> SomewhereWith(Own, Tail(stack))
    BY <2>1, PopStack, OwnPdus DEF OwnOnce, Typed
  <2>3. next_id <= MaxRequests + connections /\ connections <= MaxConnections
    BY <2>1 DEF Bounded, Establishing
  <2>4. next_id <= MaxRequests + MaxConnections
    BY <1>0, <2>3
  <2>5. QED
    BY <2>1, <2>2, <2>4, RequestIssues
<1>3. CASE ResponseRest
  BY <1>3, ResponseAnswers
<1>4. ASSUME NEW i \in DOMAIN pending_requests, AppCancel(i) PROVE Queue!Next
  BY <1>4, CancelTakesBack
<1>5. CASE ~ Requesting /\ ~ Cancelling
  <2>1. PICK p : p = pending_requests
    OBVIOUS
  <2>2. pending_requests' = pending_requests /\ Shrinks(Own, stack)
    BY <1>5, OtherStepsMove, StraysAreOwn
  <2>3. Somewhere(Own)' => Somewhere(Own)
    BY <1>0, <2>2 DEF Shrinks
  <2>4. /\ Somewhere(Own) => Out = {Head(p).id}
        /\ ~ Somewhere(Own) => Out = {}
    BY <2>1, OutIsTheHead DEF OutFollows
  <2>5. /\ Somewhere(Own)' => Out' = {Head(pending_requests').id}
        /\ ~ Somewhere(Own)' => Out' = {}
    BY OutIsTheHeadLater
  <2>6. Out' = {} \/ Out' = Out
    BY <2>1, <2>2, <2>3, <2>4, <2>5
  <2>7. p = pending_requests'
    BY <2>1, <2>2
  <2>8. QED
    BY <2>1, <2>6, <2>7, QueueSteps
<1>6. QED
  BY <1>1, <1>2, <1>3, <1>4, <1>5 DEF Requesting, Cancelling

LEMMA InitIsQueued ==
    ASSUME Init
    PROVE  Queue!Init /\ Increasing /\ Bounded
<1>1. pending_requests = <<>> /\ next_id = 1 /\ connections = 0 /\ s = "Disconnected" /\ stack = <<>>
  BY DEF Init, SocketInit
<1>2. Typed /\ OwnOnce /\ ~ Somewhere(Own)
  BY OwnOnceInv, InitNowhere
<1>3. Out = {}
  BY <1>2, OutIsTheHead DEF OutFollows
<1>4. Ids(pending_requests) = <<>>
  BY <1>1, IdsOfSeq, EmptySeq
<1>5. Queue!Init
  BY <1>3, <1>4 DEF Queue!Init, Ids, Out
<1>6. Increasing
  BY <1>1, EmptySeq DEF Increasing, Growing
<1>7. Bounded
  BY <1>1, AttAssumption DEF Bounded, Establishing, Running
<1>8. QED
  BY <1>5, <1>6, <1>7

\* Whatever fails, closes, reconnects and is called from slots and callbacks,
\* requests are sent one at a time in the order they were made, each once, and
\* only the one that is out is answered; with the hypotheses of
\* OneRequestAtATime.
THEOREM RequestsAreQueued == OneOwnHolds => (Spec => OneAtATime)
<1> SUFFICES ASSUME OneOwnHolds PROVE Spec => OneAtATime
  OBVIOUS
<1> DEFINE I == Typed /\ Nested /\ OwnOnce /\ Increasing /\ Bounded
<1>1. Init => I /\ Queue!Init
  BY OwnOnceInv, InitIsQueued
<1>2. I /\ [Next]_vars => I'
  BY OwnOnceInv, IncreasingStep, BoundedStep
<1>3. I /\ I' /\ [Next]_vars => [Queue!Next]_Queue!vars
  BY StepIsQueued
<1> HIDE DEF I
<1>4. QED
  BY <1>1, <1>2, <1>3, PTL DEF Spec, OneAtATime, Queue!Spec
=============================================================================
