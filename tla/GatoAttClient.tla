---------------------------- MODULE GatoAttClient ----------------------------
(***************************************************************************)
(* GatoAttClient (gatoattclient.cpp) over GatoSocket, an application that  *)
(* calls it from the event loop and from its slots, and an ATT server at   *)
(* the other end of the link.                                              *)
(*                                                                         *)
(* The application's code runs when the event loop is idle, in the slots   *)
(* of disconnected() above an interrupted send() or writeNotify(), and in  *)
(* the callback of a response, above handleSocketReadyRead().  The slots   *)
(* of connected() and attributeUpdated() run last in their handlers, so    *)
(* what they call is a call from the idle event loop.                      *)
(***************************************************************************)
EXTENDS GatoSocket, FiniteSets

CONSTANTS
    AppOpcode,         \* the opcodes the application requests
    RawOpcode,         \* those handleResponse() has no case for
    ServerMtu,         \* the MTUs servers answer with
    PeerRequests,      \* whether the peer is also a client and sends requests
    SlotCalls,         \* what slots and callbacks may call
    CancelsHead,       \* whether cancelRequest() is called for the request that is out
    ReconnectPending,  \* whether connectTo() is called with requests pending
    MaxConnections,    \* bound: calls of connectTo()
    MaxRequests,       \* bound: next_id above which the application is quiet
    MaxTx,             \* bound: packets on their way out that allow a command
    MaxRx              \* bound: packets on their way in that allow an event

MtuRequest == "mtu"

Calls == {"request", "command", "close", "connect", "cancel"}

ASSUME AttAssumption ==
    /\ MtuRequest \notin AppOpcode
    /\ RawOpcode \subseteq AppOpcode
    /\ ServerMtu \subseteq Nat
    /\ PeerRequests \in BOOLEAN
    /\ ReconnectPending \in BOOLEAN
    /\ SlotCalls \subseteq Calls
    /\ CancelsHead \in BOOLEAN
    /\ {MaxConnections, MaxRequests, MaxTx, MaxRx} \subseteq Nat

ATT_DEFAULT_LE_MTU == 23

VARIABLES
    pending_requests,  \* GatoAttClient::pending_requests; its head has been sent
    next_id,           \* GatoAttClient::next_id
    cur_mtu,           \* GatoAttClient::cur_mtu
    connections,       \* how often connectTo() was called
    owed               \* the server: an indication is not confirmed yet

attVars == <<pending_requests, next_id, cur_mtu, connections, owed>>
vars == <<socketVars, attVars>>

(***************************************************************************)
(* PDUs.  id ties a request, and the response to it, to the entry of       *)
(* pending_requests it was made from; it is 0 on everything else and no    *)
(* code reads it.                                                          *)
(***************************************************************************)
Opcode == AppOpcode \cup {MtuRequest}
Kind == {"request", "response", "error", "notification", "indication",
         "confirmation", "command"}
Pdu == [kind : Kind, op : Opcode \cup {"none"}, id : Nat]
Request == [id : Nat \ {0}, op : Opcode]

Unsolicited(kind) == [kind |-> kind, op |-> "none", id |-> 0]
RequestPdu(req) == [kind |-> "request", op |-> req.op, id |-> req.id]

FrameNames == {"send", "write", "readyRead", "connected", "received", "response", "abort"}
Frames == [at : FrameNames, arg : Seq(Pdu)]

\* Faulty variant: ids start at 0.
InitWithoutId ==
    /\ SocketInit
    /\ pending_requests = <<>>
    /\ next_id = 0
    /\ cur_mtu = ATT_DEFAULT_LE_MTU
    /\ connections = 0
    /\ owed = FALSE

Init ==
    /\ SocketInit
    /\ pending_requests = <<>>
    /\ next_id = 1
    /\ cur_mtu = ATT_DEFAULT_LE_MTU
    /\ connections = 0
    /\ owed = FALSE

\* The server forgets what it is owed when the link ends.
ServerLink == owed' = (owed /\ s' # "Disconnected")

-----------------------------------------------------------------------------
(***************************************************************************)
(* request() queues, and sends only when nothing else is pending;          *)
(* NextRequest is the end of handleSocketReadyRead(): dequeue, and         *)
(* sendARequest() if there is another.                                     *)
(***************************************************************************)
SocketUnchangedBut(k) ==
    /\ stack' = k
    /\ UNCHANGED <<s, writeEnabled, readQueue, writeQueue, outbound, inbound>>

\* Faulty variant: every request is sent at once.
RequestAtOnce(op, k) ==
    LET req == [id |-> next_id, op |-> op] IN
    /\ next_id' = next_id + 1
    /\ pending_requests' = Append(pending_requests, req)
    /\ Send(RequestPdu(req), k)

DoRequest(op, k) ==
    LET req == [id |-> next_id, op |-> op] IN
    /\ next_id' = next_id + 1
    /\ pending_requests' = Append(pending_requests, req)
    /\ IF Len(pending_requests') = 1 THEN Send(RequestPdu(req), k)
                                     ELSE SocketUnchangedBut(k)

\* Faulty variant: the next request is not sent.
JustDequeue(k) ==
    /\ pending_requests' = Tail(pending_requests)
    /\ SocketUnchangedBut(k)

NextRequest(k) ==
    /\ pending_requests' = Tail(pending_requests)
    /\ IF pending_requests' # <<>> THEN Send(RequestPdu(Head(pending_requests')), k)
                                   ELSE SocketUnchangedBut(k)

-----------------------------------------------------------------------------
(***************************************************************************)
(* The application.                                                        *)
(***************************************************************************)
CalledBack == \E j \in DOMAIN stack : stack[j].at = "response"

InSlot == stack # <<>> /\ Head(stack).at \in SuspendedFrames

\* The MTU exchange is answered to the client itself, not to the application.
InCallback == Running("response") /\ Head(pending_requests).op # MtuRequest

May(call) == Idle \/ (call \in SlotCalls /\ (InSlot \/ InCallback))

AppConnect ==
    /\ May("connect")
    /\ connections < MaxConnections
    /\ ReconnectPending \/ pending_requests = <<>>
    /\ connections' = connections + 1
    /\ ConnectTo(stack)
    /\ ServerLink
    /\ UNCHANGED <<pending_requests, next_id, cur_mtu>>

AppClose ==
    /\ May("close")
    /\ Close(stack)
    /\ ServerLink
    /\ UNCHANGED <<pending_requests, next_id, cur_mtu, connections>>

\* GatoPeripheral checks that it is connected before every request and command.
AppRequest(op) ==
    /\ May("request")
    /\ s = "Connected"
    /\ next_id <= MaxRequests
    /\ DoRequest(op, stack)
    /\ ServerLink
    /\ UNCHANGED <<cur_mtu, connections>>

AppCommand ==
    /\ May("command")
    /\ s = "Connected"
    /\ Len(outbound) + Len(writeQueue) < MaxTx
    /\ Send(Unsolicited("command"), stack)
    /\ ServerLink
    /\ UNCHANGED <<pending_requests, next_id, cur_mtu, connections>>

\* cancelRequest(): erases the entry wherever it is.  (The entry whose
\* callback has not returned is not cancelled.)
Remove(q, i) == SubSeq(q, 1, i - 1) \o SubSeq(q, i + 1, Len(q))

AppCancel(i) ==
    /\ May("cancel")
    /\ i = 1 => CancelsHead /\ ~ CalledBack
    /\ pending_requests' = Remove(pending_requests, i)
    /\ UNCHANGED <<socketVars, next_id, cur_mtu, connections, owed>>

-----------------------------------------------------------------------------
(***************************************************************************)
(* The handlers of the socket's signals.                                   *)
(***************************************************************************)
HandleSocketConnected ==
    /\ Running("connected")
    /\ DoRequest(MtuRequest, Tail(stack))
    /\ ServerLink
    /\ UNCHANGED <<cur_mtu, connections>>

\* handleSocketReadyRead() up to receive(); the rest is by kind of packet.
ReceivePdu ==
    /\ Running("readyRead")
    /\ readQueue # <<>>
    /\ Receive
    /\ stack' = <<Frame("received", <<Head(readQueue)>>)>> \o Tail(stack)
    /\ UNCHANGED <<s, writeEnabled, writeQueue, outbound, inbound>>
    /\ UNCHANGED attVars

Received == Head(Head(stack).arg)

Answers(pdu, req) ==
    \/ req.op \in RawOpcode
    \/ pdu.kind \in {"response", "error"} /\ pdu.op = req.op

IsEvent(pdu) == pdu.kind \in {"notification", "indication"}

\* Faulty variant: an indication is treated as a notification.
NoConfirmation ==
    /\ Running("received")
    /\ Received.kind = "indication"
    /\ SocketUnchangedBut(Tail(stack))
    /\ UNCHANGED attVars

HandleIndication ==
    /\ Running("received")
    /\ Received.kind = "indication"
    /\ Send(Unsolicited("confirmation"), Tail(stack))
    /\ ServerLink
    /\ UNCHANGED <<pending_requests, next_id, cur_mtu, connections>>

\* A notification changes nothing here; a packet nobody waits for is dropped.
HandleUnanswered ==
    /\ Running("received")
    /\ \/ Received.kind = "notification"
       \/ /\ ~ IsEvent(Received)
          /\ pending_requests # <<>> => ~ Answers(Received, Head(pending_requests))
    /\ SocketUnchangedBut(Tail(stack))
    /\ UNCHANGED attVars

\* handleServerMTU(); an error is passed on as an MTU of zero.
NegotiatedMtu(mtu) ==
    IF mtu = 0 THEN cur_mtu
    ELSE IF mtu < ATT_DEFAULT_LE_MTU THEN ATT_DEFAULT_LE_MTU ELSE mtu

\* handleResponse() finds that the packet answers the head and calls back.
HandleResponse ==
    /\ Running("received")
    /\ ~ IsEvent(Received)
    /\ pending_requests # <<>>
    /\ Answers(Received, Head(pending_requests))
    /\ SocketUnchangedBut(<<Frame("response", <<Received>>)>> \o Tail(stack))
    /\ IF Head(pending_requests).op = MtuRequest
       THEN \E mtu \in IF Received.kind = "error" THEN {0} ELSE ServerMtu :
                cur_mtu' = NegotiatedMtu(mtu)
       ELSE UNCHANGED cur_mtu
    /\ UNCHANGED <<pending_requests, next_id, connections, owed>>

ResponseRest ==
    /\ Running("response")
    /\ NextRequest(Tail(stack))
    /\ ServerLink
    /\ UNCHANGED <<next_id, cur_mtu, connections>>

SocketStep(A) ==
    /\ A
    /\ ServerLink
    /\ UNCHANGED <<pending_requests, next_id, cur_mtu, connections>>

-----------------------------------------------------------------------------
(***************************************************************************)
(* The server: it answers requests in order, with a response or an error,  *)
(* and sends an indication only when the last one was confirmed.           *)
(***************************************************************************)
ServerTakes(pdu) ==
    /\ outbound # <<>>
    /\ pdu = Head(outbound)
    /\ outbound' = Tail(outbound)
    /\ \/ /\ pdu.kind = "request"
          /\ \E kind \in {"response", "error"} :
                inbound' = Append(inbound, [pdu EXCEPT !.kind = kind])
          /\ UNCHANGED owed
       \/ /\ pdu.kind # "request"
          /\ owed' = (owed /\ pdu.kind # "confirmation")
          /\ UNCHANGED inbound
    /\ UNCHANGED <<s, writeEnabled, readQueue, writeQueue, stack>>
    /\ UNCHANGED <<pending_requests, next_id, cur_mtu, connections>>

PeerSends(kind) ==
    /\ s # "Disconnected"
    /\ Len(inbound) < MaxRx
    /\ kind = "request" => PeerRequests
    /\ kind = "indication" => ~ owed
    /\ owed' = (owed \/ kind = "indication")
    /\ inbound' = Append(inbound, Unsolicited(kind))
    /\ UNCHANGED <<s, writeEnabled, readQueue, writeQueue, outbound, stack>>
    /\ UNCHANGED <<pending_requests, next_id, cur_mtu, connections>>

ServerAnswers == \E pdu \in {outbound[i] : i \in DOMAIN outbound} : ServerTakes(pdu)

-----------------------------------------------------------------------------
App ==
    \/ AppConnect
    \/ AppClose
    \/ \E op \in AppOpcode : AppRequest(op)
    \/ AppCommand
    \/ \E i \in DOMAIN pending_requests : AppCancel(i)

\* Code that has been called and runs on without returning to the event loop.
Continue ==
    \/ SocketStep(SendRest)
    \/ SocketStep(WriteRest)
    \/ HandleSocketConnected
    \/ ReceivePdu
    \/ HandleIndication
    \/ HandleUnanswered
    \/ HandleResponse
    \/ ResponseRest

Peer == \E kind \in {"notification", "indication", "request"} : PeerSends(kind)

Next ==
    \/ App
    \/ Continue
    \/ SocketStep(ReadPacket)
    \/ SocketStep(ReadFails)
    \/ SocketStep(WriteNotify)
    \/ ServerAnswers
    \/ Peer

Spec == Init /\ [][Next]_vars

(***************************************************************************)
(* Calls run on, the event loop serves every ready notifier each time it   *)
(* polls, and the server answers; the application and the rest of what the *)
(* peer sends are not fair.                                                *)
(***************************************************************************)
FairSpec ==
    /\ Spec
    /\ WF_vars(Continue)
    /\ SF_vars(SocketStep(ReadPacket))
    /\ SF_vars(SocketStep(WriteNotify))
    /\ WF_vars(ServerAnswers)

-----------------------------------------------------------------------------
TypeOK ==
    /\ SocketTypeOK(Pdu, Frames)
    /\ pending_requests \in Seq(Request)
    /\ next_id \in Nat \ {0}
    /\ cur_mtu \in Nat
    /\ connections \in Nat
    /\ owed \in BOOLEAN

(***************************************************************************)
(* Where the PDUs of the client's requests are, on either side of the      *)
(* link and in suspended calls.                                            *)
(***************************************************************************)
Tokens(place, q, P(_)) ==
    {[place |-> place, at |-> i, id |-> q[i].id] : i \in {j \in DOMAIN q : P(q[j])}}

Suspended(P(_)) ==
    {[place |-> "stack", at |-> i, id |-> stack[i].arg[1].id] :
        i \in {j \in DOMAIN stack : stack[j].arg # <<>> /\ P(stack[j].arg[1])}}

Everywhere(P(_)) ==
    UNION {Tokens("writeQueue", writeQueue, P), Tokens("outbound", outbound, P),
           Tokens("inbound", inbound, P), Tokens("readQueue", readQueue, P),
           Suspended(P)}

IsOwn(pdu) == pdu.id # 0

InFlight == Everywhere(IsOwn)

(***************************************************************************)
(* ATT allows one request at a time, and responses carry no id: the client *)
(* relies on the answer it gets being that of the head of                  *)
(* pending_requests (gatoattclient.cpp:571-580).  Whatever fails, closes,  *)
(* reconnects or is called from a slot, at most one request or response is *)
(* anywhere, and it is the head's.                                         *)
(***************************************************************************)
OneOutstanding ==
    /\ \A a, b \in InFlight : a = b
    /\ \A a \in InFlight : pending_requests # <<>> /\ a.id = Head(pending_requests).id

(***************************************************************************)
(* The request queue as its callers see it.                                *)
(***************************************************************************)
Queue == INSTANCE AttQueue
           WITH Id <- 1..(MaxRequests + MaxConnections),
                queue <- [i \in DOMAIN pending_requests |-> pending_requests[i].id],
                out <- {a.id : a \in InFlight}

OneAtATime == Queue!Spec

(***************************************************************************)
(* request() sends only when the queue was empty, and every other request  *)
(* is sent by the answer to the one before it (gatoattclient.cpp:123-126,  *)
(* 574-578): on a live link the head has been sent and is not answered     *)
(* yet, so that somebody will send the rest.                               *)
(***************************************************************************)
HeadInFlight == Idle /\ s = "Connected" /\ pending_requests # <<>> => InFlight # {}

(***************************************************************************)
(* Every request made on a link is answered, or the link ends.             *)
(***************************************************************************)
Pending(id) == \E i \in DOMAIN pending_requests : pending_requests[i].id = id

RequestEnds ==
    \A id \in 1..(MaxRequests + MaxConnections) :
        (s = "Connected" /\ Pending(id)) ~> (~ Pending(id) \/ s # "Connected")

(***************************************************************************)
(* An indication is confirmed exactly once, past all pending requests      *)
(* (gatoattclient.cpp:278): as long as the server is owed a confirmation,  *)
(* the indication or its confirmation is somewhere, and only one of them.  *)
(* When writes fail a confirmation can survive its link, but none is lost. *)
(***************************************************************************)
IsExchange(pdu) == pdu.kind \in {"indication", "confirmation"}

ConfirmationNotLost == owed => Everywhere(IsExchange) # {}

ConfirmedOnce == Cardinality(Everywhere(IsExchange)) = IF owed THEN 1 ELSE 0

(***************************************************************************)
(* gatoattclient.cpp:571: "Otherwise, if we have a request waiting, check  *)
(* if this answers it": the callback of a request runs on its own answer.  *)
(***************************************************************************)
CallbackGetsItsAnswer ==
    Running("response") =>
        pending_requests # <<>> /\ Head(Head(stack).arg).id = Head(pending_requests).id
=============================================================================
