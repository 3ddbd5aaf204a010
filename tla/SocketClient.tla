---------------------------- MODULE SocketClient ----------------------------
(***************************************************************************)
(* GatoSocket driven by a client that connects, sends and closes, takes    *)
(* one packet per readyRead() and may send when connected and when it has  *)
(* received, as GatoAttClient does, and whose slots of disconnected() may  *)
(* call connectTo() again.  The peer only talks.                           *)
(***************************************************************************)
EXTENDS GatoSocket

CONSTANTS Packet,          \* the packets of client and peer
          MaxTx,           \* bound: packets accepted by send() on one link
          MaxRx,           \* bound: unread packets of the peer
          ReconnectsUnder  \* the suspended calls below which a slot may call connectTo()

ASSUME ClientAssumption ==
    /\ MaxTx \in Nat
    /\ MaxRx \in Nat
    /\ ReconnectsUnder \subseteq SuspendedFrames

Frames == [at : {"send", "write", "readyRead", "received", "connected", "abort"},
           arg : Seq(Packet)]

(***************************************************************************)
(* The client's calls come from the event loop or from a slot of           *)
(* disconnected(), which runs above a suspended frame.                     *)
(***************************************************************************)
InSlot == stack # <<>> /\ Head(stack).at \in SuspendedFrames

ClientConnect ==
    /\ Idle \/ (InSlot /\ Head(stack).at \in ReconnectsUnder)
    /\ ConnectTo(stack)

MaySend == s # "Disconnected" /\ Len(outbound) + Len(writeQueue) < MaxTx

ClientSend(pkt) ==
    /\ Idle \/ InSlot
    /\ MaySend
    /\ Send(pkt, stack)

ClientClose ==
    /\ Idle \/ InSlot
    /\ Close(stack)

\* A slot of the client ends with send(), or with nothing to send.
SlotEnds ==
    \/ /\ stack' = Tail(stack)
       /\ UNCHANGED <<s, writeEnabled, readQueue, writeQueue, outbound, inbound>>
    \/ /\ MaySend
       /\ \E pkt \in Packet : Send(pkt, Tail(stack))

\* handleSocketConnected(): the MTU request, unless older ones are pending.
ClientConnected ==
    /\ Running("connected")
    /\ SlotEnds

\* handleSocketReadyRead(): one receive(), and then for some packets the
\* confirmation of an event or, after a response, the next request.
ClientReadyRead ==
    /\ Running("readyRead")
    /\ readQueue # <<>>
    /\ Receive
    /\ stack' = <<Frame("received", <<Head(readQueue)>>)>> \o Tail(stack)
    /\ UNCHANGED <<s, writeEnabled, writeQueue, outbound, inbound>>

ClientReceived ==
    /\ Running("received")
    /\ SlotEnds

PeerSend(pkt) ==
    /\ s # "Disconnected"
    /\ Len(inbound) < MaxRx
    /\ inbound' = Append(inbound, pkt)
    /\ UNCHANGED <<s, writeEnabled, readQueue, writeQueue, outbound, stack>>

\* What a function that has been interrupted, or a slot, does next.
Continue ==
    \/ SendRest
    \/ WriteRest
    \/ ClientConnected
    \/ ClientReadyRead
    \/ ClientReceived

Next ==
    \/ ClientConnect
    \/ \E pkt \in Packet : ClientSend(pkt) \/ PeerSend(pkt)
    \/ ClientClose
    \/ Continue
    \/ ReadPacket
    \/ ReadFails
    \/ WriteNotify

Spec == SocketInit /\ [][Next]_socketVars

(***************************************************************************)
(* Code already called runs on, and the event loop serves every notifier   *)
(* that is ready each time it polls: strong fairness, since a notifier is  *)
(* not ready while a slot runs.  Neither the client nor the peer is fair.  *)
(***************************************************************************)
FairSpec ==
    /\ Spec
    /\ WF_socketVars(Continue)
    /\ SF_socketVars(WriteNotify)

-----------------------------------------------------------------------------
TypeOK == SocketTypeOK(Packet, Frames)

(***************************************************************************)
(* send() and writeNotify() together are a FIFO channel: a packet sent     *)
(* directly never overtakes queued ones, none is written twice or skipped, *)
(* whatever closes, reconnects or fails in between.                        *)
(***************************************************************************)
Channel == INSTANCE TxChannel
             WITH accepted <- outbound \o writeQueue, delivered <- Len(outbound)

FifoChannel == Channel!Spec

(***************************************************************************)
(* readNotify() emits readyRead() only for a packet that finds the queue   *)
(* empty, and its receiver takes one packet per signal: no packet is left  *)
(* behind unannounced once the event loop is back in control.              *)
(***************************************************************************)
ReadQueueDrained == Idle => readQueue = <<>>

(***************************************************************************)
(* Whenever the event loop is in control, a socket that is connecting or   *)
(* has packets queued has its write notifier enabled: otherwise nobody     *)
(* would ever call writeNotify() again.  A slot of disconnected() may      *)
(* reconnect from inside send(), but not from inside writeNotify(), whose  *)
(* rest would disable the notifier of the new link (see the README).       *)
(***************************************************************************)
WriterAwake ==
    Idle /\ (s = "Connecting" \/ (s = "Connected" /\ writeQueue # <<>>))
        => writeEnabled

(***************************************************************************)
(* Every connection attempt ends, and while a packet is queued on a link   *)
(* the kernel gets another packet or the link ends.                        *)
(***************************************************************************)
AttemptEnds == s = "Connecting" ~> s # "Connecting"

QueueMoves ==
    \A n \in 0..MaxTx :
        (s = "Connected" /\ writeQueue # <<>> /\ Len(outbound) = n)
            ~> (Len(outbound) > n \/ s # "Connected")

(***************************************************************************)
(* gatosocket.cpp:96 says of close(): "We do not flush the writeQueue, but *)
(* rather drop all data."  So nothing is queued in a closed socket that    *)
(* has finished what it was doing.                                         *)
(***************************************************************************)
ClosedDropsAllData == (Idle /\ s = "Disconnected") => writeQueue = <<>>
=============================================================================
