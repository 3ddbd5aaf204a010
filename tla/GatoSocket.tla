----------------------------- MODULE GatoSocket -----------------------------
(***************************************************************************)
(* GatoSocket (gatosocket.cpp): the message-oriented L2CAP socket every     *)
(* other class of the library stands on.                                   *)
(*                                                                         *)
(* The library runs in one thread.  What makes it hard is re-entrancy: a   *)
(* signal is a direct call, so the slots of disconnected() run in the      *)
(* middle of the function whose write failed, may call the socket again,   *)
(* and only then does that function go on.  `stack' holds what is          *)
(* suspended or still has to run, innermost first: its head is the next    *)
(* thing to execute, and the event loop delivers nothing until it is       *)
(* empty.  Every operation below is therefore a fragment with a last       *)
(* parameter k, the frames that remain once the fragment is done; modules  *)
(* that EXTEND this one turn the fragments into actions.                   *)
(***************************************************************************)
EXTENDS Naturals, Sequences

CONSTANT WriteMayFail   \* whether ::write() may fail on a connected socket

ASSUME WriteMayFailAssumption == WriteMayFail \in BOOLEAN

VARIABLES
    s,             \* GatoSocket::s; the two notifiers exist iff it is not "Disconnected"
    writeEnabled,  \* writeNotifier->isEnabled()
    readQueue,     \* GatoSocket::readQueue
    writeQueue,    \* GatoSocket::writeQueue
    outbound,      \* kernel: packets written on this link, not yet taken by the peer
    inbound,       \* kernel: packets of the peer not yet read
    stack          \* frames to run before the event loop gets control back

socketVars == <<s, writeEnabled, readQueue, writeQueue, outbound, inbound, stack>>

State == {"Disconnected", "Connecting", "Connected"}

(***************************************************************************)
(* Frames.  arg is a sequence of zero or one packets.                      *)
(***************************************************************************)
Frame(at, arg) == [at |-> at, arg |-> arg]

Running(at) == stack # <<>> /\ Head(stack).at = at

Idle == stack = <<>>

\* The process is gone: the outcome of using a deleted notifier.
Abort == <<Frame("abort", <<>>)>>

\* Frames suspended while the slots of disconnected() run: send() and
\* writeNotify() after transmit() has closed the socket.
SuspendedFrames == {"send", "write"}

SocketInit ==
    /\ s = "Disconnected"
    /\ writeEnabled = FALSE
    /\ readQueue = <<>>
    /\ writeQueue = <<>>
    /\ outbound = <<>>
    /\ inbound = <<>>
    /\ stack = <<>>

(***************************************************************************)
(* connectTo().  The queues are not touched on the way to Connecting.      *)
(* When ::connect() is refused, close() runs and disconnected() is emitted *)
(* with nothing left to do.  (A call in another state, or without a file   *)
(* descriptor, changes nothing.)                                           *)
(***************************************************************************)
CloseThen(k) ==
    /\ s' = "Disconnected"
    /\ writeEnabled' = FALSE
    /\ readQueue' = <<>>
    /\ writeQueue' = <<>>
    /\ outbound' = <<>>
    /\ inbound' = <<>>
    /\ stack' = k

\* Faulty variant: the write notifier of a new socket starts disabled.
ConnectAsleep(k) ==
    /\ s = "Disconnected"
    /\ s' = "Connecting"
    /\ stack' = k
    /\ UNCHANGED <<writeEnabled, readQueue, writeQueue, outbound, inbound>>

ConnectTo(k) ==
    /\ s = "Disconnected"
    /\ \/ /\ s' = "Connecting"
          /\ writeEnabled' = TRUE
          /\ stack' = k
          /\ UNCHANGED <<readQueue, writeQueue, outbound, inbound>>
       \/ CloseThen(k)

Close(k) ==
    /\ s # "Disconnected"
    /\ CloseThen(k)

Receive == readQueue' = Tail(readQueue)

(***************************************************************************)
(* writeNotifier->setEnabled(on).  On a closed socket the pointer is that  *)
(* of a deleted object: the call has no visible effect, or ends the        *)
(* process.                                                                *)
(***************************************************************************)
SetWriteEnabled(on, k) ==
    \/ /\ s # "Disconnected"
       /\ writeEnabled' = on
       /\ stack' = k
    \/ /\ s = "Disconnected"
       /\ stack' \in {k, Abort}
       /\ UNCHANGED writeEnabled

Enqueue(pkt, k) ==
    /\ writeQueue' = Append(writeQueue, pkt)
    /\ SetWriteEnabled(TRUE, k)
    /\ UNCHANGED <<s, readQueue, outbound, inbound>>

(***************************************************************************)
(* send(): straight to the kernel when connected and nothing is queued     *)
(* ahead; a write that fails closes the socket in the middle of send(),    *)
(* which goes on in SendRest as if the packet could be queued.             *)
(***************************************************************************)
\* Faulty variant: packets already queued are not looked at.
CanAlwaysTransmit == s = "Connected"

CanTransmit == s = "Connected" /\ writeQueue = <<>>

Send(pkt, k) ==
    \/ /\ CanTransmit
       /\ outbound' = Append(outbound, pkt)
       /\ stack' = k
       /\ UNCHANGED <<s, writeEnabled, readQueue, writeQueue, inbound>>
    \/ /\ CanTransmit
       /\ WriteMayFail
       /\ Close(<<Frame("send", <<pkt>>)>> \o k)
    \/ /\ ~ CanTransmit
       /\ Enqueue(pkt, k)

SendRest ==
    /\ Running("send")
    /\ Enqueue(Head(Head(stack).arg), Tail(stack))

(***************************************************************************)
(* readNotify(): the kernel has a packet or an error.  Packets may be read *)
(* before writeNotify() has noticed that the link is up.  readyRead() is   *)
(* emitted only when the queue was empty.  (A read of zero bytes changes   *)
(* nothing.)                                                               *)
(***************************************************************************)
\* Faulty variant: the size is taken before the packet is added.
ReadyReadTooLate(queue) == IF Len(queue) = 2 THEN <<Frame("readyRead", <<>>)>> ELSE <<>>

ReadyRead(queue) == IF Len(queue) = 1 THEN <<Frame("readyRead", <<>>)>> ELSE <<>>

ReadPacket ==
    /\ Idle
    /\ inbound # <<>>
    /\ inbound' = Tail(inbound)
    /\ readQueue' = Append(readQueue, Head(inbound))
    /\ stack' = ReadyRead(readQueue')
    /\ UNCHANGED <<s, writeEnabled, writeQueue, outbound>>

\* Faulty variant: the result of ::read() is not looked at, and the buffer,
\* resized to -1, is queued as an empty packet.
ReadUnchecked ==
    /\ Idle
    /\ s # "Disconnected"
    /\ readQueue' = Append(readQueue, <<>>)
    /\ stack' = ReadyRead(readQueue')
    /\ UNCHANGED <<s, writeEnabled, writeQueue, outbound, inbound>>

ReadFails ==
    /\ Idle
    /\ Close(<<>>)

(***************************************************************************)
(* writeNotify(), by outcome.  A write that fails closes the socket, and   *)
(* the rest of the function runs after the slots of disconnected().        *)
(***************************************************************************)
Writable(state) == Idle /\ writeEnabled /\ s = state

ConnectSucceeds ==
    /\ Writable("Connecting")
    /\ s' = "Connected"
    /\ stack' = <<Frame("connected", <<>>)>>
    /\ UNCHANGED <<writeEnabled, readQueue, writeQueue, outbound, inbound>>

ConnectFails ==
    /\ Writable("Connecting")
    /\ Close(<<>>)

\* Faulty variant: the notifier is disabled after every packet.
WriteHeadOnly ==
    /\ Writable("Connected")
    /\ writeQueue # <<>>
    /\ outbound' = Append(outbound, Head(writeQueue))
    /\ writeQueue' = Tail(writeQueue)
    /\ writeEnabled' = FALSE
    /\ UNCHANGED <<s, readQueue, inbound, stack>>

WriteHead ==
    /\ Writable("Connected")
    /\ writeQueue # <<>>
    /\ outbound' = Append(outbound, Head(writeQueue))
    /\ writeQueue' = Tail(writeQueue)
    /\ writeEnabled' = (writeQueue' # <<>>)
    /\ UNCHANGED <<s, readQueue, inbound, stack>>

WriteNothing ==
    /\ Writable("Connected")
    /\ writeQueue = <<>>
    /\ SetWriteEnabled(FALSE, <<>>)
    /\ UNCHANGED <<s, readQueue, writeQueue, outbound, inbound>>

WriteFails ==
    /\ Writable("Connected")
    /\ writeQueue # <<>>
    /\ WriteMayFail
    /\ Close(<<Frame("write", <<>>)>>)

WriteRest ==
    /\ Running("write")
    /\ \/ /\ writeQueue = <<>>
          /\ SetWriteEnabled(FALSE, Tail(stack))
       \/ /\ writeQueue # <<>>
          /\ stack' = Tail(stack)
          /\ UNCHANGED writeEnabled
    /\ UNCHANGED <<s, readQueue, writeQueue, outbound, inbound>>

WriteNotify ==
    \/ ConnectSucceeds
    \/ ConnectFails
    \/ WriteHead
    \/ WriteNothing
    \/ WriteFails

(***************************************************************************)
(* The type of the socket's state, given the packets and the frames of the *)
(* composition.                                                            *)
(***************************************************************************)
SocketTypeOK(Packet, FrameSet) ==
    /\ s \in State
    /\ writeEnabled \in BOOLEAN
    /\ readQueue \in Seq(Packet)
    /\ writeQueue \in Seq(Packet)
    /\ outbound \in Seq(Packet)
    /\ inbound \in Seq(Packet)
    /\ stack \in Seq(FrameSet)
=============================================================================
