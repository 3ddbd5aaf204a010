------------------------- MODULE SocketClientProofs -------------------------
(***************************************************************************)
(* SocketClient for every set of packets and every bound: types, the read  *)
(* queue, the implementation of TxChannel, and the write notifier.         *)
(***************************************************************************)
EXTENDS SocketClient, SequenceTheorems, TLAPS

(***************************************************************************)
(* What makes the invariants inductive: at most one call is suspended, its *)
(* slots never run on a connected socket, a suspended send() has its       *)
(* packet, and readQueue holds a packet exactly while readyRead() is being *)
(* delivered.                                                              *)
(***************************************************************************)
OneFrame == stack = <<>> \/ Len(stack) = 1

SlotsOnOpenSocket == InSlot => s # "Connected"

SendHasPacket == Running("send") => Head(stack).arg # <<>>

OnePacketPerSignal ==
    /\ Running("readyRead") => Len(readQueue) = 1
    /\ ~ Running("readyRead") => readQueue = <<>>

IInv ==
    /\ TypeOK
    /\ OneFrame
    /\ SlotsOnOpenSocket
    /\ SendHasPacket
    /\ OnePacketPerSignal

-----------------------------------------------------------------------------
(***************************************************************************)
(* Stacks of one frame.                                                    *)
(***************************************************************************)
LEMMA SingleFrame ==
    ASSUME NEW at \in {"send", "write", "readyRead", "received", "connected", "abort"},
           NEW arg \in Seq(Packet)
    PROVE  /\ <<Frame(at, arg)>> \in Seq(Frames)
           /\ Len(<<Frame(at, arg)>>) = 1
           /\ <<Frame(at, arg)>> # <<>>
           /\ Head(<<Frame(at, arg)>>).at = at
           /\ Head(<<Frame(at, arg)>>).arg = arg
<1>1. Frame(at, arg) \in Frames
  BY DEF Frame, Frames
<1>2. Frame(at, arg).at = at /\ Frame(at, arg).arg = arg
  BY DEF Frame
<1> QED
  BY <1>1, <1>2

\* A stack of at most one frame is empty below its head.
LEMMA BelowTheHead ==
    ASSUME TypeOK, OneFrame, stack # <<>>
    PROVE  /\ Head(stack) \in Frames
           /\ Tail(stack) = <<>>
<1>1. stack \in Seq(Frames)
  BY DEF TypeOK, SocketTypeOK
<1>2. Len(stack) = 1
  BY DEF OneFrame
<1>3. Tail(stack) \in Seq(Frames) /\ Len(Tail(stack)) = 0 /\ Head(stack) \in Frames
  BY <1>1, <1>2, HeadTailProperties
<1> QED
  BY <1>3, EmptySeq

-----------------------------------------------------------------------------
(***************************************************************************)
(* The fragments every action is made of.                                  *)
(***************************************************************************)
SuspendedStack(k) ==
    /\ k \in Seq(Frames)
    /\ k # <<>> => /\ Len(k) = 1
                   /\ Head(k).at \in SuspendedFrames
                   /\ Head(k).at = "send" => Head(k).arg # <<>>

\* What the application's calls run above.
LEMMA CallersStack ==
    ASSUME IInv, Idle \/ InSlot
    PROVE  SuspendedStack(stack) /\ readQueue = <<>>
<1>1. stack \in Seq(Frames)
  BY DEF IInv, TypeOK, SocketTypeOK
<1>2. ~ Running("readyRead")
  BY DEF Idle, InSlot, Running, SuspendedFrames
<1> QED
  BY <1>1, <1>2 DEF IInv, OneFrame, SendHasPacket, OnePacketPerSignal, Running, Idle, InSlot,
                    SuspendedStack

\* send() and writeNotify() leave such a stack when their write fails.
LEMMA SuspendedFrame ==
    ASSUME NEW at \in SuspendedFrames, NEW arg \in Seq(Packet), at = "send" => arg # <<>>
    PROVE  SuspendedStack(<<Frame(at, arg)>>)
BY SingleFrame DEF SuspendedFrames, SuspendedStack

\* A step that only moves the stack to one an application may run above.
LEMMA StackPreserves ==
    ASSUME TypeOK', SuspendedStack(stack') \/ stack' = Abort,
           readQueue' = <<>>, s' = "Connected" => ~ InSlot'
    PROVE  IInv'
<1>1. CASE SuspendedStack(stack')
  BY <1>1 DEF IInv, OneFrame, SlotsOnOpenSocket, InSlot, SendHasPacket, OnePacketPerSignal,
              Running, SuspendedStack, SuspendedFrames
<1>2. CASE stack' = Abort
  <2>1. /\ Len(stack') = 1
        /\ Head(stack').at = "abort"
    BY <1>2, SingleFrame, EmptySeq DEF Abort
  <2> QED
    BY <2>1 DEF IInv, OneFrame, SlotsOnOpenSocket, InSlot, SendHasPacket, OnePacketPerSignal,
              Running, SuspendedFrames
<1> QED
  BY <1>1, <1>2

\* close(), whatever is suspended below it.
LEMMA ClosePreserves ==
    ASSUME IInv, NEW k, SuspendedStack(k), CloseThen(k)
    PROVE  IInv'
<1>1. TypeOK'
  BY EmptySeq DEF CloseThen, IInv, TypeOK, SocketTypeOK, State, SuspendedStack
<1> QED
  BY <1>1, StackPreserves DEF CloseThen

\* Queueing a packet, also on a socket that was closed in the meantime.
LEMMA EnqueuePreserves ==
    ASSUME IInv, NEW pkt \in Packet, NEW k, SuspendedStack(k), Enqueue(pkt, k),
           k = <<>> \/ k = stack, readQueue = <<>>
    PROVE  IInv'
<1>1. Abort \in Seq(Frames) /\ Head(Abort).at = "abort"
  BY SingleFrame, EmptySeq DEF Abort
<1>2. Append(writeQueue, pkt) \in Seq(Packet)
  BY AppendProperties DEF IInv, TypeOK, SocketTypeOK
<1>3. TypeOK'
  BY <1>1, <1>2 DEF Enqueue, SetWriteEnabled, IInv, TypeOK, SocketTypeOK, State, SuspendedStack
<1>4. s' = "Connected" => ~ InSlot'
  BY <1>1 DEF Enqueue, SetWriteEnabled, IInv, SlotsOnOpenSocket, InSlot, SuspendedFrames
<1> QED
  BY <1>3, <1>4, StackPreserves DEF Enqueue, SetWriteEnabled

\* send(), in its three outcomes, from a stack its caller leaves behind.
LEMMA SendPreserves ==
    ASSUME IInv, NEW k, SuspendedStack(k), k = <<>> \/ k = stack, CanTransmit => k = <<>>,
           readQueue = <<>>, NEW pkt \in Packet, Send(pkt, k)
    PROVE  IInv'
<1>1. CASE CanTransmit /\ outbound' = Append(outbound, pkt) /\ stack' = k
           /\ UNCHANGED <<s, writeEnabled, readQueue, writeQueue, inbound>>
  <2>1. Append(outbound, pkt) \in Seq(Packet)
    BY AppendProperties DEF IInv, TypeOK, SocketTypeOK
  <2>2. TypeOK'
    BY <1>1, <2>1 DEF IInv, TypeOK, SocketTypeOK, SuspendedStack
  <2> QED
    BY <1>1, <2>2, StackPreserves DEF InSlot
<1>2. CASE CanTransmit /\ Close(<<Frame("send", <<pkt>>)>> \o k)
  <2>1. <<pkt>> \in Seq(Packet) /\ <<pkt>> # <<>>
    OBVIOUS
  <2>2. SuspendedStack(<<Frame("send", <<pkt>>)>>)
    BY <2>1, SuspendedFrame DEF SuspendedFrames
  <2>3. <<Frame("send", <<pkt>>)>> \o k = <<Frame("send", <<pkt>>)>>
    BY <1>2, <2>2, ConcatEmptySeq DEF SuspendedStack
  <2> QED
    BY <1>2, <2>2, <2>3, ClosePreserves DEF Close
<1>3. CASE Enqueue(pkt, k)
  BY <1>3, EnqueuePreserves
<1> QED
  BY <1>1, <1>2, <1>3 DEF Send

\* The end of the client's slots of connected() and readyRead().
LEMMA SlotEndPreserves ==
    ASSUME IInv, stack # <<>>, readQueue = <<>>, SlotEnds
    PROVE  IInv'
<1>1. Tail(stack) = <<>> /\ SuspendedStack(<<>>)
  BY BelowTheHead, EmptySeq DEF IInv, SuspendedStack
<1>2. CASE stack' = Tail(stack)
           /\ UNCHANGED <<s, writeEnabled, readQueue, writeQueue, outbound, inbound>>
  <2>1. TypeOK'
    BY <1>1, <1>2 DEF IInv, TypeOK, SocketTypeOK, SuspendedStack
  <2> QED
    BY <1>1, <1>2, <2>1, StackPreserves DEF InSlot
<1>3. ASSUME NEW pkt \in Packet, Send(pkt, Tail(stack)) PROVE IInv'
  <2>1. Send(pkt, <<>>)
    BY <1>1, <1>3
  <2> QED
    BY <1>1, <2>1, SendPreserves
<1> QED
  BY <1>2, <1>3 DEF SlotEnds

-----------------------------------------------------------------------------
(***************************************************************************)
(* One step per action.                                                    *)
(***************************************************************************)
\* connectTo(), also from a slot of disconnected().
LEMMA ConnectPreserves == ASSUME IInv, ClientConnect PROVE IInv'
<1>1. SuspendedStack(stack) /\ readQueue = <<>>
  BY CallersStack DEF ClientConnect
<1>2. CASE CloseThen(stack)
  BY <1>1, <1>2, ClosePreserves
<1>3. CASE /\ s' = "Connecting"
           /\ writeEnabled' = TRUE
           /\ stack' = stack
           /\ UNCHANGED <<readQueue, writeQueue, outbound, inbound>>
  <2>1. TypeOK'
    BY <1>3 DEF IInv, TypeOK, SocketTypeOK, State
  <2> QED
    BY <1>1, <1>3, <2>1, StackPreserves
<1> QED
  BY <1>2, <1>3 DEF ClientConnect, ConnectTo

\* readNotify() finds the queue empty, and announces its packet.
LEMMA ReadPreserves == ASSUME IInv, ReadPacket PROVE IInv'
<1>1. /\ stack = <<>>
      /\ readQueue = <<>>
      /\ inbound \in Seq(Packet) /\ inbound # <<>>
  BY DEF ReadPacket, Idle, IInv, OnePacketPerSignal, Running, TypeOK, SocketTypeOK
<1>2. Head(inbound) \in Packet /\ Tail(inbound) \in Seq(Packet)
  BY <1>1, HeadTailProperties
<1>3. readQueue' \in Seq(Packet) /\ Len(readQueue') = 1
  BY <1>1, <1>2, AppendProperties, EmptySeq DEF ReadPacket
<1>4. stack' = <<Frame("readyRead", <<>>)>>
  BY <1>3 DEF ReadPacket, ReadyRead
<1>5. /\ stack' \in Seq(Frames)
      /\ Len(stack') = 1
      /\ Head(stack').at = "readyRead"
  BY <1>4, SingleFrame, EmptySeq
<1>6. TypeOK'
  BY <1>2, <1>3, <1>5 DEF ReadPacket, IInv, TypeOK, SocketTypeOK
<1> QED
  BY <1>3, <1>5, <1>6 DEF IInv, OneFrame, SlotsOnOpenSocket, InSlot, SendHasPacket,
          OnePacketPerSignal, Running, SuspendedFrames

\* The rest of send() and writeNotify(), and the client's slots.
LEMMA ContinuePreserves == ASSUME IInv, Continue PROVE IInv'
<1>1. stack # <<>>
  BY DEF Continue, SendRest, WriteRest, ClientConnected, ClientReadyRead, ClientReceived, Running
<1>2. Head(stack) \in Frames /\ Tail(stack) = <<>> /\ SuspendedStack(<<>>)
  BY <1>1, BelowTheHead, EmptySeq DEF IInv, SuspendedStack
<1>3. CASE SendRest
  <2>1. Head(Head(stack).arg) \in Packet
    BY <1>2, <1>3, HeadTailProperties DEF SendRest, IInv, SendHasPacket, Frames
  <2>2. readQueue = <<>>
    BY <1>3 DEF SendRest, Running, IInv, OnePacketPerSignal
  <2> QED
    BY <1>2, <1>3, <2>1, <2>2, EnqueuePreserves DEF SendRest
<1>4. CASE WriteRest
  <2>1. Abort \in Seq(Frames) /\ Head(Abort).at = "abort"
    BY SingleFrame, EmptySeq DEF Abort
  <2>2. TypeOK'
    BY <1>2, <1>4, <2>1 DEF WriteRest, SetWriteEnabled, IInv, TypeOK, SocketTypeOK,
                            SuspendedStack
  <2>3. readQueue' = <<>>
    BY <1>4 DEF WriteRest, Running, IInv, OnePacketPerSignal
  <2>4. stack' = <<>> \/ stack' = Abort
    BY <1>2, <1>4 DEF WriteRest, SetWriteEnabled
  <2> QED
    BY <1>2, <2>1, <2>2, <2>3, <2>4, StackPreserves DEF InSlot, SuspendedFrames
<1>5. CASE ClientConnected \/ ClientReceived
  <2>1. readQueue = <<>>
    BY <1>5 DEF ClientConnected, ClientReceived, Running, IInv, OnePacketPerSignal
  <2> QED
    BY <1>1, <1>5, <2>1, SlotEndPreserves DEF ClientConnected, ClientReceived
<1>6. CASE ClientReadyRead
  <2>1. readQueue \in Seq(Packet) /\ Len(readQueue) = 1 /\ readQueue # <<>>
    BY <1>6 DEF ClientReadyRead, IInv, OnePacketPerSignal, TypeOK, SocketTypeOK
  <2>2. /\ Tail(readQueue) \in Seq(Packet) /\ Len(Tail(readQueue)) = 0
        /\ <<Head(readQueue)>> \in Seq(Packet)
    BY <2>1, HeadTailProperties
  <2>3. readQueue' = <<>>
    BY <1>6, <2>2, EmptySeq DEF ClientReadyRead, Receive
  <2>4. /\ stack' \in Seq(Frames) /\ Len(stack') = 1
        /\ Head(stack').at = "received"
    <3> DEFINE frame == <<Frame("received", <<Head(readQueue)>>)>>
    <3>1. frame \in Seq(Frames) /\ Len(frame) = 1 /\ Head(frame).at = "received"
      BY <2>2, SingleFrame
    <3>2. stack' = frame \o <<>>
      BY <1>2, <1>6 DEF ClientReadyRead
    <3> HIDE DEF frame
    <3> QED
      BY <3>1, <3>2, ConcatEmptySeq
  <2>5. TypeOK'
    BY <1>6, <2>3, <2>4, EmptySeq DEF ClientReadyRead, IInv, TypeOK, SocketTypeOK
  <2> QED
    BY <2>3, <2>4, <2>5 DEF IInv, OneFrame, SlotsOnOpenSocket, InSlot, SendHasPacket,
          OnePacketPerSignal, Running, SuspendedFrames
<1> QED
  BY <1>3, <1>4, <1>5, <1>6 DEF Continue

\* writeNotify(), in its five outcomes.
LEMMA WriteNotifyPreserves == ASSUME IInv, WriteNotify PROVE IInv'
<1>1. stack = <<>> /\ readQueue = <<>> /\ SuspendedStack(<<>>)
  BY EmptySeq DEF WriteNotify, ConnectSucceeds, ConnectFails, WriteHead, WriteNothing, WriteFails,
         Writable, Idle, IInv, OnePacketPerSignal, Running, SuspendedStack
<1>2. CASE ConnectSucceeds
  <2>1. /\ stack' \in Seq(Frames)
        /\ Len(stack') = 1
        /\ Head(stack').at = "connected"
    BY <1>2, SingleFrame, EmptySeq DEF ConnectSucceeds
  <2>2. TypeOK'
    BY <1>2, <2>1 DEF ConnectSucceeds, IInv, TypeOK, SocketTypeOK, State
  <2> QED
    BY <1>1, <1>2, <2>1, <2>2 DEF ConnectSucceeds, IInv, OneFrame, SlotsOnOpenSocket, InSlot,
          SendHasPacket, OnePacketPerSignal, Running, SuspendedFrames
<1>3. CASE ConnectFails
  BY <1>1, <1>3, ClosePreserves DEF ConnectFails, Close
<1>4. CASE WriteHead
  <2>1. Head(writeQueue) \in Packet /\ Tail(writeQueue) \in Seq(Packet)
    BY <1>4, HeadTailProperties DEF WriteHead, IInv, TypeOK, SocketTypeOK
  <2>2. Append(outbound, Head(writeQueue)) \in Seq(Packet)
    BY <2>1, AppendProperties DEF IInv, TypeOK, SocketTypeOK
  <2>3. TypeOK'
    BY <1>4, <2>1, <2>2 DEF WriteHead, IInv, TypeOK, SocketTypeOK
  <2> QED
    BY <1>1, <1>4, <2>3, StackPreserves DEF WriteHead, InSlot
<1>5. CASE WriteNothing
  <2>1. TypeOK' /\ stack' = <<>> /\ readQueue' = <<>>
    BY <1>1, <1>5 DEF WriteNothing, Writable, SetWriteEnabled, IInv, TypeOK, SocketTypeOK
  <2> QED
    BY <1>1, <2>1, StackPreserves DEF InSlot
<1>6. CASE WriteFails
  BY <1>6, SuspendedFrame, EmptySeq, ClosePreserves DEF WriteFails, Close, SuspendedFrames
<1> QED
  BY <1>2, <1>3, <1>4, <1>5, <1>6 DEF WriteNotify

\* One case per disjunct of Next.
LEMMA StepPreserves == ASSUME IInv, [Next]_socketVars PROVE IInv'
<1>1. CASE ClientConnect
  BY <1>1, ConnectPreserves
<1>2. ASSUME NEW pkt \in Packet, ClientSend(pkt) PROVE IInv'
  <2>1. SuspendedStack(stack) /\ readQueue = <<>>
    BY <1>2, CallersStack DEF ClientSend
  <2>2. CanTransmit => stack = <<>>
    BY <1>2 DEF ClientSend, CanTransmit, IInv, SlotsOnOpenSocket, Idle
  <2> QED
    BY <1>2, <2>1, <2>2, SendPreserves DEF ClientSend
<1>3. ASSUME NEW pkt \in Packet, PeerSend(pkt) PROVE IInv'
  <2>1. Append(inbound, pkt) \in Seq(Packet)
    BY AppendProperties DEF IInv, TypeOK, SocketTypeOK
  <2>2. TypeOK'
    BY <1>3, <2>1 DEF PeerSend, IInv, TypeOK, SocketTypeOK
  <2> QED
    BY <1>3, <2>2 DEF PeerSend, IInv, OneFrame, SlotsOnOpenSocket, InSlot, SendHasPacket,
          OnePacketPerSignal, Running
<1>4. CASE ClientClose
  BY <1>4, CallersStack, ClosePreserves DEF ClientClose, Close
<1>5. CASE Continue
  BY <1>5, ContinuePreserves
<1>6. CASE ReadPacket
  BY <1>6, ReadPreserves
<1>7. CASE ReadFails
  BY <1>7, ClosePreserves, EmptySeq DEF ReadFails, Close, SuspendedStack
<1>8. CASE WriteNotify
  BY <1>8, WriteNotifyPreserves
<1>9. CASE UNCHANGED socketVars
  <2>1. TypeOK'
    BY <1>9 DEF socketVars, IInv, TypeOK, SocketTypeOK
  <2> QED
    BY <1>9, <2>1 DEF socketVars, IInv, OneFrame, SlotsOnOpenSocket, InSlot,
          SendHasPacket, OnePacketPerSignal, Running
<1> QED
  BY <1>1, <1>2, <1>3, <1>4, <1>5, <1>6, <1>7, <1>8, <1>9 DEF Next

\* The inductive invariant holds in every reachable state.
LEMMA InvariantHolds == Spec => []IInv
<1>1. SocketInit => IInv
  <2> SUFFICES ASSUME SocketInit PROVE IInv
    OBVIOUS
  <2>1. TypeOK
    BY EmptySeq DEF SocketInit, TypeOK, SocketTypeOK, State
  <2> QED
    BY <2>1 DEF SocketInit, IInv, OneFrame, SlotsOnOpenSocket, InSlot, SendHasPacket,
              OnePacketPerSignal, Running
<1>2. IInv /\ [Next]_socketVars => IInv'
  BY StepPreserves
<1> QED
  BY <1>1, <1>2, PTL DEF Spec

(***************************************************************************)
(* The state of the socket and of the calls in progress is well typed.     *)
(***************************************************************************)
THEOREM TypeCorrect == Spec => []TypeOK
<1>1. IInv => TypeOK
  BY DEF IInv
<1> QED
  BY <1>1, InvariantHolds, PTL

(***************************************************************************)
(* No packet is left unannounced in readQueue when the event loop is in    *)
(* control: readNotify() may emit readyRead() only for the first packet.   *)
(***************************************************************************)
THEOREM NoPacketLeftBehind == Spec => []ReadQueueDrained
<1>1. IInv => ReadQueueDrained
  BY DEF IInv, OnePacketPerSignal, Running, ReadQueueDrained, Idle
<1> QED
  BY <1>1, InvariantHolds, PTL

-----------------------------------------------------------------------------
(***************************************************************************)
(* The sending side implements TxChannel: what both queues hold, in order, *)
(* is what the callers handed over on this link.                           *)
(***************************************************************************)
Accepted == outbound \o writeQueue

\* Queueing a packet behind all others appends it to what was accepted.
LEMMA QueueIsAccept ==
    ASSUME NEW p \in Packet, NEW o \in Seq(Packet), NEW q \in Seq(Packet)
    PROVE  o \o Append(q, p) = Append(o \o q, p)
<1>1. <<p>> \in Seq(Packet) /\ o \o q \in Seq(Packet)
  BY ConcatProperties
<1>2. Append(q, p) = q \o <<p>> /\ Append(o \o q, p) = (o \o q) \o <<p>>
  BY <1>1, AppendIsConcat
<1> QED
  BY <1>1, <1>2, ConcatAssociative

\* Moving the head of the queue to the kernel accepts nothing and loses nothing.
LEMMA WriteIsDeliver ==
    ASSUME NEW o \in Seq(Packet), NEW q \in Seq(Packet), q # <<>>
    PROVE  Append(o, Head(q)) \o Tail(q) = o \o q
<1>1. Head(q) \in Packet /\ Tail(q) \in Seq(Packet)
  BY HeadTailProperties
<1>2. <<Head(q)>> \in Seq(Packet) /\ Append(o, Head(q)) = o \o <<Head(q)>>
  BY <1>1, AppendIsConcat
<1>3. <<Head(q)>> \o Tail(q) = q
  <2>1. /\ <<Head(q)>> \o Tail(q) \in Seq(Packet)
        /\ Len(<<Head(q)>> \o Tail(q)) = Len(q)
    BY <1>1, <1>2, HeadTailProperties, ConcatProperties
  <2>2. ASSUME NEW i \in 1..Len(q) PROVE (<<Head(q)>> \o Tail(q))[i] = q[i]
    BY <1>1, <1>2, HeadTailProperties, ConcatProperties
  <2> QED
    BY <2>1, <2>2, SeqEqual
<1> QED
  BY <1>1, <1>2, <1>3, ConcatAssociative

\* Queueing a packet, with or without closing the socket under it, is Accept.
LEMMA EnqueueAccepts ==
    ASSUME TypeOK, NEW pkt \in Packet, NEW k, Enqueue(pkt, k)
    PROVE  Channel!Next
<1>1. Accepted' = Append(Accepted, pkt) /\ UNCHANGED Len(outbound)
  BY QueueIsAccept DEF Accepted, Enqueue, TypeOK, SocketTypeOK
<1> QED
  BY <1>1 DEF Accepted, Channel!Next, Channel!Accept

\* Closing the socket, for whatever reason, is Drop.
LEMMA CloseDrops ==
    ASSUME NEW k, CloseThen(k)
    PROVE  Channel!Next
<1>1. Accepted' = <<>> /\ Len(outbound') = 0
  BY EmptySeq, ConcatEmptySeq DEF CloseThen, Accepted
<1> QED
  BY <1>1 DEF Accepted, Channel!Next, Channel!Drop

\* Each way out of send() is a step of the channel.
LEMMA SendRefines ==
    ASSUME TypeOK, NEW pkt \in Packet, NEW k, Send(pkt, k)
    PROVE  Channel!Next
<1>1. CASE CanTransmit /\ outbound' = Append(outbound, pkt) /\ UNCHANGED writeQueue
  <2>1. /\ outbound \in Seq(Packet) /\ outbound' \in Seq(Packet)
        /\ Len(outbound') = Len(outbound) + 1
    BY <1>1, AppendProperties DEF TypeOK, SocketTypeOK
  <2>2. Accepted = outbound /\ Accepted' = outbound'
    BY <1>1, <2>1, ConcatEmptySeq DEF Accepted, CanTransmit
  <2>3. Channel!AcceptAndDeliver(pkt)
    BY <1>1, <2>1, <2>2 DEF Channel!AcceptAndDeliver, Accepted
  <2> QED
    BY <2>3 DEF Channel!Next
<1>2. CASE Close(<<Frame("send", <<pkt>>)>> \o k)
  BY <1>2, CloseDrops DEF Close
<1>3. CASE Enqueue(pkt, k)
  BY <1>3, EnqueueAccepts
<1> QED
  BY <1>1, <1>2, <1>3 DEF Send

\* Each outcome of writeNotify() is a step of the channel or a stutter.
LEMMA WriteNotifyRefines ==
    ASSUME TypeOK, WriteNotify
    PROVE  [Channel!Next]_Channel!vars
<1>1. CASE ConnectSucceeds \/ WriteNothing
  BY <1>1 DEF ConnectSucceeds, WriteNothing, Channel!vars
<1>2. CASE ConnectFails \/ WriteFails
  BY <1>2, CloseDrops DEF ConnectFails, WriteFails, Close
<1>3. CASE WriteHead
  <2>1. writeQueue \in Seq(Packet) /\ writeQueue # <<>> /\ outbound \in Seq(Packet)
    BY <1>3 DEF WriteHead, TypeOK, SocketTypeOK
  <2>2. Accepted' = Accepted
    BY <1>3, <2>1, WriteIsDeliver DEF WriteHead, Accepted
  <2>3. Len(outbound') = Len(outbound) + 1
    BY <1>3, <2>1, HeadTailProperties, AppendProperties DEF WriteHead
  <2>4. Len(outbound) < Len(Accepted)
    <3>1. Len(writeQueue) \in Nat /\ Len(writeQueue) # 0 /\ Len(outbound) \in Nat
      BY <2>1, EmptySeq, LenProperties
    <3>2. Len(Accepted) = Len(outbound) + Len(writeQueue)
      BY <2>1, ConcatProperties DEF Accepted
    <3> QED
      BY <3>1, <3>2
  <2> QED
    BY <2>2, <2>3, <2>4 DEF Accepted, Channel!Next, Channel!Deliver
<1> QED
  BY <1>1, <1>2, <1>3 DEF WriteNotify

\* Every step of the client, the peer and the kernel is a step of the channel
\* or a stutter.
LEMMA StepRefines ==
    ASSUME IInv, [Next]_socketVars
    PROVE  [Channel!Next]_Channel!vars
<1>1. TypeOK
  BY DEF IInv
<1>2. CASE ClientConnect
  BY <1>2, CloseDrops DEF ClientConnect, ConnectTo, Channel!vars
<1>3. ASSUME NEW pkt \in Packet, ClientSend(pkt) PROVE Channel!Next
  BY <1>1, <1>3, SendRefines DEF ClientSend
<1>4. ASSUME NEW pkt \in Packet, PeerSend(pkt) PROVE UNCHANGED Channel!vars
  BY <1>4 DEF PeerSend, Channel!vars
<1>5. CASE ClientClose \/ ReadFails
  BY <1>5, CloseDrops DEF ClientClose, ReadFails, Close
<1>6. CASE SendRest
  <2>1. Head(Head(stack).arg) \in Packet
    BY <1>6, BelowTheHead, HeadTailProperties
       DEF SendRest, Running, IInv, SendHasPacket, Frames
  <2> QED
    BY <1>1, <1>6, <2>1, EnqueueAccepts DEF SendRest
<1>7. CASE WriteRest \/ ClientReadyRead \/ ReadPacket
  BY <1>7 DEF WriteRest, ClientReadyRead, ReadPacket, Channel!vars
<1>10. CASE ClientConnected \/ ClientReceived
  <2>1. CASE UNCHANGED <<outbound, writeQueue>>
    BY <2>1 DEF Channel!vars
  <2>2. ASSUME NEW pkt \in Packet, Send(pkt, Tail(stack)) PROVE Channel!Next
    BY <1>1, <2>2, SendRefines
  <2> QED
    BY <1>10, <2>1, <2>2 DEF ClientConnected, ClientReceived, SlotEnds
<1>8. CASE WriteNotify
  BY <1>1, <1>8, WriteNotifyRefines
<1>9. CASE UNCHANGED socketVars
  BY <1>9 DEF socketVars, Channel!vars
<1> QED
  BY <1>2, <1>3, <1>4, <1>5, <1>6, <1>7, <1>8, <1>9, <1>10 DEF Next, Continue

(***************************************************************************)
(* send() and writeNotify() are a FIFO channel, for any packets and any    *)
(* interleaving with close(), connectTo(), failures and the slots of       *)
(* disconnected(): no packet overtakes, is duplicated or is skipped.       *)
(***************************************************************************)
THEOREM SocketIsFifo == Spec => FifoChannel
<1>1. SocketInit => Channel!Init
  <2> SUFFICES ASSUME SocketInit PROVE Channel!Init
    OBVIOUS
  <2>1. outbound \o writeQueue = <<>> /\ Len(outbound) = 0
    BY EmptySeq, ConcatEmptySeq DEF SocketInit
  <2> QED
    BY <2>1 DEF Channel!Init
<1>2. IInv /\ [Next]_socketVars => [Channel!Next]_Channel!vars
  BY StepRefines
<1> QED
  BY <1>1, <1>2, InvariantHolds, PTL DEF Spec, FifoChannel, Channel!Spec

-----------------------------------------------------------------------------
(***************************************************************************)
(* Why no packet waits for ever when no slot reconnects from inside        *)
(* writeNotify(): its rest, the only one that disables the notifier, then  *)
(* runs on a socket that has stayed closed and cannot hurt the next link.  *)
(***************************************************************************)
Awake ==
    /\ Running("write") => s = "Disconnected"
    /\ s = "Connecting" \/ (s = "Connected" /\ writeQueue # <<>>) => writeEnabled

\* Queueing a packet never puts a socket with work to do to sleep.
LEMMA EnqueueKeepsAwake ==
    ASSUME IInv, Awake, NEW pkt \in Packet, NEW k, Enqueue(pkt, k),
           k = <<>> \/ k = stack
    PROVE  Awake'
<1>1. Head(Abort).at = "abort"
  BY SingleFrame, EmptySeq DEF Abort
<1> QED
  BY <1>1 DEF Awake, Enqueue, SetWriteEnabled, Running

\* Neither does send().
LEMMA SendKeepsAwake ==
    ASSUME IInv, Awake, NEW pkt \in Packet, NEW k, Send(pkt, k), k = <<>> \/ k = stack
    PROVE  Awake'
<1>1. CASE CanTransmit /\ UNCHANGED <<s, writeEnabled, writeQueue>> /\ stack' = k
  BY <1>1 DEF Awake, Running
<1>2. CASE Close(<<Frame("send", <<pkt>>)>> \o k)
  BY <1>2 DEF Close, CloseThen, Awake
<1>3. CASE Enqueue(pkt, k)
  BY <1>3, EnqueueKeepsAwake
<1> QED
  BY <1>1, <1>2, <1>3 DEF Send

\* One step, when no slot reconnects from inside writeNotify().
LEMMA StepKeepsAwake ==
    ASSUME "write" \notin ReconnectsUnder, IInv, Awake, [Next]_socketVars
    PROVE  Awake'
<1>a. Head(Abort).at = "abort"
  BY SingleFrame, EmptySeq DEF Abort
<1>b. ASSUME stack # <<>> PROVE Tail(stack) = <<>>
  BY <1>b, BelowTheHead DEF IInv
<1>1. CASE ClientConnect
  BY <1>1 DEF ClientConnect, ConnectTo, CloseThen, Awake, Running, Idle
<1>2. ASSUME NEW pkt \in Packet, ClientSend(pkt) PROVE Awake'
  BY <1>2, SendKeepsAwake DEF ClientSend
<1>3. ASSUME NEW pkt \in Packet, PeerSend(pkt) PROVE Awake'
  BY <1>3 DEF PeerSend, Awake, Running
<1>4. CASE ClientClose \/ ReadFails \/ ConnectFails \/ WriteFails
  BY <1>4 DEF ClientClose, ReadFails, ConnectFails, WriteFails, Close, CloseThen, Awake
<1>5. CASE SendRest
  <2>1. Head(Head(stack).arg) \in Packet
    BY <1>5, BelowTheHead, HeadTailProperties
       DEF SendRest, Running, IInv, SendHasPacket, Frames
  <2> QED
    BY <1>5, <1>b, <2>1, EnqueueKeepsAwake DEF SendRest, Running
<1>6. CASE WriteRest
  <2>1. s = "Disconnected" /\ stack' \in {<<>>, Abort}
    BY <1>6, <1>b DEF WriteRest, SetWriteEnabled, Running, Awake
  <2> QED
    BY <1>6, <1>a, <2>1 DEF WriteRest, Awake, Running
<1>7. CASE ClientReadyRead
  <2>1. Tail(stack) = <<>> /\ stack \in Seq(Frames) /\ readQueue \in Seq(Packet)
    BY <1>7, <1>b DEF ClientReadyRead, Running, IInv, TypeOK, SocketTypeOK
  <2>2. <<Head(readQueue)>> \in Seq(Packet)
    BY <1>7, <2>1, HeadTailProperties DEF ClientReadyRead
  <2>3. Head(stack').at = "received"
    <3> DEFINE frame == <<Frame("received", <<Head(readQueue)>>)>>
    <3>1. frame \in Seq(Frames) /\ Head(frame).at = "received"
      BY <2>2, SingleFrame
    <3>2. stack' = frame \o <<>>
      BY <1>7, <2>1 DEF ClientReadyRead
    <3> HIDE DEF frame
    <3> QED
      BY <3>1, <3>2, ConcatEmptySeq
  <2> QED
    BY <1>7, <2>3 DEF ClientReadyRead, Running, Awake
<1>13. CASE ClientConnected \/ ClientReceived
  <2>1. Tail(stack) = <<>>
    BY <1>13, <1>b DEF ClientConnected, ClientReceived, Running
  <2>2. ASSUME NEW pkt \in Packet, Send(pkt, Tail(stack)) PROVE Awake'
    BY <2>1, <2>2, SendKeepsAwake
  <2>3. CASE stack' = Tail(stack) /\ UNCHANGED <<s, writeEnabled, writeQueue>>
    BY <2>1, <2>3 DEF Awake, Running
  <2> QED
    BY <1>13, <2>2, <2>3 DEF ClientConnected, ClientReceived, SlotEnds
<1>8. CASE ReadPacket
  <2>1. stack' = <<>> \/ stack' = <<Frame("readyRead", <<>>)>>
    BY <1>8 DEF ReadPacket, ReadyRead
  <2>2. Head(<<Frame("readyRead", <<>>)>>).at = "readyRead"
    BY SingleFrame, EmptySeq
  <2>3. ~ Running("write")'
    BY <2>1, <2>2 DEF Running
  <2> QED
    BY <1>8, <2>3 DEF ReadPacket, Awake
<1>9. CASE ConnectSucceeds
  <2>1. ~ Running("write")'
    BY <1>9, SingleFrame, EmptySeq DEF ConnectSucceeds, Running
  <2> QED
    BY <1>9, <2>1 DEF ConnectSucceeds, Writable, Awake
<1>10. CASE WriteHead
  BY <1>10 DEF WriteHead, Writable, Idle, Awake, Running
<1>11. CASE WriteNothing
  BY <1>11 DEF WriteNothing, Writable, SetWriteEnabled, Idle, Awake, Running
<1>12. CASE UNCHANGED socketVars
  BY <1>12 DEF socketVars, Awake, Running
<1> QED
  BY <1>1, <1>2, <1>3, <1>4, <1>5, <1>6, <1>7, <1>8, <1>9, <1>10, <1>11, <1>12, <1>13
     DEF Next, Continue, WriteNotify

(***************************************************************************)
(* A socket that is connecting, or has packets queued on an open link,     *)
(* always has its write notifier enabled once the event loop is in         *)
(* control, whatever fails, as long as no slot of disconnected() calls     *)
(* connectTo() from inside writeNotify().                                  *)
(***************************************************************************)
THEOREM WriterStaysAwake ==
    "write" \notin ReconnectsUnder => (Spec => []WriterAwake)
<1> SUFFICES ASSUME "write" \notin ReconnectsUnder PROVE Spec => []WriterAwake
  OBVIOUS
<1>1. SocketInit => Awake
  BY DEF SocketInit, Awake, Running
<1>2. IInv /\ Awake /\ [Next]_socketVars => Awake'
  BY StepKeepsAwake
<1>3. Awake => WriterAwake
  BY DEF Awake, WriterAwake
<1> QED
  BY <1>1, <1>2, <1>3, InvariantHolds, PTL DEF Spec
=============================================================================
