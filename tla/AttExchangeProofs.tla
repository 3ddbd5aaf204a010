------------------------- MODULE AttExchangeProofs -------------------------
(***************************************************************************)
(* The exchanges of GatoAttClient: requests and their answers, indications *)
(* and their confirmations, for every set of opcodes, every server, every  *)
(* fault and every bound.                                                  *)
(***************************************************************************)
EXTENDS GatoAttClientProofs

-----------------------------------------------------------------------------
(***************************************************************************)
(* Requests: there is one of the client's own PDUs at most, which belongs  *)
(* to the head.  This needs that nobody cancels the head, and that a       *)
(* peer's request is not taken for a response.                             *)
(***************************************************************************)
\* The PDUs of a request.
Of(q) == IF q = <<>> THEN {} ELSE {p \in Own : p.id = Head(q).id /\ p.op = Head(q).op}

\* The client's own PDUs that are not of the head.
Strays == Own \ Of(pending_requests)

OwnOnce ==
    /\ Once(Own)
    /\ ~ Somewhere(Strays)

OneOwnHolds == ~ CancelsHead /\ NoMistake

HeadSent == s # "Disconnected" /\ pending_requests # <<>> => Somewhere(Own)

ConfirmationOnItsWay == owed => s # "Disconnected" /\ Somewhere(Exchange)

\* While writes succeed: what a slot interrupts is writeNotify() at most.
ExchangeOnce ==
    /\ Once(Exchange)
    /\ owed <=> Somewhere(Exchange)
    /\ owed => s # "Disconnected"
    /\ ~ Running("send")

-----------------------------------------------------------------------------
(***************************************************************************)
(* What the handlers do to where PDUs are.                                 *)
(***************************************************************************)
\* A packet is sent with the frames k on the stack.
Adds(pkt, S, k) ==
    /\ Somewhere(S)' => SomewhereWith(S, k) \/ pkt \in S
    /\ pkt \in S => Somewhere(S)'
    /\ OnceWith(S, k) /\ ~ (pkt \in S /\ SomewhereWith(S, k)) => Once(S)'
    /\ Keeps(S, k)

LEMMA CommandMoves ==
    ASSUME SocketTyped, AppCommand, NEW S \in SUBSET Pdu, Unsolicited("command") \notin S
    PROVE  Moves(S)
<1>1. PICK pkt : pkt = Unsolicited("command")
  OBVIOUS
<1>2. Callbacks(stack) /\ pkt \in OutPdu /\ Send(pkt, stack) /\ pkt \notin S
  BY <1>1, CommandTyped
<1>3. QED
  BY <1>2, SendMoves DEF Moves, Shrinks

\* An indication leaves and its confirmation enters.
LEMMA ConfirmationMoves ==
    ASSUME SocketTyped, HandleIndication, NEW S \in SUBSET Pdu,
           Unsolicited("confirmation") \in S <=> Received \in S
    PROVE  Moves(S)
<1>1. PICK pkt : pkt = Unsolicited("confirmation")
  OBVIOUS
<1>2. /\ Callbacks(Tail(stack)) /\ pkt \in OutPdu /\ Send(pkt, Tail(stack))
      /\ stack # <<>> /\ Received = Load(Head(stack))
      /\ pkt \in S <=> Received \in S
  BY <1>1, ConfirmationTyped
<1>3. Adds(pkt, S, Tail(stack))
  BY <1>2, SendMoves DEF Adds
<1>4. /\ Somewhere(S) <=> Received \in S \/ SomewhereWith(S, Tail(stack))
      /\ Once(S) <=> /\ OnceWith(S, Tail(stack))
                     /\ ~ (Received \in S /\ SomewhereWith(S, Tail(stack)))
  BY <1>2, PopStack
<1>5. SomewhereWith(S, stack) = Somewhere(S) /\ OnceWith(S, stack) = Once(S)
  BY DEF Somewhere, Once
<1>6. QED
  BY <1>2, <1>3, <1>4, <1>5 DEF Adds, Moves, Shrinks, Keeps

\* The steps that change no request and lose no PDU on a live link.
Plain ==
    \/ AppConnect \/ AppClose \/ AppCommand
    \/ SocketStep(SendRest) \/ SocketStep(WriteRest)
    \/ SocketStep(ReadPacket) \/ SocketStep(ReadFails) \/ SocketStep(WriteNotify)
    \/ ReceivePdu \/ HandleResponse

\* The end of a link, and nothing else, ends what the server is owed on it.
OwedToTheLink ==
    /\ owed' => owed
    /\ owed' /\ s' = "Disconnected" => s = "Disconnected"
    /\ owed /\ s' # "Disconnected" => owed'

LEMMA PlainMoves ==
    ASSUME Typed, Plain, NEW S \in SUBSET Pdu, Unsolicited("command") \notin S
    PROVE  /\ Moves(S)
           /\ UNCHANGED <<pending_requests, next_id>>
           /\ OwedToTheLink
           /\ s' # "Disconnected" => s # "Disconnected" \/ AppConnect
<1>1. /\ UNCHANGED <<pending_requests, next_id>>
      /\ ServerLink \/ (owed' = owed /\ s' = s)
  BY DEF Plain, AppConnect, AppClose, AppCommand, SocketStep, ReceivePdu, HandleResponse, attVars,
         SocketUnchangedBut
<1>2. SocketTyped
  BY DEF Typed
<1>3. OwedToTheLink
  <2>1. CASE ServerLink
    BY <2>1 DEF ServerLink, OwedToTheLink
  <2>2. CASE owed' = owed /\ s' = s
    BY <2>2 DEF OwedToTheLink
  <2>3. QED
    BY <1>1, <2>1, <2>2
<1>4. CASE AppConnect
  BY <1>1, <1>3, <1>4, ConnectMoves DEF AppConnect, Moves
<1>5. CASE AppClose
  <2>1. CloseThen(stack) /\ s' = "Disconnected"
    BY <1>2, <1>5, CloseCallTyped
  <2>2. QED
    BY <1>1, <1>3, <2>1, CloseMoves DEF Moves
<1>6. CASE AppCommand
  BY <1>1, <1>2, <1>3, <1>6, CommandMoves DEF AppCommand
<1>7. CASE SocketStep(SendRest)
  BY <1>1, <1>2, <1>3, <1>7, SendRestMoves, SendRestTyped DEF SocketStep
<1>8. CASE SocketStep(WriteRest)
  <2>1. Moves(S)
    BY <1>2, <1>8, WriteRestTyped, PopMoves, NoPduNowhere DEF SocketStep
  <2>2. QED
    BY <1>1, <1>2, <1>3, <1>8, <2>1, WriteRestTyped DEF SocketStep
<1>9. CASE SocketStep(ReadPacket)
  BY <1>1, <1>2, <1>3, <1>9, ReadPacketMoves, ReadPacketTyped DEF SocketStep
<1>10. CASE SocketStep(ReadFails)
  BY <1>1, <1>2, <1>3, <1>10, ReadFailsMoves, ReadFailsTyped DEF SocketStep
<1>11. CASE SocketStep(WriteNotify)
  BY <1>1, <1>2, <1>3, <1>11, WriteNotifyMoves, WriteNotifyTyped DEF SocketStep
<1>12. CASE ReceivePdu
  BY <1>1, <1>2, <1>3, <1>12, ReceiveMoves, ReceiveTyped
<1>13. CASE HandleResponse
  BY <1>1, <1>2, <1>3, <1>13, ResponseMoves, ResponseTyped
<1>14. QED
  BY <1>4, <1>5, <1>6, <1>7, <1>8, <1>9, <1>10, <1>11, <1>12, <1>13 DEF Plain

LEMMA DoRequestMoves ==
    ASSUME Typed, NEW op \in Opcode, NEW k, Callbacks(k), DoRequest(op, k), NEW S \in SUBSET Pdu
    PROVE  /\ pending_requests = <<>> => Adds(RequestPdu(NewRequest(op)), S, k)
           /\ pending_requests # <<>> => Shrinks(S, k)
           /\ Keeps(S, k)
<1>1. PICK pkt : pkt = RequestPdu(NewRequest(op))
  OBVIOUS
<1>2. /\ IF pending_requests = <<>> THEN Send(pkt, k) ELSE SocketUnchangedBut(k)
      /\ NewRequest(op) \in Request
  BY <1>1, DoRequestTyped
<1>3. pkt \in OutPdu
  BY <1>1, <1>2, OutPdus
<1>4. CASE pending_requests = <<>>
  <2>1. Adds(pkt, S, k)
    BY <1>2, <1>3, <1>4, SendMoves DEF Adds, Typed
  <2>2. QED
    BY <1>1, <1>4, <2>1 DEF Adds
<1>5. CASE pending_requests # <<>>
  <2>1. stack' = k /\ UNCHANGED <<s, readQueue, writeQueue, outbound, inbound>>
    BY <1>2, <1>5 DEF SocketUnchangedBut
  <2>2. QED
    BY <1>5, <2>1 DEF Shrinks, Keeps, Somewhere, Once, SomewhereWith, OnceWith
<1>6. QED
  BY <1>4, <1>5

LEMMA NextRequestMoves ==
    ASSUME Typed, pending_requests # <<>>, NEW k, Callbacks(k), NextRequest(k),
           NEW S \in SUBSET Pdu
    PROVE  /\ pending_requests' # <<>> => Adds(RequestPdu(Head(pending_requests')), S, k)
           /\ pending_requests' = <<>> => Shrinks(S, k)
           /\ Keeps(S, k)
<1>1. PICK pkt : pkt = RequestPdu(Head(pending_requests'))
  OBVIOUS
<1>2. /\ IF pending_requests' = <<>> THEN SocketUnchangedBut(k) ELSE Send(pkt, k)
      /\ pending_requests' # <<>> => Head(pending_requests') \in Request
  BY <1>1, NextRequestTyped
<1>3. CASE pending_requests' # <<>>
  <2>1. pkt \in OutPdu
    BY <1>1, <1>2, <1>3, OutPdus
  <2>2. Adds(pkt, S, k)
    BY <1>2, <1>3, <2>1, SendMoves DEF Adds, Typed
  <2>3. QED
    BY <1>1, <1>3, <2>2 DEF Adds
<1>4. CASE pending_requests' = <<>>
  <2>1. stack' = k /\ UNCHANGED <<s, readQueue, writeQueue, outbound, inbound>>
    BY <1>2, <1>4 DEF SocketUnchangedBut
  <2>2. QED
    BY <1>4, <2>1 DEF Shrinks, Keeps, Somewhere, Once, SomewhereWith, OnceWith
<1>5. QED
  BY <1>3, <1>4

-----------------------------------------------------------------------------
(***************************************************************************)
(* The tokens by which the properties of the model count PDUs, and places. *)
(***************************************************************************)
Marks(place, q, S) ==
    {[place |-> place, at |-> i, id |-> q[i].id] : i \in {j \in DOMAIN q : q[j] \in S}}

AllMarks(S) ==
    UNION {Marks("writeQueue", writeQueue, S), Marks("outbound", outbound, S),
           Marks("inbound", inbound, S), Marks("readQueue", readQueue, S),
           Marks("stack", Cargo(stack), S)}

LEMMA TokensAreMarks ==
    ASSUME NEW q \in Seq(Pdu), NEW place
    PROVE  /\ Tokens(place, q, IsOwn) = Marks(place, q, Own)
           /\ Tokens(place, q, IsExchange) = Marks(place, q, Exchange)
<1>1. \A i \in DOMAIN q : q[i] \in Pdu
  BY LenProperties, ElementOfSeq
<1>2. /\ {j \in DOMAIN q : IsOwn(q[j])} = {j \in DOMAIN q : q[j] \in Own}
      /\ {j \in DOMAIN q : IsExchange(q[j])} = {j \in DOMAIN q : q[j] \in Exchange}
  BY <1>1 DEF IsOwn, Own, IsExchange, Exchange
<1>3. QED
  BY <1>2 DEF Tokens, Marks

LEMMA SuspendedAreMarks ==
    ASSUME SocketTyped
    PROVE  /\ Suspended(IsOwn) = Marks("stack", Cargo(stack), Own)
           /\ Suspended(IsExchange) = Marks("stack", Cargo(stack), Exchange)
<1>1. stack \in Seq(GoodFrame)
  BY DEF SocketTyped, StackOK
<1>2. ASSUME NEW j \in DOMAIN stack
      PROVE  /\ stack[j].arg # <<>> /\ IsOwn(stack[j].arg[1]) <=> Cargo(stack)[j] \in Own
             /\ stack[j].arg # <<>> /\ IsExchange(stack[j].arg[1]) <=> Cargo(stack)[j] \in Exchange
             /\ stack[j].arg # <<>> => stack[j].arg[1] = Cargo(stack)[j]
  <2>1. stack[j] \in GoodFrame
    BY <1>1, LenProperties, ElementOfSeq
  <2>2. Load(stack[j]) \in Pdu \/ stack[j].arg = <<>>
    BY <2>1, Loads
       DEF FrameNames, GoodFrame, BareFrame, OutFrame, InFrame, AnswerFrame, OutPdu, InPdu, AnswerPdu
  <2>3. Cargo(stack)[j] = Load(stack[j])
    BY DEF Cargo
  <2>4. CASE stack[j].arg = <<>>
    BY <2>3, <2>4, NoPduNowhere DEF Load, Own, Exchange
  <2>5. CASE stack[j].arg # <<>>
    BY <2>2, <2>3, <2>5 DEF Load, Own, Exchange, IsOwn, IsExchange
  <2>6. QED
    BY <2>4, <2>5
<1>3. DOMAIN Cargo(stack) = DOMAIN stack
  BY DEF Cargo
<1>4. /\ {j \in DOMAIN stack : stack[j].arg # <<>> /\ IsOwn(stack[j].arg[1])} =
         {j \in DOMAIN Cargo(stack) : Cargo(stack)[j] \in Own}
      /\ {j \in DOMAIN stack : stack[j].arg # <<>> /\ IsExchange(stack[j].arg[1])} =
         {j \in DOMAIN Cargo(stack) : Cargo(stack)[j] \in Exchange}
  BY <1>2, <1>3
<1>5. \A j \in DOMAIN stack : Cargo(stack)[j] \in Own \cup Exchange =>
          stack[j].arg[1] = Cargo(stack)[j]
  BY <1>2
<1>6. Suspended(IsOwn) = Marks("stack", Cargo(stack), Own)
  BY <1>3, <1>4, <1>5 DEF Suspended, Marks
<1>7. Suspended(IsExchange) = Marks("stack", Cargo(stack), Exchange)
  BY <1>3, <1>4, <1>5 DEF Suspended, Marks
<1>8. QED
  BY <1>6, <1>7

LEMMA EverywhereIsMarks ==
    ASSUME SocketTyped
    PROVE  InFlight = AllMarks(Own) /\ Everywhere(IsExchange) = AllMarks(Exchange)
<1>1. /\ writeQueue \in Seq(Pdu) /\ outbound \in Seq(Pdu)
      /\ inbound \in Seq(Pdu) /\ readQueue \in Seq(Pdu)
  BY PlacesHoldPdus
<1>2. InFlight = AllMarks(Own)
  BY <1>1, TokensAreMarks, SuspendedAreMarks DEF InFlight, Everywhere, AllMarks
<1>3. Everywhere(IsExchange) = AllMarks(Exchange)
  BY <1>1, TokensAreMarks, SuspendedAreMarks DEF Everywhere, AllMarks
<1>4. QED
  BY <1>2, <1>3

LEMMA MarksOfPlace ==
    ASSUME NEW q, NEW place, NEW S
    PROVE  /\ Marks(place, q, S) # {} <=> Has(q, S)
           /\ One(q, S) => \A a, b \in Marks(place, q, S) : a = b
           /\ \A a \in Marks(place, q, S) : \E i \in DOMAIN q : q[i] \in S /\ a.id = q[i].id
<1>1. Marks(place, q, S) # {} <=> Has(q, S)
  BY DEF Marks, Has
<1>2. ASSUME One(q, S), NEW a \in Marks(place, q, S), NEW b \in Marks(place, q, S)
      PROVE  a = b
  <2>1. PICK i \in DOMAIN q : q[i] \in S /\ a = [place |-> place, at |-> i, id |-> q[i].id]
    BY DEF Marks
  <2>2. PICK j \in DOMAIN q : q[j] \in S /\ b = [place |-> place, at |-> j, id |-> q[j].id]
    BY DEF Marks
  <2>3. i = j
    BY <1>2, <2>1, <2>2 DEF One
  <2>4. QED
    BY <2>1, <2>2, <2>3
<1>3. ASSUME NEW a \in Marks(place, q, S)
      PROVE  \E i \in DOMAIN q : q[i] \in S /\ a.id = q[i].id
  <2>1. PICK i \in DOMAIN q : q[i] \in S /\ a = [place |-> place, at |-> i, id |-> q[i].id]
    BY DEF Marks
  <2>2. a.id = q[i].id
    BY <2>1
  <2>3. QED
    BY <2>1, <2>2
<1>4. QED
  BY <1>1, <1>2, <1>3

LEMMA MarksOfPlaces ==
    ASSUME NEW S
    PROVE  /\ AllMarks(S) # {} <=> Somewhere(S)
           /\ Once(S) => \A a, b \in AllMarks(S) : a = b
<1>1. /\ Marks("writeQueue", writeQueue, S) # {} <=> Has(writeQueue, S)
      /\ Marks("outbound", outbound, S) # {} <=> Has(outbound, S)
      /\ Marks("inbound", inbound, S) # {} <=> Has(inbound, S)
      /\ Marks("readQueue", readQueue, S) # {} <=> Has(readQueue, S)
      /\ Marks("stack", Cargo(stack), S) # {} <=> Has(Cargo(stack), S)
  BY MarksOfPlace
<1>2. AllMarks(S) # {} <=> Somewhere(S)
  BY <1>1 DEF AllMarks, Somewhere, SomewhereWith
<1>3. ASSUME Once(S) PROVE \A a, b \in AllMarks(S) : a = b
  <2>1. /\ \A a, b \in Marks("writeQueue", writeQueue, S) : a = b
        /\ \A a, b \in Marks("outbound", outbound, S) : a = b
        /\ \A a, b \in Marks("inbound", inbound, S) : a = b
        /\ \A a, b \in Marks("readQueue", readQueue, S) : a = b
        /\ \A a, b \in Marks("stack", Cargo(stack), S) : a = b
    BY <1>3, MarksOfPlace DEF Once, OnceWith
  <2>2. /\ Has(Cargo(stack), S) =>
               ~ (Has(writeQueue, S) \/ Has(outbound, S) \/ Has(inbound, S) \/ Has(readQueue, S))
        /\ Has(writeQueue, S) => ~ (Has(outbound, S) \/ Has(inbound, S) \/ Has(readQueue, S))
        /\ Has(outbound, S) => ~ (Has(inbound, S) \/ Has(readQueue, S))
        /\ Has(inbound, S) => ~ Has(readQueue, S)
    BY <1>3 DEF Once, OnceWith
  <2>3. QED
    BY <1>1, <2>1, <2>2 DEF AllMarks
<1>4. QED
  BY <1>2, <1>3

LEMMA MarkIsOf ==
    ASSUME NEW S, NEW a \in AllMarks(S)
    PROVE  \E p \in S : a.id = p.id /\ \A T : p \in T => Somewhere(T)
<1>1. PICK q \in {writeQueue, outbound, inbound, readQueue, Cargo(stack)} :
          \E i \in DOMAIN q : q[i] \in S /\ a.id = q[i].id
  BY MarksOfPlace DEF AllMarks
<1>2. PICK i \in DOMAIN q : q[i] \in S /\ a.id = q[i].id
  BY <1>1
<1>3. \A T : q[i] \in T => Somewhere(T)
  <2>1. \A T : q[i] \in T => Has(q, T)
    BY DEF Has
  <2>2. QED
    BY <1>1, <2>1 DEF Somewhere, SomewhereWith
<1>4. QED
  BY <1>2, <1>3

-----------------------------------------------------------------------------
(***************************************************************************)
(* Confirmations.                                                          *)
(***************************************************************************)
LEMMA ExchangePdus ==
    /\ Exchange \in SUBSET Pdu
    /\ Unsolicited("command") \notin Exchange
    /\ Unsolicited("confirmation") \in Exchange
    /\ \A req : RequestPdu(req) \notin Exchange
    /\ \A p \in AnswerPdu : p \notin Exchange
    /\ \A p \in OutPdu : p \in Exchange <=> p.kind = "confirmation"
    /\ \A p \in InPdu : p \in Exchange <=> p.kind = "indication"
    /\ NoPdu \notin Exchange
<1>1. Exchange \in SUBSET Pdu /\ \A req : RequestPdu(req) \notin Exchange
  BY DEF Exchange, RequestPdu
<1>2. Unsolicited("command") \notin Exchange /\ Unsolicited("confirmation") \in Exchange
  BY DEF Exchange, Unsolicited, Pdu, Kind
<1>3. /\ \A p \in OutPdu : p \in Exchange <=> p.kind = "confirmation"
      /\ \A p \in InPdu : p \in Exchange <=> p.kind = "indication"
  BY DEF Exchange, OutPdu, InPdu
<1>4. \A p \in AnswerPdu : p \notin Exchange
  BY <1>3 DEF AnswerPdu, IsEvent
<1>5. QED
  BY <1>1, <1>2, <1>3, <1>4, NoPduNowhere

\* The steps that queue, send and answer requests move no other PDU.
LEMMA RequestsMove ==
    ASSUME Typed, Nested, NEW S \in SUBSET Pdu,
           \A req : RequestPdu(req) \notin S, \A p \in AnswerPdu : p \notin S,
           (\E op \in AppOpcode : AppRequest(op)) \/ HandleSocketConnected \/ ResponseRest
    PROVE  /\ Moves(S)
           /\ OwedToTheLink
           /\ s' \in {s, "Disconnected"}
<1>1. SomewhereWith(S, stack) = Somewhere(S) /\ OnceWith(S, stack) = Once(S)
  BY DEF Somewhere, Once
<1>2. ASSUME stack # <<>>, Load(Head(stack)) \notin S
      PROVE  /\ Somewhere(S) <=> SomewhereWith(S, Tail(stack))
             /\ Once(S) <=> OnceWith(S, Tail(stack))
  BY <1>2, PopStack DEF Typed
<1>3. ASSUME NEW op \in AppOpcode, AppRequest(op)
      PROVE  /\ Moves(S)
             /\ OwedToTheLink
             /\ s' \in {s, "Disconnected"}
  <2>1. Callbacks(stack) /\ DoRequest(op, stack) /\ op \in Opcode
    BY <1>3, CallsFromCallbacks DEF AppRequest, Opcode, Typed
  <2>2. Shrinks(S, stack) /\ Keeps(S, stack)
    BY <2>1, DoRequestMoves DEF Adds, Shrinks
  <2>3. s' \in {s, "Disconnected"}
    BY <2>1, DoRequestTyped
  <2>4. QED
    BY <1>3, <2>2, <2>3 DEF Moves, AppRequest, ServerLink, OwedToTheLink
<1>4. CASE HandleSocketConnected
  <2>1. /\ stack # <<>> /\ Load(Head(stack)) = NoPdu
        /\ Callbacks(Tail(stack)) /\ DoRequest(MtuRequest, Tail(stack)) /\ MtuRequest \in Opcode
    BY <1>4, ConnectedTyped
  <2>2. Shrinks(S, Tail(stack)) /\ Keeps(S, Tail(stack))
    BY <2>1, DoRequestMoves DEF Adds, Shrinks
  <2>3. s' \in {s, "Disconnected"}
    BY <2>1, DoRequestTyped
  <2>4. /\ Somewhere(S) <=> SomewhereWith(S, Tail(stack))
        /\ Once(S) <=> OnceWith(S, Tail(stack))
    BY <1>2, <2>1, NoPduNowhere
  <2>5. Moves(S)
    BY <1>1, <2>2, <2>4 DEF Moves, Shrinks, Keeps
  <2>6. QED
    BY <1>4, <2>3, <2>5 DEF HandleSocketConnected, ServerLink, OwedToTheLink
<1>5. CASE ResponseRest
  <2>1. /\ stack # <<>> /\ Load(Head(stack)) \in AnswerPdu /\ pending_requests # <<>>
        /\ Callbacks(Tail(stack)) /\ NextRequest(Tail(stack))
    BY <1>5, ResponseRestTyped
  <2>2. Shrinks(S, Tail(stack)) /\ Keeps(S, Tail(stack))
    BY <2>1, NextRequestMoves DEF Adds, Shrinks
  <2>3. s' \in {s, "Disconnected"}
    BY <2>1, NextRequestTyped
  <2>4. /\ Somewhere(S) <=> SomewhereWith(S, Tail(stack))
        /\ Once(S) <=> OnceWith(S, Tail(stack))
    BY <1>2, <2>1
  <2>5. Moves(S)
    BY <1>1, <2>2, <2>4 DEF Moves, Shrinks, Keeps
  <2>6. QED
    BY <1>5, <2>3, <2>5 DEF ResponseRest, ServerLink, OwedToTheLink
<1>6. QED
  BY <1>3, <1>4, <1>5

\* Only the server starts and ends the exchange of an indication.
LEMMA ExchangeMoves ==
    ASSUME Typed, Nested, [Next]_vars, ~ PeerSends("indication"),
           \A pdu : ServerTakes(pdu) => pdu.kind # "confirmation"
    PROVE  /\ Moves(Exchange)
           /\ OwedToTheLink
<1> USE ExchangePdus
<1>1. ASSUME owed' = owed, s' = s PROVE OwedToTheLink
  BY <1>1 DEF OwedToTheLink
<1>2. CASE Plain
  BY <1>2, PlainMoves
<1>3. CASE (\E op \in AppOpcode : AppRequest(op)) \/ HandleSocketConnected \/ ResponseRest
  BY <1>3, RequestsMove
<1>4. ASSUME NEW i \in DOMAIN pending_requests, AppCancel(i)
      PROVE  Moves(Exchange) /\ OwedToTheLink
  BY <1>1, <1>4 DEF AppCancel, socketVars, Moves, Shrinks, Keeps, Somewhere, SomewhereWith, Once,
                    OnceWith
<1>5. CASE HandleIndication
  <2>1. Received \in Exchange
    BY <1>5, ConfirmationTyped DEF Typed
  <2>2. Moves(Exchange)
    BY <1>5, <2>1, ConfirmationMoves DEF Typed
  <2>3. QED
    BY <1>5, <2>2 DEF HandleIndication, ServerLink, OwedToTheLink
<1>6. CASE HandleUnanswered
  <2>1. Received \notin Exchange
    <3>1. Received \in InPdu
      BY <1>6, ReceivedIsIn DEF HandleUnanswered, Typed
    <3>2. Received.kind # "indication"
      BY <1>6 DEF HandleUnanswered, IsEvent
    <3>3. QED
      BY <3>1, <3>2
  <2>2. Moves(Exchange)
    BY <1>6, <2>1, UnansweredMoves DEF Typed
  <2>3. QED
    BY <1>1, <1>6, <2>2, UnansweredTyped DEF HandleUnanswered, attVars, Typed
<1>7. ASSUME NEW pdu, ServerTakes(pdu) PROVE Moves(Exchange) /\ OwedToTheLink
  <2>1. pdu \in OutPdu /\ pdu \notin Exchange /\ s' = s
    BY <1>7, ServerTakesTyped DEF Typed
  <2>2. pdu.kind = "request" =>
            \A kind \in {"response", "error"} : AnswerTo(pdu, kind) \in Exchange <=> pdu \in Exchange
    BY <2>1, AnswerIsIn
  <2>3. Moves(Exchange)
    BY <1>7, <2>1, <2>2, ServerTakesMoves DEF Typed
  <2>4. owed' = owed
    BY <1>7 DEF ServerTakes, Typed, AttTyped
  <2>5. QED
    BY <1>1, <2>1, <2>3, <2>4
<1>8. ASSUME NEW kind \in {"notification", "indication", "request"}, PeerSends(kind)
      PROVE  Moves(Exchange) /\ OwedToTheLink
  <2>1. Unsolicited(kind) \in InPdu /\ s' = s
    BY <1>8, PeerSendsTyped DEF Typed
  <2>2. kind # "indication" /\ Unsolicited(kind).kind = kind
    BY <1>8 DEF Unsolicited
  <2>3. Unsolicited(kind) \notin Exchange
    BY <2>1, <2>2
  <2>4. Moves(Exchange)
    BY <1>8, <2>3, PeerSendsMoves DEF Typed
  <2>5. owed' = owed
    BY <1>8, <2>2 DEF PeerSends, Typed, AttTyped
  <2>6. QED
    BY <1>1, <2>1, <2>4, <2>5
<1>9. CASE UNCHANGED vars
  <2>1. Moves(Exchange)
    BY <1>9 DEF vars, socketVars, Moves, Shrinks, Keeps, Somewhere, SomewhereWith, Once, OnceWith
  <2>2. QED
    BY <1>1, <1>9, <2>1 DEF vars, socketVars, attVars
<1>10. QED
  BY <1>2, <1>3, <1>4, <1>5, <1>6, <1>7, <1>8, <1>9
     DEF Plain, Next, App, Continue, ServerAnswers, Peer

LEMMA IndicationSent ==
    ASSUME Typed, PeerSends("indication")
    PROVE  /\ Somewhere(Exchange)' /\ owed' /\ ~ owed /\ s' = s /\ s # "Disconnected"
           /\ Once(Exchange) /\ ~ Somewhere(Exchange) => Once(Exchange)'
<1>1. Unsolicited("indication") \in Exchange
  <2>1. Unsolicited("indication") \in InPdu /\ Unsolicited("indication").kind = "indication"
    BY PeerSendsTyped DEF Typed, Unsolicited
  <2>2. QED
    BY <2>1, ExchangePdus
<1>2. Exchange \in SUBSET Pdu
  BY ExchangePdus
<1>3. Somewhere(Exchange)' /\ (Once(Exchange) /\ ~ Somewhere(Exchange) => Once(Exchange)')
  BY <1>1, <1>2, PeerSendsMoves DEF Typed
<1>4. QED
  BY <1>3 DEF PeerSends

LEMMA ConfirmationTaken ==
    ASSUME Typed, NEW pdu, ServerTakes(pdu), pdu.kind = "confirmation"
    PROVE  /\ ~ owed' /\ s' = s /\ Shrinks(Exchange, stack)
           /\ Once(Exchange) => Somewhere(Exchange) /\ ~ Somewhere(Exchange)'
<1>1. pdu \in OutPdu /\ pdu \in Exchange /\ s' = s
  BY ServerTakesTyped, ExchangePdus DEF Typed
<1>2. ~ owed'
  BY DEF ServerTakes
<1>3. Exchange \in SUBSET Pdu
  BY ExchangePdus
<1>4. Shrinks(Exchange, stack)
  BY <1>3, ServerTakesMoves DEF Typed
<1>5. ASSUME Once(Exchange) PROVE Somewhere(Exchange) /\ ~ Somewhere(Exchange)'
  <2>1. /\ outbound \in Seq(OutPdu) /\ outbound # <<>> /\ pdu = Head(outbound)
        /\ outbound' = Tail(outbound)
        /\ UNCHANGED <<s, writeQueue, readQueue, inbound, stack>>
    BY DEF ServerTakes, Typed, SocketTyped
  <2>2. Has(outbound, Exchange) /\ (One(outbound, Exchange) => ~ Has(outbound', Exchange))
    BY <1>1, <2>1, HeadPlace
  <2>3. QED
    BY <1>5, <2>1, <2>2 DEF Somewhere, SomewhereWith, Once, OnceWith
<1>6. QED
  BY <1>1, <1>2, <1>4, <1>5

LEMMA ConfirmationStep ==
    ASSUME Typed, Nested, ConfirmationOnItsWay, [Next]_vars
    PROVE  ConfirmationOnItsWay'
<1>1. CASE PeerSends("indication")
  BY <1>1, IndicationSent DEF ConfirmationOnItsWay
<1>2. ASSUME NEW pdu, ServerTakes(pdu), pdu.kind = "confirmation" PROVE ConfirmationOnItsWay'
  BY <1>2, ConfirmationTaken DEF ConfirmationOnItsWay
<1>3. CASE ~ PeerSends("indication") /\ \A pdu : ServerTakes(pdu) => pdu.kind # "confirmation"
  <2>1. Moves(Exchange) /\ OwedToTheLink
    BY <1>3, ExchangeMoves
  <2>2. SUFFICES ASSUME owed' PROVE s' # "Disconnected" /\ Somewhere(Exchange)'
    BY DEF ConfirmationOnItsWay
  <2>3. s # "Disconnected" /\ Somewhere(Exchange) /\ s' # "Disconnected"
    BY <2>1, <2>2 DEF OwedToTheLink, ConfirmationOnItsWay
  <2>4. SomewhereWith(Exchange, stack) = Somewhere(Exchange)
    BY DEF Somewhere
  <2>5. QED
    BY <2>1, <2>3, <2>4 DEF Moves, Keeps
<1>4. QED
  BY <1>1, <1>2, <1>3

\* As long as the server is owed a confirmation, the indication or its
\* confirmation is somewhere: nothing that fails, and nothing the application
\* does in between, loses it.
THEOREM NoConfirmationIsLost == Spec => []ConfirmationNotLost
<1>1. Init => Typed /\ Nested /\ ConfirmationOnItsWay
  BY InitTyped DEF Init, ConfirmationOnItsWay
<1>2. Typed /\ Nested /\ ConfirmationOnItsWay /\ [Next]_vars =>
          (Typed /\ Nested /\ ConfirmationOnItsWay)'
  BY TypedStep, NestedStep, ConfirmationStep
<1>3. Typed /\ ConfirmationOnItsWay => ConfirmationNotLost
  BY EverywhereIsMarks, MarksOfPlaces DEF Typed, ConfirmationOnItsWay, ConfirmationNotLost
<1>4. QED
  BY <1>1, <1>2, <1>3, PTL DEF Spec

-----------------------------------------------------------------------------
(***************************************************************************)
(* While writes succeed, each indication is confirmed once.                *)
(***************************************************************************)
\* A link that ends takes every indication and confirmation with it.
LEMMA ClosedHasNoExchange ==
    ASSUME Typed, NEW k, CloseThen(k), k \in Seq(GoodFrame),
           \A j \in DOMAIN k : k[j].at \in {"write", "response"}
    PROVE  ~ Somewhere(Exchange)'
<1>1. \A j \in DOMAIN k : Load(k[j]) \notin Exchange
  <2>1. \A j \in DOMAIN k : k[j] \in GoodFrame
    BY LenProperties, ElementOfSeq
  <2>2. \A j \in DOMAIN k : Load(k[j]) = NoPdu \/ Load(k[j]) \in AnswerPdu
    BY <2>1, Loads
  <2>3. QED
    BY <2>2, ExchangePdus
<1>2. ~ Has(Cargo(k), Exchange)
  BY <1>1 DEF Has, Cargo
<1>3. ~ Has(<<>>, Exchange)
  BY EmptyPlace
<1>4. QED
  BY <1>2, <1>3 DEF CloseThen, Somewhere, SomewhereWith

LEMMA SendKeepsLink ==
    ASSUME NEW pkt, NEW k, Send(pkt, k), ~ WriteMayFail
    PROVE  s' = s
BY DEF Send, Enqueue

LEMMA LinkEndClears ==
    ASSUME Typed, Nested, [Next]_vars, ~ WriteMayFail, ~ Running("send"),
           s # "Disconnected", s' = "Disconnected"
    PROVE  ~ Somewhere(Exchange)'
<1>0. ASSUME CloseThen(<<>>) PROVE ~ Somewhere(Exchange)'
  <2>1. <<>> \in Seq(GoodFrame) /\ \A j \in DOMAIN <<>> : <<>>[j].at \in {"write", "response"}
    OBVIOUS
  <2>2. QED
    BY <1>0, <2>1, ClosedHasNoExchange
<1>1. CASE AppConnect
  BY <1>1 DEF AppConnect, ConnectTo
<1>2. CASE AppClose
  <2>1. CloseThen(stack) /\ StackOK(stack, s)
    BY <1>2, CloseCallTyped DEF Typed, SocketTyped
  <2>2. stack # <<>> => Head(stack).at \in {"write", "response"}
    BY <1>2 DEF AppClose, May, Idle, InSlot, InCallback, SuspendedFrames, Running
  <2>3. \A j \in DOMAIN stack : stack[j].at \in {"write", "response"}
    <3>1. ASSUME NEW j \in DOMAIN stack PROVE stack # <<>> /\ Head(stack) = stack[1]
      BY <2>1, EmptySeq, LenProperties DEF StackOK
    <3>2. QED
      BY <2>1, <2>2, <3>1 DEF StackOK
  <2>4. QED
    BY <2>1, <2>3, ClosedHasNoExchange DEF StackOK
<1>3. ASSUME NEW op \in AppOpcode, AppRequest(op) PROVE FALSE
  <2>1. Callbacks(stack) /\ DoRequest(op, stack) /\ op \in Opcode
    BY <1>3, CallsFromCallbacks DEF AppRequest, Opcode, Typed
  <2>2. Send(RequestPdu(NewRequest(op)), stack) \/ s' = s
    BY <2>1, DoRequestTyped DEF SocketUnchangedBut
  <2>3. QED
    BY <2>2, SendKeepsLink
<1>4. CASE AppCommand
  BY <1>4, SendKeepsLink DEF AppCommand
<1>5. ASSUME NEW i \in DOMAIN pending_requests, AppCancel(i) PROVE FALSE
  BY <1>5 DEF AppCancel, socketVars
<1>6. CASE SocketStep(SendRest)
  BY <1>6 DEF SocketStep, SendRest
<1>7. CASE SocketStep(WriteRest)
  BY <1>7 DEF SocketStep, WriteRest
<1>8. CASE SocketStep(ReadPacket)
  BY <1>8 DEF SocketStep, ReadPacket
<1>9. CASE SocketStep(ReadFails)
  BY <1>0, <1>9 DEF SocketStep, ReadFails, Close
<1>10. CASE SocketStep(WriteNotify)
  <2>1. CloseThen(<<>>)
    BY <1>10 DEF SocketStep, WriteNotify, ConnectSucceeds, ConnectFails, WriteHead, WriteNothing,
                 WriteFails, Close
  <2>2. QED
    BY <1>0, <2>1
<1>11. CASE HandleSocketConnected
  <2>1. DoRequest(MtuRequest, Tail(stack)) /\ Callbacks(Tail(stack)) /\ MtuRequest \in Opcode
    BY <1>11, ConnectedTyped
  <2>2. Send(RequestPdu(NewRequest(MtuRequest)), Tail(stack)) \/ s' = s
    BY <2>1, DoRequestTyped DEF SocketUnchangedBut
  <2>3. QED
    BY <2>2, SendKeepsLink
<1>12. CASE ReceivePdu
  BY <1>12 DEF ReceivePdu
<1>13. CASE HandleIndication
  BY <1>13, SendKeepsLink DEF HandleIndication
<1>14. CASE HandleUnanswered
  BY <1>14 DEF HandleUnanswered, SocketUnchangedBut
<1>15. CASE HandleResponse
  BY <1>15 DEF HandleResponse, SocketUnchangedBut
<1>16. CASE ResponseRest
  BY <1>16, SendKeepsLink DEF ResponseRest, NextRequest, SocketUnchangedBut
<1>17. ASSUME NEW pdu, ServerTakes(pdu) PROVE FALSE
  BY <1>17 DEF ServerTakes
<1>18. ASSUME NEW kind, PeerSends(kind) PROVE FALSE
  BY <1>18 DEF PeerSends
<1>19. CASE UNCHANGED vars
  BY <1>19 DEF vars, socketVars
<1>20. QED
  BY <1>1, <1>2, <1>3, <1>4, <1>5, <1>6, <1>7, <1>8, <1>9, <1>10, <1>11, <1>12, <1>13, <1>14,
     <1>15, <1>16, <1>17, <1>18, <1>19
     DEF Next, App, Continue, ServerAnswers, Peer

LEMMA NeverSuspendsSend ==
    ASSUME Typed, Nested, [Next]_vars, ~ WriteMayFail, ~ Running("send")
    PROVE  ~ Running("send")'
<1> USE DEF Typed
<1>1. ASSUME stack' = stack PROVE ~ Running("send")'
  BY <1>1 DEF Running
<1>2. ASSUME NEW k, Callbacks(k), stack' = k \/ stack' = Abort PROVE ~ Running("send")'
  BY <1>2, CallbacksAreOK, AbortIsOK DEF Running
<1>3. ASSUME NEW pkt, NEW k, Callbacks(k), Send(pkt, k) PROVE ~ Running("send")'
  BY <1>2, <1>3 DEF Send, Enqueue, SetWriteEnabled
<1>4. ASSUME stack # <<>>, stack' = Tail(stack) \/ stack' = Abort PROVE ~ Running("send")'
  <2>1. Callbacks(Tail(stack))
    BY <1>4, PoppedIsCallbacks DEF SocketTyped
  <2>2. QED
    BY <1>2, <1>4, <2>1
<1>5. CASE AppConnect \/ AppClose
  BY <1>1, <1>5, ConnectTyped, CloseCallTyped DEF AppConnect
<1>6. ASSUME NEW op \in AppOpcode, AppRequest(op) PROVE ~ Running("send")'
  <2>1. Callbacks(stack) /\ DoRequest(op, stack) /\ op \in Opcode
    BY <1>6, CallsFromCallbacks DEF AppRequest, Opcode
  <2>2. Send(RequestPdu(NewRequest(op)), stack) \/ stack' = stack
    BY <2>1, DoRequestTyped DEF SocketUnchangedBut
  <2>3. QED
    BY <1>1, <1>3, <2>1, <2>2
<1>7. CASE AppCommand
  BY <1>7, CommandTyped
<1>8. ASSUME NEW i \in DOMAIN pending_requests, AppCancel(i) PROVE ~ Running("send")'
  BY <1>1, <1>8 DEF AppCancel, socketVars
<1>9. CASE SocketStep(SendRest)
  BY <1>9 DEF SocketStep, SendRest
<1>10. CASE SocketStep(WriteRest)
  BY <1>4, <1>10, WriteRestTyped DEF SocketStep
<1>11. CASE SocketStep(ReadPacket) \/ SocketStep(ReadFails) \/ SocketStep(WriteNotify)
  <2>1. \/ stack' = <<>>
        \/ \E at \in {"write", "readyRead", "connected"} : stack' = <<Frame(at, <<>>)>>
    BY <1>11, ReadPacketTyped, ReadFailsTyped, WriteNotifyTyped DEF SocketStep
  <2>2. QED
    BY <2>1 DEF Running, Frame
<1>12. CASE HandleSocketConnected
  <2>1. DoRequest(MtuRequest, Tail(stack)) /\ Callbacks(Tail(stack)) /\ MtuRequest \in Opcode
        /\ stack # <<>>
    BY <1>12, ConnectedTyped
  <2>2. Send(RequestPdu(NewRequest(MtuRequest)), Tail(stack)) \/ stack' = Tail(stack)
    BY <2>1, DoRequestTyped DEF SocketUnchangedBut
  <2>3. QED
    BY <1>3, <1>4, <2>1, <2>2
<1>13. CASE ReceivePdu
  BY <1>13, ReceiveTyped DEF Running
<1>14. CASE HandleIndication
  BY <1>14, ConfirmationTyped
<1>15. CASE HandleUnanswered
  BY <1>4, <1>15, UnansweredTyped DEF HandleUnanswered, Running
<1>16. CASE HandleResponse
  <2> DEFINE f == Frame("response", <<Received>>)
  <2>1. Running("received") /\ Received \in AnswerPdu /\ stack' = <<f>> \o Tail(stack)
    BY <1>16, ResponseTyped DEF HandleResponse
  <2>2. f \in GoodFrame /\ f.at = "response" /\ Callbacks(Tail(stack))
    BY <2>1, MakeFrame, ReceivedIsIn
  <2> HIDE DEF f
  <2>3. Head(stack') = f
    BY <2>1, <2>2, PushSeq DEF Callbacks
  <2>4. QED
    BY <2>2, <2>3 DEF Running
<1>17. CASE ResponseRest
  <2>1. pending_requests # <<>> /\ Callbacks(Tail(stack)) /\ NextRequest(Tail(stack))
    BY <1>17, ResponseRestTyped
  <2>2. QED
    BY <2>1, NextRequestTyped
<1>18. ASSUME NEW pdu, ServerTakes(pdu) PROVE ~ Running("send")'
  BY <1>1, <1>18 DEF ServerTakes
<1>19. ASSUME NEW kind, PeerSends(kind) PROVE ~ Running("send")'
  BY <1>1, <1>19 DEF PeerSends
<1>20. CASE UNCHANGED vars
  BY <1>1, <1>20 DEF vars, socketVars
<1>21. QED
  BY <1>5, <1>6, <1>7, <1>8, <1>9, <1>10, <1>11, <1>12, <1>13, <1>14,
     <1>15, <1>16, <1>17, <1>18, <1>19, <1>20
     DEF Next, App, Continue, ServerAnswers, Peer

LEMMA ExchangeOnceStep ==
    ASSUME Typed, Nested, ~ WriteMayFail, ExchangeOnce, [Next]_vars
    PROVE  ExchangeOnce'
<1>1. ~ Running("send")'
  BY NeverSuspendsSend DEF ExchangeOnce
<1>2. CASE PeerSends("indication")
  BY <1>1, <1>2, IndicationSent DEF ExchangeOnce
<1>3. ASSUME NEW pdu, ServerTakes(pdu), pdu.kind = "confirmation" PROVE ExchangeOnce'
  <2>1. OnceWith(Exchange, stack) = Once(Exchange)
    BY DEF Once
  <2>2. QED
    BY <1>1, <1>3, <2>1, ConfirmationTaken DEF ExchangeOnce, Shrinks
<1>4. CASE ~ PeerSends("indication") /\ \A pdu : ServerTakes(pdu) => pdu.kind # "confirmation"
  <2>1. Moves(Exchange) /\ OwedToTheLink
    BY <1>4, ExchangeMoves
  <2>2. SomewhereWith(Exchange, stack) = Somewhere(Exchange) /\ OnceWith(Exchange, stack) = Once(Exchange)
    BY DEF Somewhere, Once
  <2>3. /\ Once(Exchange)'
        /\ Somewhere(Exchange)' => Somewhere(Exchange)
        /\ s' # "Disconnected" /\ Somewhere(Exchange) => Somewhere(Exchange)'
    BY <2>1, <2>2 DEF ExchangeOnce, Moves, Shrinks, Keeps
  <2>4. s # "Disconnected" /\ s' = "Disconnected" => ~ Somewhere(Exchange)'
    BY LinkEndClears DEF ExchangeOnce
  <2>5. owed <=> Somewhere(Exchange)
    BY DEF ExchangeOnce
  <2>6. (owed <=> Somewhere(Exchange))' /\ (owed' => s' # "Disconnected")
    BY <2>1, <2>3, <2>4, <2>5 DEF ExchangeOnce, OwedToTheLink
  <2>7. QED
    BY <1>1, <2>3, <2>6 DEF ExchangeOnce
<1>5. QED
  BY <1>2, <1>3, <1>4

LEMMA InitNowhere ==
    ASSUME Init
    PROVE  \A S : Once(S) /\ ~ Somewhere(S)
BY EmptyPlace DEF Init, SocketInit, Once, OnceWith, Somewhere, SomewhereWith

\* While writes succeed there is exactly one indication or confirmation for
\* what the server is owed, and none otherwise: an indication is confirmed
\* once, past all pending requests, and on its own link.
THEOREM IndicationsAreConfirmedOnce == ~ WriteMayFail => (Spec => []ConfirmedOnce)
<1> SUFFICES ASSUME ~ WriteMayFail PROVE Spec => []ConfirmedOnce
  OBVIOUS
<1>1. Init => Typed /\ Nested /\ ExchangeOnce
  BY InitTyped, InitNowhere DEF Init, SocketInit, ExchangeOnce, Running
<1>2. Typed /\ Nested /\ ExchangeOnce /\ [Next]_vars => (Typed /\ Nested /\ ExchangeOnce)'
  BY TypedStep, NestedStep, ExchangeOnceStep
<1>3. Typed /\ ExchangeOnce => ConfirmedOnce
  <2> SUFFICES ASSUME Typed, ExchangeOnce PROVE ConfirmedOnce
    OBVIOUS
  <2>1. PICK T : T = Everywhere(IsExchange)
    OBVIOUS
  <2>2. /\ T # {} <=> owed
        /\ \A a, b \in T : a = b
    BY <2>1, EverywhereIsMarks, MarksOfPlaces DEF Typed, ExchangeOnce
  <2>3. CASE owed
    <3>1. PICK a : T = {a}
      BY <2>2, <2>3
    <3>2. Cardinality(T) = 1
      BY <3>1, FS_Singleton
    <3>3. QED
      BY <2>1, <2>3, <3>2 DEF ConfirmedOnce
  <2>4. CASE ~ owed
    <3>1. Cardinality(T) = 0
      BY <2>2, <2>4, FS_EmptySet
    <3>2. QED
      BY <2>1, <2>4, <3>1 DEF ConfirmedOnce
  <2>5. QED
    BY <2>3, <2>4
<1>4. QED
  BY <1>1, <1>2, <1>3, PTL DEF Spec

-----------------------------------------------------------------------------
(***************************************************************************)
(* Requests: one at a time, for the head.                                  *)
(***************************************************************************)
LEMMA OwnPdus ==
    /\ Own \in SUBSET Pdu
    /\ \A kind : Unsolicited(kind) \notin Own
    /\ \A p \in OutPdu : p \in Own <=> p.kind = "request"
    /\ \A p \in InPdu : p \in Own <=> p.kind \in {"response", "error"}
    /\ NoMistake => AnswerPdu \subseteq Own
    /\ NoPdu \notin Own
BY NoPduNowhere DEF Own, Unsolicited, OutPdu, InPdu, AnswerPdu

LEMMA SmallerPlace ==
    ASSUME NEW S, NEW T, S \subseteq T, NEW k
    PROVE  /\ SomewhereWith(S, k) => SomewhereWith(T, k)
           /\ Somewhere(S)' => Somewhere(T)'
BY DEF Somewhere, SomewhereWith, Has

\* Strays of the next state, named in this one.
LEMMA StraysLater ==
    ASSUME NEW M, M = Strays'
    PROVE  Somewhere(M)' <=> Somewhere(Strays)'
BY DEF Somewhere, SomewhereWith, Has

\* The steps that make, send, answer and cancel requests.
Requesting ==
    \/ \E op \in AppOpcode : AppRequest(op)
    \/ HandleSocketConnected
    \/ ResponseRest

Cancelling == \E i \in DOMAIN pending_requests : AppCancel(i)

\* All others only move what belongs to requests; none of it is lost unless
\* the link ends, or handleResponse() does not know it.
LEMMA OtherStepsMove ==
    ASSUME Typed, Nested, [Next]_vars, ~ Requesting, ~ Cancelling, NEW S \in SUBSET Own,
           \A p \in OutPdu : p.kind = "request" =>
               \A kind \in {"response", "error"} : AnswerTo(p, kind) \in S <=> p \in S
    PROVE  /\ UNCHANGED <<pending_requests, next_id>>
           /\ Shrinks(S, stack)
           /\ Keeps(S, stack) \/ (HandleUnanswered /\ Received \in S)
           /\ s' # "Disconnected" => s # "Disconnected" \/ AppConnect
<1> USE OwnPdus
<1>0. S \in SUBSET Pdu /\ \A kind : Unsolicited(kind) \notin S
  OBVIOUS
<1>1. CASE Plain
  BY <1>0, <1>1, PlainMoves DEF Moves
<1>2. CASE HandleIndication
  <2>1. Received \notin S /\ Unsolicited("confirmation") \notin S /\ s' \in {s, "Disconnected"}
    BY <1>0, <1>2, ConfirmationTyped DEF Typed
  <2>2. Moves(S)
    BY <1>0, <1>2, <2>1, ConfirmationMoves DEF Typed
  <2>3. QED
    BY <1>2, <2>1, <2>2 DEF HandleIndication, Moves
<1>3. CASE HandleUnanswered
  <2>1. Shrinks(S, stack) /\ (Received \notin S => Moves(S))
    BY <1>0, <1>3, UnansweredMoves DEF Typed
  <2>2. QED
    BY <1>3, <2>1, UnansweredTyped DEF HandleUnanswered, attVars, Moves, Typed
<1>4. ASSUME NEW pdu, ServerTakes(pdu)
      PROVE  /\ UNCHANGED <<pending_requests, next_id>>
             /\ Moves(S) /\ s' = s
  <2>1. pdu \in OutPdu /\ s' = s
    BY <1>4, ServerTakesTyped DEF Typed
  <2>2. pdu.kind # "request" => pdu \notin S
    BY <2>1
  <2>3. Moves(S)
    BY <1>0, <1>4, <2>1, <2>2, ServerTakesMoves DEF Typed
  <2>4. QED
    BY <1>4, <2>1, <2>3 DEF ServerTakes
<1>5. ASSUME NEW kind \in {"notification", "indication", "request"}, PeerSends(kind)
      PROVE  /\ UNCHANGED <<pending_requests, next_id>>
             /\ Moves(S) /\ s' = s
  BY <1>0, <1>5, PeerSendsMoves DEF PeerSends, Typed
<1>6. CASE UNCHANGED vars
  BY <1>6 DEF vars, socketVars, attVars, Shrinks, Keeps, Somewhere, SomewhereWith, Once, OnceWith
<1>7. QED
  BY <1>1, <1>2, <1>3, <1>4, <1>5, <1>6
     DEF Plain, Next, App, Continue, ServerAnswers, Peer, Requesting, Cancelling, Moves

LEMMA StraysAreOwn ==
    /\ Strays \in SUBSET Own
    /\ \A p \in OutPdu : p.kind = "request" =>
           \A kind \in {"response", "error"} :
               /\ AnswerTo(p, kind) \in Strays <=> p \in Strays
               /\ AnswerTo(p, kind) \in Own <=> p \in Own
<1>1. Strays \in SUBSET Own
  BY DEF Strays
<1>2. ASSUME NEW p \in OutPdu, p.kind = "request", NEW kind \in {"response", "error"}
      PROVE  /\ AnswerTo(p, kind) \in Own <=> p \in Own
             /\ AnswerTo(p, kind) \in Of(pending_requests) <=> p \in Of(pending_requests)
  <2>1. /\ AnswerTo(p, kind).id = p.id /\ AnswerTo(p, kind).op = p.op
        /\ AnswerTo(p, kind) \in InPdu /\ AnswerTo(p, kind).kind = kind
    BY <1>2, AnswerIsIn
  <2>2. p \in Own /\ AnswerTo(p, kind) \in Own
    BY <1>2, <2>1, OwnPdus
  <2>3. QED
    BY <2>1, <2>2 DEF Of
<1>3. QED
  BY <1>1, <1>2 DEF Strays

\* A request is sent when there is nothing of any other.
LEMMA FirstOfItsKind ==
    ASSUME NEW k, OnceWith(Own, k), ~ SomewhereWith(Own, k), NEW pkt,
           pkt \in Of(pending_requests'),
           \A S \in SUBSET Own : Adds(pkt, S, k)
    PROVE  OwnOnce' /\ Somewhere(Own)'
<1>1. PICK M : M = Strays'
  OBVIOUS
<1>2. M \subseteq Own /\ pkt \in Own /\ pkt \notin M
  BY <1>1 DEF Strays, Of
<1>3. Adds(pkt, Own, k) /\ Adds(pkt, M, k)
  BY <1>2
<1>4. ~ SomewhereWith(M, k)
  BY <1>2, SmallerPlace
<1>5. Once(Own)' /\ Somewhere(Own)' /\ ~ Somewhere(M)'
  BY <1>2, <1>3, <1>4 DEF Adds
<1>6. ~ Somewhere(Strays)'
  BY <1>1, <1>5, StraysLater
<1>7. QED
  BY <1>5, <1>6 DEF OwnOnce

\* As long as the head stays, what is moved stays its own.
LEMMA HeadStays ==
    ASSUME NEW k, OnceWith(Own, k), ~ SomewhereWith(Strays, k),
           Of(pending_requests') = Of(pending_requests),
           \A S \in SUBSET Own : Shrinks(S, k)
    PROVE  OwnOnce'
<1>1. PICK M : M = Strays
  OBVIOUS
<1>2. M = Strays' /\ M \in SUBSET Own
  BY <1>1 DEF Strays
<1>3. ~ SomewhereWith(M, k)
  BY <1>1 DEF SomewhereWith, Has
<1>4. ~ Somewhere(M)'
  BY <1>2, <1>3 DEF Shrinks
<1>5. ~ Somewhere(Strays)'
  BY <1>2, <1>4, StraysLater
<1>6. Once(Own)'
  BY DEF Shrinks
<1>7. QED
  BY <1>5, <1>6 DEF OwnOnce

\* request(), with the frames k below it.
LEMMA DoRequestOwn ==
    ASSUME Typed, NEW op \in Opcode, NEW k, Callbacks(k), DoRequest(op, k),
           OnceWith(Own, k), ~ SomewhereWith(Strays, k)
    PROVE  /\ OwnOnce'
           /\ pending_requests = <<>> => Somewhere(Own)'
           /\ pending_requests # <<>> => Keeps(Own, k)
<1>1. PICK req : req = NewRequest(op)
  OBVIOUS
<1>2. /\ pending_requests' = Append(pending_requests, req) /\ req \in Request
      /\ pending_requests \in Seq(Request)
  BY <1>1, DoRequestTyped DEF Typed, AttTyped
<1>3. \A S \in SUBSET Own : /\ pending_requests = <<>> => Adds(RequestPdu(req), S, k)
                            /\ pending_requests # <<>> => Shrinks(S, k) /\ Keeps(S, k)
  BY <1>1, DoRequestMoves, OwnPdus
<1>4. CASE pending_requests = <<>>
  <2>1. Of(pending_requests) = {}
    BY <1>4 DEF Of
  <2>2. Strays = Own
    BY <2>1 DEF Strays
  <2>3. ~ SomewhereWith(Own, k)
    BY <2>2 DEF SomewhereWith, Has
  <2>4. pending_requests' # <<>> /\ Head(pending_requests') = req
    BY <1>2, <1>4
  <2>5. RequestPdu(req) \in Of(pending_requests')
    BY <1>2, <2>4, OutPdus DEF Of, RequestPdu
  <2>6. QED
    BY <1>3, <1>4, <2>3, <2>5, FirstOfItsKind
<1>5. CASE pending_requests # <<>>
  <2>1. pending_requests' # <<>> /\ Head(pending_requests') = Head(pending_requests)
    BY <1>2, <1>5
  <2>2. Of(pending_requests') = Of(pending_requests)
    BY <1>5, <2>1 DEF Of
  <2>3. QED
    BY <1>3, <1>5, <2>2, HeadStays
<1>6. QED
  BY <1>4, <1>5

\* The answer of the head is consumed, and the next request is sent.
LEMMA ResponseRestOwn ==
    ASSUME Typed, Nested, NoMistake, OwnOnce, ResponseRest
    PROVE  /\ OwnOnce'
           /\ Load(Head(stack)) \in Own
           /\ pending_requests' # <<>> => Somewhere(Own)'
           /\ pending_requests' = <<>> => ~ Somewhere(Own)'
<1>1. PICK pkt : pkt = RequestPdu(Head(pending_requests'))
  OBVIOUS
<1>2. /\ stack # <<>> /\ Load(Head(stack)) \in AnswerPdu
      /\ pending_requests # <<>> /\ Callbacks(Tail(stack)) /\ NextRequest(Tail(stack))
  BY ResponseRestTyped
<1>3. Load(Head(stack)) \in Own
  BY <1>2, OwnPdus
<1>4. OnceWith(Own, Tail(stack)) /\ ~ SomewhereWith(Own, Tail(stack))
  BY <1>2, <1>3, PopStack DEF OwnOnce, Typed
<1>5. \A S \in SUBSET Own : /\ pending_requests' # <<>> => Adds(pkt, S, Tail(stack))
                            /\ pending_requests' = <<>> => Shrinks(S, Tail(stack))
  BY <1>1, <1>2, NextRequestMoves, OwnPdus
<1>6. CASE pending_requests' # <<>>
  <2>1. pending_requests' \in Seq(Request) /\ Head(pending_requests') \in Request
    BY <1>2, <1>6, NextRequestTyped
  <2>2. pkt \in Of(pending_requests')
    BY <1>1, <1>6, <2>1, OutPdus DEF Of, RequestPdu
  <2>3. QED
    BY <1>3, <1>4, <1>5, <1>6, <2>2, FirstOfItsKind
<1>7. CASE pending_requests' = <<>>
  <2>1. Once(Own)' /\ ~ Somewhere(Own)'
    BY <1>4, <1>5, <1>7 DEF Shrinks
  <2>2. ~ Somewhere(Strays)'
    BY <2>1 DEF Strays, Somewhere, SomewhereWith, Has
  <2>3. QED
    BY <1>3, <1>7, <2>1, <2>2 DEF OwnOnce
<1>8. QED
  BY <1>6, <1>7

\* cancelRequest() of any but the head.
LEMMA CancelOwn ==
    ASSUME Typed, ~ CancelsHead, NEW i \in DOMAIN pending_requests, AppCancel(i)
    PROVE  /\ pending_requests # <<>> /\ pending_requests' # <<>> /\ i # 1
           /\ Head(pending_requests') = Head(pending_requests)
           /\ UNCHANGED socketVars
           /\ next_id' = next_id
           /\ \A S \in SUBSET Pdu : Shrinks(S, stack) /\ Keeps(S, stack)
<1>1. /\ i # 1 /\ pending_requests' = Remove(pending_requests, i)
      /\ UNCHANGED socketVars /\ next_id' = next_id
  BY DEF AppCancel
<1>2. pending_requests \in Seq(Request)
  BY DEF Typed, AttTyped
<1>3. pending_requests' # <<>> /\ Head(pending_requests') = Head(pending_requests)
  BY <1>1, <1>2, RemoveTyped
<1>4. pending_requests # <<>>
  BY <1>2, EmptySeq
<1>5. \A S \in SUBSET Pdu : Shrinks(S, stack) /\ Keeps(S, stack)
  BY <1>1 DEF socketVars, Shrinks, Keeps, Somewhere, SomewhereWith, Once, OnceWith
<1>6. QED
  BY <1>1, <1>3, <1>4, <1>5

LEMMA OwnOnceStep ==
    ASSUME OneOwnHolds, Typed, Nested, OwnOnce, [Next]_vars
    PROVE  OwnOnce'
<1>1. OnceWith(Own, stack) /\ ~ SomewhereWith(Strays, stack)
  BY DEF OwnOnce, Once, Somewhere
<1>2. ASSUME NEW op \in AppOpcode, AppRequest(op) PROVE OwnOnce'
  <2>1. Callbacks(stack) /\ DoRequest(op, stack) /\ op \in Opcode
    BY <1>2, CallsFromCallbacks DEF AppRequest, Opcode, Typed
  <2>2. QED
    BY <1>1, <2>1, DoRequestOwn
<1>3. CASE HandleSocketConnected
  <2>1. /\ stack # <<>> /\ Load(Head(stack)) = NoPdu
        /\ Callbacks(Tail(stack)) /\ DoRequest(MtuRequest, Tail(stack)) /\ MtuRequest \in Opcode
    BY <1>3, ConnectedTyped
  <2>2. /\ OnceWith(Own, Tail(stack))
        /\ ~ SomewhereWith(Strays, Tail(stack))
    BY <2>1, PopStack DEF OwnOnce, Typed
  <2>3. QED
    BY <2>1, <2>2, DoRequestOwn
<1>4. CASE ResponseRest
  BY <1>4, ResponseRestOwn DEF OneOwnHolds
<1>5. ASSUME NEW i \in DOMAIN pending_requests, AppCancel(i) PROVE OwnOnce'
  <2>1. Of(pending_requests') = Of(pending_requests)
    BY <1>5, CancelOwn DEF Of, OneOwnHolds
  <2>2. \A S \in SUBSET Own : Shrinks(S, stack)
    BY <1>5, CancelOwn, OwnPdus DEF OneOwnHolds
  <2>3. QED
    BY <1>1, <2>1, <2>2, HeadStays
<1>6. CASE ~ Requesting /\ ~ Cancelling
  <2>1. PICK M : M = Strays
    OBVIOUS
  <2>2. /\ M \in SUBSET Own
        /\ \A p \in OutPdu : p.kind = "request" =>
               \A kind \in {"response", "error"} : AnswerTo(p, kind) \in M <=> p \in M
    BY <2>1, StraysAreOwn
  <2>3. pending_requests' = pending_requests /\ Shrinks(M, stack)
    BY <1>6, <2>2, OtherStepsMove
  <2>4. Shrinks(Own, stack)
    BY <1>6, OtherStepsMove, StraysAreOwn
  <2>5. M = Strays'
    BY <2>1, <2>3 DEF Strays
  <2>6. ~ SomewhereWith(M, stack)
    BY <1>1, <2>1 DEF SomewhereWith, Has
  <2>7. ~ Somewhere(Strays)'
    BY <2>3, <2>5, <2>6, StraysLater DEF Shrinks
  <2>8. QED
    BY <1>1, <2>4, <2>7 DEF Shrinks, OwnOnce
<1>7. QED
  BY <1>2, <1>3, <1>4, <1>5, <1>6 DEF Requesting, Cancelling

LEMMA OwnOnceInv ==
    /\ Init => Typed /\ Nested /\ OwnOnce
    /\ OneOwnHolds /\ Typed /\ Nested /\ OwnOnce /\ [Next]_vars => (Typed /\ Nested /\ OwnOnce)'
<1>1. Init => OwnOnce
  BY InitNowhere DEF OwnOnce
<1>2. QED
  BY <1>1, InitTyped, TypedStep, NestedStep, OwnOnceStep

\* At most one of the client's requests or their answers is anywhere, and it is
\* the head's: unless the application cancels the head, or a request with an
\* opcode without a case meets a peer that makes requests.
THEOREM OneRequestAtATime == OneOwnHolds => (Spec => []OneOutstanding)
<1> SUFFICES ASSUME OneOwnHolds PROVE Spec => []OneOutstanding
  OBVIOUS
<1>1. Init => Typed /\ Nested /\ OwnOnce
  BY OwnOnceInv
<1>2. Typed /\ Nested /\ OwnOnce /\ [Next]_vars => (Typed /\ Nested /\ OwnOnce)'
  BY OwnOnceInv
<1>3. Typed /\ Nested /\ OwnOnce => OneOutstanding
  <2> SUFFICES ASSUME Typed, OwnOnce PROVE OneOutstanding
    OBVIOUS
  <2>1. InFlight = AllMarks(Own)
    BY EverywhereIsMarks DEF Typed
  <2>2. \A a, b \in InFlight : a = b
    BY <2>1, MarksOfPlaces DEF OwnOnce
  <2>3. ASSUME NEW a \in InFlight
        PROVE  pending_requests # <<>> /\ a.id = Head(pending_requests).id
    <3>1. PICK p \in Own : a.id = p.id /\ \A T : p \in T => Somewhere(T)
      BY <2>1, MarkIsOf
    <3>2. p \notin Strays
      BY <3>1 DEF OwnOnce
    <3>3. p \in Of(pending_requests)
      BY <3>2 DEF Strays
    <3>4. QED
      BY <3>1, <3>3 DEF Of
  <2>4. QED
    BY <2>2, <2>3 DEF OneOutstanding
<1>4. QED
  BY <1>1, <1>2, <1>3, PTL DEF Spec

\* Responses carry no id: that the callback of a request runs on its own answer
\* rests on nothing else being anywhere.
THEOREM AnswersReachTheirCallbacks == OneOwnHolds => (Spec => []CallbackGetsItsAnswer)
<1> SUFFICES ASSUME OneOwnHolds PROVE Spec => []CallbackGetsItsAnswer
  OBVIOUS
<1>1. Init => Typed /\ Nested /\ OwnOnce
  BY OwnOnceInv
<1>2. Typed /\ Nested /\ OwnOnce /\ [Next]_vars => (Typed /\ Nested /\ OwnOnce)'
  BY OwnOnceInv
<1>3. Typed /\ Nested /\ OwnOnce => CallbackGetsItsAnswer
  <2> SUFFICES ASSUME Typed, Nested, OwnOnce, Running("response")
               PROVE  /\ pending_requests # <<>>
                      /\ Head(Head(stack).arg).id = Head(pending_requests).id
    BY DEF CallbackGetsItsAnswer
  <2>1. stack # <<>> /\ Head(stack).at = "response"
    BY DEF Running
  <2>2. Head(stack) \in GoodFrame
    BY <2>1, PoppedIsCallbacks DEF Typed, SocketTyped
  <2>3. Load(Head(stack)) \in AnswerPdu /\ Head(Head(stack).arg) = Load(Head(stack))
    BY <2>1, <2>2, Loads
  <2>4. Load(Head(stack)) \in Own
    BY <2>3, OwnPdus DEF OneOwnHolds
  <2>5. Load(Head(stack)) \notin Strays
    BY <2>1, PopStack DEF Typed, OwnOnce
  <2>6. Load(Head(stack)) \in Of(pending_requests)
    BY <2>4, <2>5 DEF Strays
  <2>7. QED
    BY <2>3, <2>6 DEF Of
<1>4. QED
  BY <1>1, <1>2, <1>3, PTL DEF Spec

-----------------------------------------------------------------------------
(***************************************************************************)
(* The head is on its way.                                                 *)
(***************************************************************************)
\* handleResponse() knows the answer of the head.
LEMMA OwnIsAnswered ==
    ASSUME Typed, OwnOnce, HandleUnanswered
    PROVE  Received \notin Own
<1>1. /\ stack # <<>> /\ Received \in InPdu /\ Received = Load(Head(stack))
      /\ ~ IsEvent(Received) =>
             (pending_requests # <<>> => ~ Answers(Received, Head(pending_requests)))
  BY ReceivedIsIn DEF HandleUnanswered, Running, Typed, IsEvent
<1>2. SUFFICES ASSUME Received \in Own PROVE FALSE
  OBVIOUS
<1>3. Received \notin Strays
  BY <1>1, PopStack DEF OwnOnce, Typed
<1>4. Received \in Of(pending_requests)
  BY <1>2, <1>3 DEF Strays
<1>5. pending_requests # <<>> /\ Received.op = Head(pending_requests).op
  BY <1>4 DEF Of
<1>6. Received.kind \in {"response", "error"}
  BY <1>1, <1>2, OwnPdus
<1>7. QED
  BY <1>1, <1>5, <1>6 DEF Answers, IsEvent

LEMMA HeadSentStep ==
    ASSUME OneOwnHolds, ~ ReconnectPending, Typed, Nested, OwnOnce, HeadSent, [Next]_vars
    PROVE  HeadSent'
<1> SUFFICES ASSUME s' # "Disconnected", pending_requests' # <<>> PROVE Somewhere(Own)'
  BY DEF HeadSent
<1>0. /\ SomewhereWith(Own, stack) = Somewhere(Own)
      /\ OnceWith(Own, stack) /\ ~ SomewhereWith(Strays, stack)
  BY DEF OwnOnce, Once, Somewhere
<1>1. ASSUME NEW op \in AppOpcode, AppRequest(op) PROVE Somewhere(Own)'
  <2>1. /\ Callbacks(stack) /\ DoRequest(op, stack) /\ op \in Opcode
        /\ s # "Disconnected"
    BY <1>1, CallsFromCallbacks DEF AppRequest, Opcode, Typed
  <2>2. QED
    BY <1>0, <2>1, DoRequestOwn DEF HeadSent, Keeps
<1>2. CASE HandleSocketConnected
  <2>1. /\ stack # <<>> /\ Load(Head(stack)) = NoPdu
        /\ Callbacks(Tail(stack)) /\ DoRequest(MtuRequest, Tail(stack)) /\ MtuRequest \in Opcode
    BY <1>2, ConnectedTyped
  <2>2. /\ OnceWith(Own, Tail(stack))
        /\ ~ SomewhereWith(Strays, Tail(stack))
        /\ Somewhere(Own) <=> SomewhereWith(Own, Tail(stack))
    BY <2>1, PopStack, OwnPdus DEF OwnOnce, Typed
  <2>3. s # "Disconnected"
    BY <2>1, DoRequestTyped
  <2>4. QED
    BY <2>1, <2>2, <2>3, DoRequestOwn DEF HeadSent, Keeps
<1>3. CASE ResponseRest
  BY <1>3, ResponseRestOwn DEF OneOwnHolds
<1>4. ASSUME NEW i \in DOMAIN pending_requests, AppCancel(i) PROVE Somewhere(Own)'
  <2>1. pending_requests # <<>> /\ Keeps(Own, stack) /\ s' = s
    BY <1>4, CancelOwn, OwnPdus DEF OneOwnHolds, socketVars
  <2>2. QED
    BY <1>0, <2>1 DEF HeadSent, Keeps
<1>5. CASE ~ Requesting /\ ~ Cancelling
  <2>1. /\ pending_requests' = pending_requests
        /\ Keeps(Own, stack)
        /\ s # "Disconnected" \/ AppConnect
    BY <1>5, OtherStepsMove, StraysAreOwn, OwnIsAnswered
  <2>2. ~ AppConnect
    BY <2>1 DEF AppConnect
  <2>3. QED
    BY <1>0, <2>1, <2>2 DEF HeadSent, Keeps
<1>6. QED
  BY <1>1, <1>2, <1>3, <1>4, <1>5 DEF Requesting, Cancelling

\* On a live link the oldest request has been sent and is not answered yet, so
\* that the answer that sends the rest will come; this needs that a link is
\* only opened with nothing left to answer.
THEOREM TheHeadIsInFlight ==
    OneOwnHolds /\ ~ ReconnectPending => (Spec => []HeadInFlight)
<1> SUFFICES ASSUME OneOwnHolds, ~ ReconnectPending PROVE Spec => []HeadInFlight
  OBVIOUS
<1>1. Init => Typed /\ Nested /\ OwnOnce /\ HeadSent
  BY OwnOnceInv DEF Init, HeadSent
<1>2. Typed /\ Nested /\ OwnOnce /\ HeadSent /\ [Next]_vars =>
          (Typed /\ Nested /\ OwnOnce /\ HeadSent)'
  BY OwnOnceInv, HeadSentStep
<1>3. Typed /\ HeadSent => HeadInFlight
  BY EverywhereIsMarks, MarksOfPlaces DEF Typed, HeadSent, HeadInFlight
<1>4. QED
  BY <1>1, <1>2, <1>3, PTL DEF Spec
=============================================================================
