# Verification of libgato

libgato is a Qt library for Bluetooth Low Energy centrals: it scans for
peripherals over HCI, connects to them over L2CAP, and speaks the ATT/GATT
protocol to discover, read, write and be notified of characteristics. This
directory holds TLA+ models of it, TLC configurations that check them on small
instances, and theorems about them checked by TLAPS. Line numbers refer to the
files in `src/`.

## The system

Everything runs in one thread, driven by the Qt event loop. There are no locks,
no threads and no timers; nothing is persisted. What makes the code hard is
*re-entrancy* (a Qt signal is a direct call: the slots of `disconnected()` run in
the middle of whatever function noticed the failure, and may call the library
again), *failures in the middle of a function*, and *conversations* that span
many requests and responses cut into pages by the server.

| component | state | operations | talks to |
|---|---|---|---|
| `GatoSocket` (gatosocket.cpp) | connection state, read and write queue, two `QSocketNotifier`s | `connectTo`, `close`, `send`, `receive`, handlers of both notifiers | kernel; emits `connected`, `disconnected`, `readyRead` |
| `GatoAttClient` (gatoattclient.cpp) | queue of pending requests, next id, MTU | one `request...` per ATT request, commands, `cancelRequest`, handlers of the socket's signals | calls the socket; calls back the maker of each request; emits `connected`, `disconnected`, `attributeUpdated` |
| `GatoPeripheral` (gatoperipheral.cpp) | discovered services, characteristics, descriptors; three maps from handles to their owners; one map of pending requests per kind; pending notification settings; advertising data | connect, disconnect, three discoveries, reads, writes, `setNotification`, handlers of the answers | calls the ATT client, which calls it back; emits what was discovered or read |
| `GatoService`, `GatoCharacteristic`, `GatoDescriptor` | implicitly shared values: UUID, handle range, children | accessors | stored in `GatoPeripheral` |
| `GatoCentralManager` (gatocentralmanager.cpp) | HCI device, notifier, filters, known peripherals | start and stop scanning, handler of advertising reports | kernel; creates `GatoPeripheral`s; emits `discoveredPeripheral` |
| `GatoUUID`, `GatoAddress` | values | conversion, comparison, formatting | all |
| helpers.cpp | none | byte-level reading and writing | ATT client, peripheral |
| build files, packaging | none | none | |

What makes each correct, and what can go wrong:

* **GatoSocket** — packets leave in the order of `send()`, each once; what
  belongs to a lost link is dropped; every packet read is announced; the write
  notifier is on whenever there is something to write or a connection to
  finish. At risk: `send()` and `writeNotify()` go on after `transmit()` has
  closed the socket and run the application's slots.
* **GatoAttClient** — ATT allows one outstanding request, and responses carry
  no id. At most one request is out and it is the head of the queue; every
  callback gets its own answer; every request is answered or the link ends;
  every indication is confirmed once. At risk: callbacks run before the
  dequeue, links end with requests pending.
* **GatoPeripheral** — what is announced as discovered is what the server has,
  however it cuts its responses; the owner maps agree with the services; no
  `Q_ASSERT` fails; what is asked for is done to the right handle and reported.
  At risk: discoveries that overlap, ends of ranges patched afterwards,
  handles at the limit of 16 bits, pages without a usable entry, requests that
  outlive their link and are answered on the next.
* **GatoCentralManager** — an open HCI device is scanning and listened to;
  what a device advertises is read as it was sent and kept; exactly the
  peripherals the scan was started for are announced. At risk: five system
  calls that may fail one by one, two signals from the middle of handling an
  event whose slots stop the scan or start another, a new filter set while the
  old scan is being stopped.
* **GatoUUID, helpers, the parsers of GatoAttClient** — numbers, UUIDs of three
  lengths and lists of items survive the wire in both directions. At risk: byte
  order, offsets, lengths, values without a short form.

## The models

### Call stacks

A function that emits a signal is cut where the signal is emitted. `stack` holds
the *frames* still to run, innermost first: the suspended rest of `send()` or
`writeNotify()`, a slot still to be called, a callback. The event loop delivers
nothing until the stack is empty (`Idle`). Operations are written as fragments
with a parameter `k`, the frames left when the fragment is done, so that the
same definition of `Send` serves the application, a slot and a handler. Slots
that are called last in their handler, such as those of `connected()`, need no
frame of the caller: what they call is a call from the idle event loop.

A deleted notifier may still be called (`writeNotifier->setEnabled()` after
`close()`); the outcome is either nothing visible or the end of the process
(frame `abort`, after which nothing happens). For this reason, and because the
bounds may leave an application with nothing to do, the runs do not check for
deadlock.

### Modules

| module | models |
|---|---|
| `GatoSocket` | the socket as fragments over its variables, with the kernel's side of the link (`outbound`, `inbound`). Every operation and both handlers, split by outcome. |
| `TxChannel` | what the sending side promises: an abstract FIFO that is dropped as a whole when the link ends. |
| `SocketClient` | the socket closed off by a client that connects, sends and closes from the event loop or from slots, that may send when it is connected and after each packet it takes, as `GatoAttClient` does, and a peer that talks. |
| `GatoAttClient` | the ATT client over `GatoSocket` (it EXTENDS it, both share the link and the stack), an application, and a server that answers in order and sends notifications, indications and, if it is a client too, requests. |
| `AttQueue` | what the ATT client promises: requests one at a time, in order, at most once. |
| `GatoPeripheral` | the peripheral over the promise of `AttQueue`: a queue of requests of which the head is answered, and which outlives its link. The server has a fixed database and cuts responses as it likes. |
| `GatoUUID` | UUIDs as their 16 bytes, their short forms, and the byte-level helpers. No state: used by the next two. |
| `GatoCentralManager` | scanning: the HCI device, the controller, the kernel's filter and unread events, the handler of reports with its two places where slots run, the parser of advertising data field by field, and the peripherals found. |
| `AttPdu` | the packets: what each request function streams, what the parsers make of an answer, and a server that packs and reads them after the Attribute Protocol. |
| `MCSocketClient`, `MCGatoAttClient`, `MCGatoPeripheral`, `MCGatoCentralManager`, `MCAttPdu` | instances for TLC. |
| `SocketClientProofs`, `GatoAttClientProofs`, `AttExchangeProofs`, `AttQueueProofs`, `GatoPeripheralProofs`, `GatoCentralManagerProofs`, `GatoUUIDProofs`, `AttPduProofs` | the theorems. |

Some definitions have a *faulty variant* before them: a plausible bug of the
same operation, against which the property that guards it was tested.

`GatoSocket`'s variables are the members of the class with their names; the
notifiers are `writeEnabled` and the state (they exist iff the socket is not
disconnected). PDUs are `[kind, op, id]`; the id is a ghost that ties a request
and its response to the queue entry, no guard reads it. `GatoPeripheral`'s five
`pending_*_reqs` maps are one map (ids are unique) whose kind is the opcode of
the request.

A link begins with the exchange of the MTU, behind whatever requests earlier links
have left in the queue; `connectPeripheral()` does not look at them. `out` says
whether the head is on its way, on the link or in the socket, which keeps the packet
of a write that failed inside `send()` (finding 1): only then is anything answered
(finding 2). The entries of such requests were cleared with
their link, all but the one that is inserted after that, and an answer without
an entry is dropped (`HandleNotMade`). `handlePrimary()` looks for none, so that a
discovery of all services left over from an earlier link is handled like one made
on this. `OfThisLink` tells the requests of a link from older ones: they
are behind its MTU exchange. Two ghosts serve the properties: `announced`, the
services whose characteristics were announced since they were last asked for, and
`bare`, the characteristics for which a response ever held the value alone.
`service_uuids` holds the services discovered by their handles; what a device
advertises, which goes into the same member, is in `GatoCentralManager`, where
`DiscoverService` stands for line 643. A UUID in the list of a discovery is null
or not, which is all its handler looks at.

The list of a discovery by UUID is always empty: the value
searched for is streamed with four bytes of length in front
(gatoattclient.cpp:179), so no server finds a service with it, and
lines 670-689 never run. `services` nests characteristics and their descriptors as the classes
do. An asserted condition is a guard of the action, and `AssertionsHold` says
that no action is held back by one.

In `GatoCentralManager`, `at` says how far `_q_readNotify()` has come; what it
still has to do is in `reports` and `data`, which stand for its buffer and
position, because slots cannot reach those. Whatever the application may call,
it may call from a slot (`AppMay`). Peripherals are found by the address without
its type, as `operator==` of `GatoAddress` compares them. Each of the commands to
the controller may fail, and one that fails may have been carried out; the
result of the one that stops the scan is ignored, so `scanEnabled` may stay on
after a stop. `heard` and `asked` are ghosts: what was sent, as the sender meant
it, and what the open scan was started for; so is `discovered`, the services found
by discovering them on a device. They are what the properties compare
with. An advertisement is a list of fields and what follows the last whole one;
`AdvertisementAssumption` says how data is told apart like that (a listed UUID
fits its spelling, a value fits its length, the tail begins with no whole field),
which excludes no data: what fits no list is bytes. `Beyond` stands for the bytes
behind the data of a report, which a list that is not a multiple of its UUIDs'
size reaches (gatoperipheral.cpp:480): any fifteen, since nothing says what they are.

`AttPdu` compares two sides written independently: the client's, translated from
the code, and the server's, from the Attribute Protocol. Who may send when is
left to `GatoAttClient`.

### Composition

`SocketClient` and `GatoAttClient` both extend the same `GatoSocket`.
`GatoAttClient` is checked to implement `AttQueue` (`OneAtATime`), and
`GatoPeripheral` is written against it: its `requests` is a queue answered from
the head, appended to at the tail, whose answers come in order. That
`GatoAttClient` keeps this promise is a theorem (`RequestsAreQueued`), so what
is proved of the peripheral rests on a promise kept for all constants. `AttPdu`
and `GatoCentralManager` both extend `GatoUUID`.

## The runs

| run | question | outcome |
|---|---|---|
| `SocketReentrant` | Do packets stay in order, once each, and announced, and is there always somebody to write what is queued, with failing writes and slots that send, close and (from inside `send()`) reconnect? `TypeOK`, `ReadQueueDrained`, `WriterAwake`, `FifoChannel` (refinement of `TxChannel`), `AttemptEnds`, `QueueMoves` | holds |
| `SocketDropsAllData` | Does a closed socket hold no data, as the comment in `close()` says? | violated: finding 1 |
| `AttReentrant` | Is at most one request out and is it the head's, are confirmations kept, under every fault, with all calls from slots and callbacks and links opened over stale requests? `TypeOK`, `OneOutstanding`, `ConfirmationNotLost`, `OneAtATime` (refinement of `AttQueue`) | holds |
| `AttProgress` | On links opened with an empty queue, is every request answered by its own answer, and every indication confirmed once? `HeadInFlight`, `ConfirmedOnce`, `CallbackGetsItsAnswer`, `RequestEnds` | holds |
| `AttReconnect` | Is the head of the queue on its way also on a link opened with requests pending? | violated: finding 2 |
| `PeripheralDiscovery` | Is what is announced what the server has, do all assertions and maps hold, and do discoveries end, also by UUID and with a single announcement, for an application that waits for interfering discoveries, a server that cuts responses anywhere, failing writes and links opened over requests of earlier ones? `TypeOK`, `AssertionsHold`, `NotificationsAreKnown`, `PendingMatchesRequests`, `ServicesComplete`, `CharacteristicsComplete`, `DescriptorsComplete`, `AnnouncedAfterLast`, `NotificationIsConfigured`, `DiscoveryIsAnnounced`, `FilteredDiscoveryEnds` | holds |
| `Scanning` | Is an open device always scanning and listened to, whatever fails or is called from a slot? Is advertising data read as it was sent? Is exactly what the scan was started for announced? `TypeOK`, `ScanIsWhole`, `ServicesHeard`, `NameHeard`, `AnnouncedIffAskedFor` | holds |
| `Wire` | Does the server understand the requests, and the client the answers and events? `TypeOK`, `QuestionsAreUnderstood`, `AnswersAreUnderstood` | holds |
| `PeripheralOverlap` | Do the assertions hold for any application? | violated: finding 3 |
| `PeripheralBareValue` | Are the descriptors of a characteristic without any its own? | violated: finding 4 |
| `PeripheralDescriptorRead` | Is the value of a known descriptor reported? | violated: finding 5 |
| `PeripheralConfiguration` | Do configurations go to configuration descriptors? | violated: finding 6 |

### Bounds

* Socket: two distinguishable packets show overtaking, three packets on a link
  give a queue with a middle; the unread packets are two, since the second must
  find the queue empty again.
* ATT client: two links, because everything that can go wrong with a link is
  either inside it or carried over to the next; three ids for requests, of which
  the MTU exchange of each link takes one (so one link has one out, one waiting
  and one made by a callback, or two links share what is left); one packet of
  the peer ahead of what it answers; two MTUs, below and above the default.
* Peripheral: `MCDb` has two services, the last ending with the last handle, two
  characteristics, so that one is last and one is not, two descriptors on
  the first, so that pages cut between them, and none on the second, so that its
  value comes alone; every nonempty prefix of the
  matches is a page. `MaxHandle` stands for 0xFFFF and arithmetic wraps there.
  `MaxRequests` bounds the ids: application calls, links, and the discovery of
  descriptors once more from handle 1 (finding 4), which would go on for ever.
  Eight are enough for the discovery of everything, and, with less discovered, for
  lost links, reads, writes and settings in between. A discovery by UUID asks for up to
  two services: one announcement for one and for several conversations.
  `CutByBound` is the state in which such a search has been cut; the two liveness
  properties except it, since the model's queue is blocked there and the code's is not:
  it sends the next request behind all others.
* Scanning: two devices (one of them known to the application by an address of
  the other type) and two reports, in one event, in two, or one while the
  other's slots run; two calls that start a scan, so that one replaces the
  other. Five forms of advertising data: with each length of UUID, padded, cut
  off in the middle of a field, empty, with both kinds of name, and with lists
  that are not a multiple of their UUIDs, where what follows is another field or,
  at the end, zeros or bytes that make a service out of the rest. Three filters:
  everything, one service, two services.
* Wire: handles with two different bytes and the largest; UUIDs of 2, 4 and 16
  bytes; values of no, two and three bytes. The `Mtu` of 44 leaves room for two
  items with long UUIDs in every kind of answer, which is what `MaxItems`
  allows.

### Assumptions of single runs

* `SocketReentrant`: `ReconnectsUnder = {"send"}`: slots of `disconnected()`
  call `connectTo()` from inside `send()`, but not from inside `writeNotify()`.
  There they would get a new socket whose write notifier is disabled when
  `writeNotify()` goes on (line 258): the attempt never ends. No comment or test
  promises otherwise, so it is a hazard and not a finding.
* `AttProgress`: writes do not fail, nobody connects over stale requests, and
  nobody cancels the request that is out (`CancelsHead = FALSE`, in all runs:
  nothing in the repository calls `cancelRequest()`; with it, an answer is
  matched against a request that was not sent). A request whose callback has
  been called and has not returned is never cancelled, even then: the handler
  goes on with a reference to its entry (line 573) and dequeues what is the head
  by then.
* `PeerRequests` and `RawOpcode` are not combined: a raw request takes any
  packet that is not an event for its answer.
* `PeripheralDiscovery`: `Disciplined = TRUE`: services are not rediscovered
  while services or characteristics are being discovered, nor characteristics of
  the same service, nor descriptors of the same characteristic twice at once; and
  descriptors are asked for only after their service's characteristics were
  announced. It waits as well for a discovery of services left over from an
  earlier link, because that may still be answered. Finding 3 is what happens
  otherwise.
* `Wire`: the types searched for have a short form (`PduAssumption`), as those
  of all callers do; `toUInt16()` would cut off others. `QuestionsAreUnderstood`
  excepts the value of FindByTypeValue, which is streamed with its length in
  front, and with it the theorem `QuestionsAlwaysUnderstood`.
  `AnswersAreUnderstood` asks of `parseHandleInformation()` only that every
  range is found: it steps by two bytes instead of four (line 481), so that each
  is followed by another range made of the end and what comes next, in the last
  one a byte behind the packet (`behind`).
* `Scanning`: the system's `close` succeeds; the list that is not a multiple of its
  UUIDs is followed by another field, so that what is read behind it is inside
  the packet. Reports that come after a slot has stopped the scan are announced
  without a filter; `AnnouncedIffAskedFor` speaks of scans that are on.

### Fairness

* Code that has been called runs on: weak fairness of `Continue`.
* The event loop serves every ready notifier each time it polls. A notifier is
  not ready while a slot runs, so this is strong fairness of `WriteNotify` and
  `ReadPacket`.
* The server answers what it was asked (weak fairness of `ServerAnswers`, of
  `Answer` in `GatoPeripheral`, which is possible only on a link over which
  requests are sent: `DiscoveryIsAnnounced` and `FilteredDiscoveryEnds` say
  `out`). There is no timeout in the code; with a server that keeps silent,
  requests wait for ever.
* Neither the application nor the rest of the peer's traffic is fair.

## Findings

1. `send()` queues the packet after a failed write has closed the socket
   (gatosocket.cpp:126): it is sent first thing on the next link, and the
   deleted notifier is used.
2. `handleSocketDisconnected()` keeps `pending_requests` (gatoattclient.cpp:553):
   after a reconnection nothing is sent, not even the MTU exchange, unless the
   packet of the first is still with the socket (finding 1).
3. `discoverServices()` during a discovery of characteristics makes the
   assertion at gatoperipheral.cpp:704 fail.
4. A response with only the characteristic's value restarts the discovery of
   its descriptors at handle 1 (gatoperipheral.cpp:781, 810). A characteristic
   without descriptors always gets such a response, and its discovery never ends.
   A find information response has one UUID format (gatoattclient.cpp:436-450), so
   that a 128 bit value before a 16 bit descriptor makes one too.
5. Reads of descriptors are recorded under the characteristic's handle
   (gatoperipheral.cpp:350): the value is never reported.
6. `setNotification()` with a known configuration writes the characteristic's
   value, and always the enabling configuration (gatoperipheral.cpp:446).

## The theorems

`SocketClientProofs` proves, for every set of packets, all bounds, whether or
not writes fail and wherever slots reconnect:

* `TypeCorrect`: `Spec => []TypeOK`.
* `NoPacketLeftBehind`: `Spec => []ReadQueueDrained`.
* `SocketIsFifo`: `Spec => FifoChannel`, the refinement of `TxChannel`.
* `WriterStaysAwake`: `"write" \notin ReconnectsUnder => (Spec => []WriterAwake)`.

The inductive invariant `IInv` adds to the types: at most one frame is on the
stack (a second call can only be suspended above the first if its write fails,
and a socket under a suspended call is never connected: `SlotsOnOpenSocket`),
so that `Tail(stack)` is empty and what is popped leaves the event loop in
control; a suspended `send()` has its packet; and the read queue holds exactly
one packet while `readyRead()` is being delivered and none otherwise. Without
the last, "empty when idle" would not follow: that `readNotify()` emits only for
the first packet is harmless just because the slot takes it before anything
else can be read. The fragments have a lemma each (`ClosePreserves`,
`EnqueuePreserves`, `SendPreserves`), the actions one more, and `StepPreserves`
puts them together.

For the refinement, what was accepted is `outbound \o writeQueue` and what was
delivered is the length of `outbound`. Two lemmas on sequences carry it:
queueing appends (`QueueIsAccept`) and moving the head of the queue to the end
of `outbound` leaves the whole as it is (`WriteIsDeliver`). Closing is `Drop`,
a direct send is `AcceptAndDeliver` because the queue is empty then.

`WriterStaysAwake` uses the second invariant `Awake`: without slots that reconnect
from inside it, a suspended `writeNotify()` stands on a closed socket only, where
`setEnabled()` has no effect; a suspended `send()` enables the notifier of
whatever socket there is when it goes on; and everywhere else "work to do"
implies "enabled".

### GatoAttClient

For every set of opcodes, all bounds, every server, whatever fails and whatever
slots and callbacks call:

| theorem | states | under |
|---|---|---|
| `GatoAttClientProofs!TypeCorrect` | `[]TypeOK` | |
| `AttExchangeProofs!NoConfirmationIsLost` | `[]ConfirmationNotLost` | |
| `AttExchangeProofs!IndicationsAreConfirmedOnce` | `[]ConfirmedOnce` | `~ WriteMayFail` |
| `AttExchangeProofs!OneRequestAtATime` | `[]OneOutstanding` | `OneOwnHolds` |
| `AttExchangeProofs!AnswersReachTheirCallbacks` | `[]CallbackGetsItsAnswer` | `OneOwnHolds` |
| `AttExchangeProofs!TheHeadIsInFlight` | `[]HeadInFlight` | `OneOwnHolds /\ ~ ReconnectPending` |
| `AttQueueProofs!RequestsAreQueued` | `OneAtATime`, the refinement of `AttQueue` | `OneOwnHolds` |

The hypotheses are the values the runs give the switches, and each is needed.
`OneOwnHolds` is `~ CancelsHead /\ (RawOpcode = {} \/ ~ PeerRequests)`: a request
that is out and cancelled leaves an answer for the next one, and a raw request
takes a request of the peer for its answer. Without `~ ReconnectPending` the head
of a new link is not sent (finding 2). With failing writes a confirmation can be
lost, with its link, or kept in `writeQueue` of a socket already closed and sent
on the next one (finding 1), where nothing is owed.

All of this is about where the PDUs of an exchange are. A PDU is in one of five
places: the socket's two queues, the kernel on either side of the link, or the
argument of a suspended call. The proofs see each as a sequence, and ask whether
it `Has` one of a set of PDUs and has no more than `One`; `Somewhere` and `Once`
say so of all five together. Every fragment of the socket moves PDUs and makes
none, so each has two lemmas: that types are kept (`SendTyped`, ...) and, for any
set of PDUs at all, that there are not more of them afterwards, nor less on a
link that is still there (`SendMoves`, ...: `Shrinks` and `Keeps`). With these
the steps of the client need to be looked at only where they make a PDU or take
one out. `AllMarks` then turns `Once` into the sets of tokens by which the
properties count. The invariants:

* `Typed` — beyond the types, what may be where: only requests, confirmations and
  commands go out; only answers and events come in; nothing but requests and
  their answers has an id. Below the top of the stack are only callbacks.
  `Nested` adds that a callback runs while its request is still the head, which
  is what makes the dequeue behind it (line 574) safe, and that only
  one slot is suspended above it.
* `ConfirmationOnItsWay` — what is owed is somewhere, and the link is open.
  Inductive with `Typed` alone. `ExchangeOnce`, without failing writes, adds that
  it is there once and that nothing is there when nothing is owed; it needs that
  `send()` is never suspended then, since a `send()` that goes on after its link
  has ended takes the packet to the next.
* `OwnOnce` — of the client's requests and their answers there is one at most, and
  it belongs to the head of the queue. Neither half is inductive without the
  other: the next request is sent when the answer has arrived, and only because
  that was the only one is there none left. `OneOutstanding` and
  `CallbackGetsItsAnswer` follow.
* `HeadSent` — with a link and a queue there is one at least. The callback's frame
  holds the answer as long as the head is in the queue, and the step that dequeues
  it sends the next.
* `Increasing`, `Bounded` — ids grow along the queue and are bounded by the calls
  and connections there have been. `AttQueue` wants an id that was never used,
  and this is how a step of the client provides one.

`StepIsQueued` puts the refinement together: what is out is the id of the head if
a PDU of the client is anywhere (`OutFollows`, from `OwnOnce`), and each step is
`Issue`, `Answered`, `Cancel` or the loss of what was out, or changes nothing the
abstract queue sees.

### GatoPeripheral

For every database, every way to cut responses into pages, any bounds, wherever
writes fail, and over links opened with whatever earlier ones left in the queue:

| theorem | states | of |
|---|---|---|
| `TypeCorrect` | `[]TypeOK` | any application |
| `PendingIsRequested` | `[]PendingMatchesRequests` | any application |
| `FilteredIsAnnouncedLast` | `[]AnnouncedAfterLast` | any application |
| `NoAssertionFails` | `[]AssertionsHold` | `Disciplined` |
| `NotificationsFindTheirCharacteristic` | `[]NotificationsAreKnown` | `Disciplined` |
| `AnnouncedServicesAreAll` | `[]ServicesComplete` | `Disciplined` |
| `AnnouncedCharacteristicsAreAll` | `[]CharacteristicsComplete` | `Disciplined` |
| `AnnouncedDescriptorsAreAll` | `[]DescriptorsComplete` | `Disciplined` |
| `NotificationsAreConfigured` | `NotificationIsConfigured` | `Disciplined` |

`Disciplined` is not a convenience: without it the assertion fails (finding 3).
The last two say what becomes of descriptors for every server: none is missed, and
every configuration of the characteristic is written. That no other descriptor is
announced, or written to, holds unless a response for the characteristic held its
value alone (`bare`); with one, the discovery goes on from handle 1 and
`DescriptorsAreItsOwn` fails (the run `PeripheralBareValue`, finding 4). A bogus
descriptor of one characteristic may be the configuration of another, and is
forgotten with the first, so that while there is any, a configuration is
written only if its descriptor is still mapped.

The databases are those GATT allows (`DbAssumption`, `CharacteristicAssumption`,
`DescriptorAssumption`): services do not overlap and contain their
characteristics; a characteristic ends before the next or with its service, its
value behind its declaration, its descriptors behind its value. A
characteristic need not have descriptors. The last
handle may be in use, and `Following` wraps there. One descriptor at most of a
characteristic is its configuration; the loop of `finishSetNotifyOperations`
(gatoperipheral.cpp:570-576) may find more when there are bogus ones, and the model
writes to all of them, in their order.

The invariants, each inductive with those before it:

* `Typed` — types, and `Queued`: ids grow; on a live link every request behind its
  MTU exchange that needs an entry has one (`Current`); an entry without a request
  is that of a null UUID. A write that fails clears the maps, then the entry of
  its own request is inserted. That request stays in the queue, ahead of the next
  MTU exchange, and may even be answered there, with its entry. Other
  requests of earlier links have none.
* `Agreed` — what is known is the server's (`OfServer`); what the three maps
  hold is held by its service, with that value or descriptor (`Mapped`); and
  what a discovery still asks for is beyond all it has found, and it is the only
  one to find that (`Ahead`). It speaks of the requests whose answer will be
  used (`Out`): those with an entry, and those whose handler looks for none.
  `Ahead` is the heart of it: `handleCharacteristic` builds new characteristics
  over whatever was there, without descriptors, and does not touch
  `descriptor_to_characteristic`. Only because nothing was there does that map
  still agree with the services. This is what `Disciplined` is for.
* `Covered` — a discovery of services skips nothing: every service that begins
  below what it asks for is known, and a request from handle 0 is made only
  when all are. When the server has no match, nothing is missing.
* `Surveyed` — the same for characteristics (`NoneSkipped`); each that is known ends
  before the next that is known, or with its service (`Tiled`); its value is mapped
  (`Valued`). `Tiled` holds in the middle of a discovery, when ends are not those
  of the server yet: `Extended` shortens the last one of the page before
  (`ExtendedEnds`). When all are found it is the server's definition of an end.
* `Described` — the descriptors known are the characteristic's own, unless a value
  came alone (`OwnDescriptors`); a service whose characteristics have been announced
  has them all, and none of them is looked for (`Whole`); a discovery of descriptors
  has found all below what it asks for, asks up to the end the server means, and
  is beyond the declaration unless a value came alone (`Describes`). That end is
  taken from the characteristic when the application asks, and a discovery of
  characteristics can still shorten it: hence `Disciplined` asks for descriptors
  only of announced services (`EndIsFinal`), and a discovery
  that would build this characteristic anew must be behind in the queue
  (`Precedes`): its answer comes when the descriptors are announced.
* `Named` — the services in `service_uuids` are those of the server and include all
  that are known.
* `DescriptorsMapped` — as long as no value came alone, every descriptor held is
  mapped, so that `writeValue()` knows the configuration.

A request belongs to no discovery but its own, so that most steps are dealt with
by one lemma for each of these invariants (`StaysAhead`, `StaysCovered`,
`SurveyStays`, `DescribedStays`, on top of `Keeps`) and only the two or three that find, ask or
forget need an argument. Maps are written with `With` and `Without`; what these
do to domains and values is proved once.

### The other modules

`GatoCentralManagerProofs` proves, for any devices, advertising data, bytes
beyond it, filters and bounds:

| theorem | property |
| --- | --- |
| `ScanStaysWhole` | `ScanIsWhole` |
| `TypeCorrect` | `TypeOK` |
| `EveryServiceIsHeard` | `ServicesHeard` |
| `TheNameIsHeard` | `NameHeard` |
| `WhatIsAskedForIsAnnounced` | `AnnouncedIffAskedFor` |

`ScanIsWhole` is inductive with the types of the three flags; only starting and
stopping a scan touch them, and each of the three ways a start can end gets a case.

The others come from `ManagerInv == Typed /\ Heard /\ Filtering`. None of the
properties is inductive: they speak of the time between reports, and what makes
them true then happens in between, a field at a time, with slots running.
`Heard` fills that gap. A peripheral `Knows` a list of fields if its services
contain what they list and what was discovered on their device (and nothing else if
the lists are whole), its flag says
whether one of them is a complete name, and its name is that of the latest that
counts. Peripherals whose report is not being parsed know the fields of all that
was `heard`. The one whose report is (`Parsing`, also while a slot of
nameChanged() runs) knows in addition the first `k` fields of it for some `k`,
and the data that is left is `Rest(ad, k)`, the bytes of the others and the tail
(`Parsed`). `FieldAhead` says that the parser, looking only at that data, finds
field `k + 1` and where it ends; `KnowsList`, `KnowsName` and `KnowsOther` say
that each alternative of `ParseField` makes of a peripheral that knows a list one
that knows the list with the field appended; `NoFieldAhead`, that the parser stops
at the last field and not before, whatever the tail. `WholeReport` puts these
together where the filter is applied, and `Filtering` says that the filter is
then the list the scan was started for.

`GatoUUIDProofs` proves of the conversions, for every input: `NumberSurvives`
(a 16 bit number is read back from its two bytes), `UuidSurvives` (a UUID is
read back from its long form and, if it has one, from its 16 bit form) and
`SpellingsAreRead` (it is read back from whatever length a list spells it in). The
short form needs that such a UUID is all base but two bytes (`UuidIsShort`),
which is what `minimumSize` tests and `toUInt16()` does not.

The same module holds what there is to say of `FlattenSeq()`, which puts fields
and items together: it is a recursive function, and no theorem on induction can be
cited for it, since those take an operator as a parameter. What can be used
instead is that a nonempty set of numbers has a smallest one (`SmallestNumber`,
from the well-foundedness of `<`): two functions that solve the same recursive
equation have no first place to differ (`AccumulatesOnce`), and there is a
solution on every initial part of the list (`SomeAccumulation`). From these
follow the type of a flattened list, what one more sequence at its end or its
front adds (`FlattenLonger`, `FlattenFirst`), and where the items of equal length
lie in it (`FlattenItems`).

`AttPduProofs` proves, for all handles, types, UUIDs, values, MTUs and numbers
of items:

| theorem | property |
| --- | --- |
| `QuestionsAlwaysUnderstood` | `QuestionsAreUnderstood` |
| `AnswersAlwaysUnderstood` | `AnswersAreUnderstood` |
| `TypeCorrect` | `TypeOK` |

For the questions the invariant `PacketInv` says that what was sent is the packet
of the question; the rest is about that packet. `OneNumberPacket` and
`TwoNumbersPacket` say where things are in an opcode followed by one or two
numbers and a rest; `SingleMeant`, `RangeMeant` and `TypeMeant` bring the bodies
of the requests into that form.

For the answers it is `AnswerInv == Asking /\ Reading`: what the server has to say
is `Packable` for the question, a list of items of one length or a single item,
and what the client has got is what it reads in the packet of that.
`AnswersAreUnderstood` is not inductive, since it says nothing before the answer
has arrived. `WhatIsRead` is then a fact about packets: `PackedBody`,
`HeadedItems` and `BareItems` take one apart into an opcode, the length of the
items or a code for it, and the items; `PiecesOfItems` cuts the items off again
(with `FlattenItems`), and one lemma for each kind reads an item
(`InformationItem`, `GroupItem`, `CharacteristicItem`, `RangeItem`), whichever way
its UUID is spelled. For the ranges, read at every other byte and beyond the end
of the packet, `RangesAt` says what is found at any place: the number that is
there, or at the end some number of 16 bits, whatever the byte behind. That each
number read is one of 16 bits is the last part of `TypeOK` (`GotNumbers`). The first
parts bound the packets: `SentType` allows a request 8 bytes beyond the MTU, 4 for
the length in front of a value of FindByTypeValue and 4 because its range and type
take 4 more than the handle of the longest Write, whose value just fits.

The assumptions are those of the modules: bounds are natural numbers, switches
are Booleans, handles and the MTU have 16 bits, an answer has room for an item,
types searched for have a short form, values fit into a packet, and databases are
nested as described above.

### What stays with TLC

* Liveness, and with it fairness: `AttemptEnds`, `QueueMoves`, `RequestEnds`,
  `DiscoveryIsAnnounced`, `FilteredDiscoveryEnds`.

Every safety property of a passing run is stated by a theorem.

## Not modelled

* `GatoCentralManager`: the layout of the raw HCI event and the asserts on its
  lengths (gatocentralmanager.cpp:160-174); events are lists of reports.
* `GatoPeripheral`: `WriteWithoutResponse` (a command, which leaves no trace in
  the peripheral), the slot of notifications (it changes no state;
  `NotificationsAreKnown` is what its lookup relies on).
* Strings of UUIDs and addresses and their hashing, names as anything but bytes,
  the options of scans, which only go into HCI commands, and signal strength.
* Error responses other than "no more matches", and items of 128 bytes and more
  (see the hazards in `PROJECT.json`).
* Accessors of `GatoService`, `GatoCharacteristic` and `GatoDescriptor`.
* Re-entrancy by nested event loops (a slot that runs a `QEventLoop`), and
  deletion of objects by their own slots.
* Destructors: `close()` without listeners.
* Release builds, where `Q_ASSERT` is empty and execution goes on.
* Wrap-around of `next_id` after 2^32 requests.
* The security level, which is set and read at the kernel only; reads of zero
  bytes and short writes, which change nothing.
* Build and packaging.

## Plan

Done: all modules, and the theorems above, which cover the safety properties of
all passing runs. Liveness cannot be proved with the prover used and stays with
TLC.
