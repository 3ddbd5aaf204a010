---------------------------- MODULE GatoPeripheral ----------------------------
(***************************************************************************)
(* GatoPeripheral (gatoperipheral.cpp): discovery of services,             *)
(* characteristics and descriptors, reads, writes and notifications, each  *)
(* a request whose answer is handled later and may ask for the rest.       *)
(*                                                                         *)
(* GatoAttClient is taken by what AttQueue says of it: requests are        *)
(* answered one at a time in the order they were made, and those of a link *)
(* that was lost stay in the queue.  The server has a fixed database and   *)
(* chooses how much it puts in a response.  Handles have the width of      *)
(* MaxHandle: MaxHandle + 1 is 0.                                          *)
(*                                                                         *)
(* A failed Q_ASSERT ends the program, so an asserted condition is a guard *)
(* here, and AssertionsHold says that no step is ever held back by one.    *)
(* Slots of the application run last in their handlers, so what they call  *)
(* is a call from the idle event loop.                                     *)
(***************************************************************************)
EXTENDS Naturals, Sequences, FiniteSetsExt, Functions

CONSTANTS
    MaxHandle,     \* the largest handle, 0xFFFF in the code
    Db,            \* the server: service start |-> [end, chars: decl |-> [end, value, descs]]
    Cccd,          \* handles of client characteristic configurations in Db
    Notifying,     \* characteristics with PropertyNotify
    WriteMayFail,  \* whether the write of a request may fail and end the link
    Disciplined,   \* whether the application waits for discoveries that interfere
    MaxFilter,     \* bound: services a filtered discovery asks for
    MaxRequests    \* bound: ids after which nothing new is asked for: no calls,
                   \* no links, and no descriptors once more from handle 1

ASSUME PeripheralAssumption ==
    /\ {MaxHandle, MaxRequests} \subseteq Nat \ {0} /\ MaxFilter \in Nat
    /\ {WriteMayFail, Disciplined} \subseteq BOOLEAN

\* Handle ranges are nested: services do not overlap, and contain their
\* characteristics.
ASSUME DbAssumption ==
    \A sv \in DOMAIN Db :
        /\ sv \in 1..MaxHandle /\ Db[sv].end \in sv..MaxHandle
        /\ \A other \in DOMAIN Db : sv < other => Db[sv].end < other
        /\ \A c \in DOMAIN Db[sv].chars :
              /\ c \in sv..Db[sv].end
              /\ Db[sv].chars[c].value \in 0..MaxHandle
              /\ Db[sv].chars[c].descs \subseteq 0..MaxHandle

\* A characteristic ends before the next one or with its service, and has its
\* value behind its declaration.
ASSUME CharacteristicAssumption ==
    \A sv \in DOMAIN Db : \A c \in DOMAIN Db[sv].chars :
        LET later == {d \in DOMAIN Db[sv].chars : d > c} IN
        /\ Db[sv].chars[c].end = IF later = {} THEN Db[sv].end ELSE Min(later) - 1
        /\ Db[sv].chars[c].value \in (c + 1)..Db[sv].chars[c].end

\* Its descriptors are behind its value, and one at most is its configuration.
ASSUME DescriptorAssumption ==
    \A sv \in DOMAIN Db : \A c \in DOMAIN Db[sv].chars :
        /\ Db[sv].chars[c].descs \subseteq (Db[sv].chars[c].value + 1)..Db[sv].chars[c].end
        /\ \A d, e \in Db[sv].chars[c].descs \cap Cccd : d = e

VARIABLES
    connected,          \* state() == StateConnected
    services,           \* like Db, as far as discovered
    complete_services,
    service_uuids,      \* the UUIDs of those discovered, named by their handles
    characteristic_to_service,
    value_to_characteristic,
    descriptor_to_characteristic,
    pending,            \* the pending_*_reqs maps in one: id |-> handle it was made for
    pending_set_notify,
    requests,           \* GatoAttClient::pending_requests
    next_id,            \* GatoAttClient::next_id
    out,                \* the first request is on the link, or in the socket's queue for it
    signal,             \* the last step's signal or warning and its handle
    announced,          \* ghost: services with characteristics announced since last asked for
    bare                \* ghost: characteristics ever answered with nothing but their value

maps == <<characteristic_to_service, value_to_characteristic, descriptor_to_characteristic>>
known == <<services, complete_services, service_uuids, maps, announced, bare>>
vars == <<connected, known, pending, pending_set_notify, requests, next_id, out, signal>>

Handle == 0..MaxHandle

\* Faulty variants: no wrap-around; one handle too far.
FollowingUnbounded(handle) == handle + 1
FollowingTooFar(handle) == (handle + 2) % (MaxHandle + 1)

Following(handle) == (handle + 1) % (MaxHandle + 1)

\* QMap: insert() of all entries of new, and remove().
EmptyMap == <<>>
Entry(key, value) == [k \in {key} |-> value]
With(f, new) ==
    [k \in DOMAIN f \cup DOMAIN new |-> IF k \in DOMAIN new THEN new[k] ELSE f[k]]
Without(f, keys) == Restrict(f, DOMAIN f \ keys)
Quiet == <<"none", 0>>

Init ==
    /\ connected = FALSE
    /\ services = EmptyMap
    /\ complete_services = FALSE
    /\ service_uuids = {}
    /\ characteristic_to_service = EmptyMap
    /\ value_to_characteristic = EmptyMap
    /\ descriptor_to_characteristic = EmptyMap
    /\ pending = EmptyMap
    /\ pending_set_notify = EmptyMap
    /\ requests = <<>>
    /\ next_id = 1
    /\ out = FALSE
    /\ signal = Quiet
    /\ announced = {}
    /\ bare = {}

-----------------------------------------------------------------------------
(***************************************************************************)
(* Requests.  Ask is a call of the application: the first in the queue is  *)
(* sent at once.  If that write fails, it ends the link inside the call:   *)
(* handleAttDisconnected() clears the pending maps, the entry of this      *)
(* request is inserted after that, and its packet stays with the socket    *)
(* (see GatoSocket); a call that makes several requests goes on with the   *)
(* others.  AskMore is the request of a handler, behind the one being      *)
(* answered.  When the answer has been handled the next request is sent;   *)
(* a write that fails then is a Disconnect.                                *)
(***************************************************************************)
MakeRequest(op, start, end, value) ==
    [id |-> next_id, op |-> op, start |-> start, end |-> end, value |-> value]

AskAll(reqs, entries) ==
    /\ requests' = requests \o reqs
    /\ next_id' = next_id + Len(reqs)
    /\ out' = (out \/ requests = <<>>)
    /\ \/ UNCHANGED connected /\ pending' = With(pending, entries)
       \/ WriteMayFail /\ requests = <<>> /\ connected' = FALSE /\ pending' = entries

Ask(req, entry) == AskAll(<<req>>, entry)

\* Faulty variant: the entry of the answered request stays.
FinishKeepsEntry ==
    /\ requests' = Tail(requests)
    /\ out' = (requests' # <<>>)
    /\ UNCHANGED <<pending, next_id>>

Finish ==
    /\ requests' = Tail(requests)
    /\ out' = (requests' # <<>>)
    /\ pending' = Without(pending, {Head(requests).id})
    /\ UNCHANGED next_id

AskMoreAll(reqs, entry) ==
    /\ requests' = Tail(requests) \o reqs
    /\ out' = (requests' # <<>>)
    /\ pending' = With(Without(pending, {Head(requests).id}), entry)
    /\ next_id' = next_id + Len(reqs)

AskMore(req, entry) == AskMoreAll(<<req>>, entry)

\* Requests of an operation that will be recognised by their entries.
Ongoing(op) == {i \in DOMAIN requests : requests[i].op = op /\ requests[i].id \in DOMAIN pending}

Pending(op, handle) == \E i \in Ongoing(op) : pending[requests[i].id] = handle

Busy(op) == \E i \in DOMAIN requests : requests[i].op = op

(***************************************************************************)
(* The link.  A new one starts with the exchange of the MTU, behind what   *)
(* is left of the requests of the links before, and none of them is sent   *)
(* unless the packet of the first was still with the socket.               *)
(***************************************************************************)
Connect ==
    /\ ~ connected
    /\ next_id <= MaxRequests
    /\ connected' = TRUE
    /\ requests' = Append(requests, MakeRequest("mtu", 0, 0, "none"))
    /\ next_id' = next_id + 1
    /\ out' = (out \/ requests = <<>>)
    /\ signal' = Quiet
    /\ UNCHANGED <<known, pending, pending_set_notify>>

Disconnect ==
    /\ connected
    /\ connected' = FALSE
    /\ pending' = EmptyMap
    /\ out' \in {FALSE, out /\ WriteMayFail}
    /\ signal' = Quiet
    /\ UNCHANGED <<known, pending_set_notify, requests, next_id>>

OfThisLink(i) == \A j \in DOMAIN requests : i < j => requests[j].op # "mtu"

-----------------------------------------------------------------------------
(***************************************************************************)
(* The application's calls.  Each checks that its handle is known, asserts *)
(* that the service has it, and does nothing when not connected.           *)
(***************************************************************************)
Known(char) == char \in DOMAIN characteristic_to_service
ServiceOf(char) == characteristic_to_service[char]
Held(char) ==
    /\ ServiceOf(char) \in DOMAIN services
    /\ char \in DOMAIN services[ServiceOf(char)].chars
Char(char) == services[ServiceOf(char)].chars[char]

Calling ==
    /\ connected
    /\ next_id <= MaxRequests
    /\ signal' = Quiet

DiscoverServices ==
    /\ Calling
    /\ ~ complete_services
    /\ Disciplined => ~ Busy("primary") /\ Ongoing("characteristics") = {}
    /\ services' = EmptyMap
    /\ characteristic_to_service' = EmptyMap
    /\ value_to_characteristic' = EmptyMap
    /\ descriptor_to_characteristic' = EmptyMap
    /\ announced' = {}
    /\ Ask(MakeRequest("primary", 1, MaxHandle, "none"), EmptyMap)
    /\ UNCHANGED <<complete_services, service_uuids, bare, pending_set_notify>>

\* discoverServices() for a list of services: a request each, remembered with
\* its UUID, of which only matters whether it is null.
NullUuid == 0
SomeUuid == 1

DiscoverServicesByUuid(uuids) ==
    /\ Calling
    /\ AskAll([i \in DOMAIN uuids |-> [MakeRequest("primaryByUuid", 1, MaxHandle, "none")
                                           EXCEPT !.id = next_id + i - 1]],
              [id \in next_id..(next_id + Len(uuids) - 1) |-> uuids[id - next_id + 1]])
    /\ UNCHANGED <<known, pending_set_notify>>

\* clearServiceCharacteristics().  Faulty variant: only descriptors are forgotten.
ForgetDescriptorsOnly(chars) ==
    /\ descriptor_to_characteristic' =
          Without(descriptor_to_characteristic, UNION {chars[c].descs : c \in DOMAIN chars})
    /\ UNCHANGED <<characteristic_to_service, value_to_characteristic>>

ForgetCharacteristics(chars) ==
    /\ characteristic_to_service' = Without(characteristic_to_service, DOMAIN chars)
    /\ value_to_characteristic' =
          Without(value_to_characteristic, {chars[c].value : c \in DOMAIN chars})
    /\ descriptor_to_characteristic' =
          Without(descriptor_to_characteristic, UNION {chars[c].descs : c \in DOMAIN chars})

DiscoverCharacteristics(service) ==
    /\ Calling
    /\ Disciplined => ~ Pending("characteristics", service)
    /\ services' = [services EXCEPT ![service].chars = EmptyMap]
    /\ ForgetCharacteristics(services[service].chars)
    /\ Ask(MakeRequest("characteristics", service, services[service].end, "none"),
           Entry(next_id, service))
    /\ announced' = announced \ {service}
    /\ UNCHANGED <<complete_services, service_uuids, bare, pending_set_notify>>

\* discoverDescriptors(), also called by setNotification().
FindDescriptors(char) ==
    /\ Disciplined => /\ ServiceOf(char) \in announced
                      /\ ~ Pending("descriptors", char)
    /\ services' = [services EXCEPT ![ServiceOf(char)].chars[char].descs = {}]
    /\ descriptor_to_characteristic' =
          Without(descriptor_to_characteristic, Char(char).descs)
    /\ Ask(MakeRequest("descriptors", Following(char), Char(char).end, "none"),
           Entry(next_id, char))
    /\ UNCHANGED <<complete_services, service_uuids, characteristic_to_service,
                   value_to_characteristic, announced, bare>>

DiscoverDescriptors(char) ==
    /\ Calling
    /\ Held(char)
    /\ FindDescriptors(char)
    /\ UNCHANGED pending_set_notify

ReadCharacteristic(char) ==
    /\ Calling
    /\ Held(char)
    /\ Ask(MakeRequest("readCharacteristic", Char(char).value, 0, "none"), Entry(next_id, char))
    /\ UNCHANGED <<known, pending_set_notify>>

\* The entry made is that of the characteristic, not of the descriptor.
ReadDescriptor(desc) ==
    LET char == descriptor_to_characteristic[desc] IN
    /\ Calling
    /\ Known(char) /\ Held(char)
    /\ Ask(MakeRequest("readDescriptor", desc, 0, "none"), Entry(next_id, char))
    /\ UNCHANGED <<known, pending_set_notify>>

WriteCharacteristic(char) ==
    /\ Calling
    /\ Held(char)
    /\ Ask(MakeRequest("write", Char(char).value, 0, "data"), EmptyMap)
    /\ UNCHANGED <<known, pending_set_notify>>

WriteDescriptor(desc) ==
    LET char == descriptor_to_characteristic[desc] IN
    /\ Calling
    /\ Known(char) /\ Held(char)
    /\ Ask(MakeRequest("write", desc, 0, "data"), EmptyMap)
    /\ UNCHANGED <<known, pending_set_notify>>

\* genClientCharConfiguration().  Faulty variant: always on.
AlwaysNotify(notification) == "notify"

Configuration(notification) == IF notification THEN "notify" ELSE "off"

\* With the configuration's descriptor known, the characteristic is written.
SetNotification(char, enabled) ==
    /\ Calling
    /\ Held(char)
    /\ char \in Notifying
    /\ \/ /\ Char(char).descs \cap Cccd # {}
          /\ pending_set_notify' = Without(pending_set_notify, {char})
          /\ Ask(MakeRequest("write", Char(char).value, 0, Configuration(TRUE)), EmptyMap)
          /\ UNCHANGED known
       \/ /\ Char(char).descs \cap Cccd = {}
          /\ pending_set_notify' = With(pending_set_notify, Entry(char, enabled))
          /\ FindDescriptors(char)

App ==
    \/ Connect
    \/ Disconnect
    \/ DiscoverServices
    \/ \E n \in 1..MaxFilter : \E uuids \in [1..n -> {NullUuid, SomeUuid}] :
          DiscoverServicesByUuid(uuids)
    \/ \E service \in DOMAIN services : DiscoverCharacteristics(service)
    \/ \E char \in DOMAIN characteristic_to_service :
          \/ DiscoverDescriptors(char)
          \/ ReadCharacteristic(char)
          \/ WriteCharacteristic(char)
          \/ \E enabled \in BOOLEAN : SetNotification(char, enabled)
    \/ \E desc \in DOMAIN descriptor_to_characteristic :
          ReadDescriptor(desc) \/ WriteDescriptor(desc)

-----------------------------------------------------------------------------
(***************************************************************************)
(* The server's responses.  A page is a nonempty prefix of what matches,   *)
(* in order of handles; no match, and a range that is none, is an error,   *)
(* which the handlers see as an empty list.                                *)
(***************************************************************************)
Char_Db == [c \in UNION {DOMAIN Db[sv].chars : sv \in DOMAIN Db} |->
              LET sv == CHOOSE sv \in DOMAIN Db : c \in DOMAIN Db[sv].chars
              IN  Db[sv].chars[c]]

Attributes ==
    DOMAIN Db \cup DOMAIN Char_Db
      \cup UNION {{Char_Db[c].value} \cup Char_Db[c].descs : c \in DOMAIN Char_Db}

Matches(req, attributes) ==
    {h \in attributes : req.start # 0 /\ req.start <= h /\ h <= req.end}

Pages(matches) == {{h \in matches : h <= cut} : cut \in matches}

Answering(op) ==
    /\ connected
    /\ out
    /\ requests # <<>>
    /\ Head(requests).op = op

-----------------------------------------------------------------------------
(***************************************************************************)
(* The handlers of the answers.  All but those of discoverServices() and   *)
(* of writes look up what they have asked for, and ignore an answer to "a  *)
(* request I did not make": its entry is gone with its link, or is null.   *)
(***************************************************************************)
Made ==
    /\ Head(requests).id \in DOMAIN pending
    /\ pending[Head(requests).id] # 0

HandleNotMade ==
    /\ \E op \in {"primaryByUuid", "characteristics", "descriptors",
                  "readCharacteristic", "readDescriptor"} : Answering(op)
    /\ ~ Made
    /\ requests' = Tail(requests)
    /\ out' = (requests' # <<>>)
    /\ signal' = Quiet
    /\ UNCHANGED <<connected, known, pending, pending_set_notify, next_id>>

HandleMtu ==
    /\ Answering("mtu")
    /\ signal' = Quiet
    /\ Finish
    /\ UNCHANGED <<connected, known, pending_set_notify>>

\* servicesDiscovered() after a discovery of all services, or by UUID.
AllFound == 0
SomeFound == 1

HandlePrimary ==
    LET matches == Matches(Head(requests), DOMAIN Db) IN
    /\ Answering("primary")
    /\ \/ /\ matches = {}
          /\ complete_services' = TRUE
          /\ signal' = <<"servicesDiscovered", AllFound>>
          /\ Finish
          /\ UNCHANGED <<services, service_uuids>>
       \/ \E page \in Pages(matches) :
          /\ services' =
                With(services, [sv \in page |-> [end |-> Db[sv].end, chars |-> EmptyMap]])
          /\ service_uuids' = service_uuids \cup page
          /\ AskMore(MakeRequest("primary", Following(Db[Max(page)].end), MaxHandle, "none"),
                     EmptyMap)
          /\ signal' = Quiet
          /\ UNCHANGED complete_services
    /\ UNCHANGED <<connected, maps, announced, bare, pending_set_notify>>

(***************************************************************************)
(* handlePrimaryForService().  The value searched for is streamed with its *)
(* length in front (see AttPdu), so that a server finds no service with    *)
(* it: the list is always empty.  The last answer is the one announced.    *)
(***************************************************************************)
\* Faulty variants: every answer is announced; the entry of the answered
\* request is still counted.
NoneRemaining == {}
RemainingBefore ==
    {id \in DOMAIN pending :
        pending[id] = NullUuid \/ id \in {requests[i].id : i \in Ongoing("primaryByUuid")}}

\* pending_primary_reqs after the handler has removed its entry; a null UUID
\* stays for ever.
Remaining ==
    {id \in DOMAIN pending' :
        pending'[id] = NullUuid \/ id \in {requests[i].id : i \in Ongoing("primaryByUuid")}}

HandlePrimaryForService ==
    /\ Answering("primaryByUuid") /\ Made
    /\ Finish
    /\ signal' = IF Remaining = {} THEN <<"servicesDiscovered", SomeFound>> ELSE Quiet
    /\ UNCHANGED <<connected, known, pending_set_notify>>

\* The last characteristic so far ends before the first of the page; the
\* last of the page ends, for now, with the service.
\* Faulty variant: characteristics of earlier pages keep their end.
ExtendedOnly(service, page) ==
    LET after(c) == {d \in page : d > c}
        new == [c \in page |->
                  [end   |-> IF after(c) = {} THEN services[service].end ELSE Min(after(c)) - 1,
                   value |-> Char_Db[c].value,
                   descs |-> {}]]
    IN  With(services[service].chars, new)

Extended(service, page) ==
    LET old == services[service].chars
        shortened == IF old = EmptyMap THEN old
                     ELSE [old EXCEPT ![Max(DOMAIN old)].end = Min(page) - 1]
        after(c) == {d \in page : d > c}
        new == [c \in page |->
                  [end   |-> IF after(c) = {} THEN services[service].end ELSE Min(after(c)) - 1,
                   value |-> Char_Db[c].value,
                   descs |-> {}]]
    IN  With(shortened, new)

\* Faulty variant: the discovery ends without a word.
EndSilently(service) ==
    /\ signal' = Quiet
    /\ announced' = announced \cup {service}
    /\ Finish

Discovered(service) ==
    /\ signal' = <<"characteristicsDiscovered", service>>
    /\ announced' = announced \cup {service}
    /\ Finish

HandleCharacteristic ==
    LET req == Head(requests)
        service == pending[req.id]
        matches == Matches(req, DOMAIN Char_Db) IN
    /\ Answering("characteristics") /\ Made
    /\ service \in DOMAIN services
    /\ \/ /\ matches = {}
          /\ Discovered(service)
          /\ UNCHANGED <<services, maps>>
       \/ \E page \in Pages(matches) :
          /\ services' = [services EXCEPT ![service].chars = Extended(service, page)]
          /\ characteristic_to_service' =
                With(characteristic_to_service, [c \in page |-> service])
          /\ value_to_characteristic' =
                With(value_to_characteristic,
                     [v \in {Char_Db[c].value : c \in page} |->
                         CHOOSE c \in page : Char_Db[c].value = v])
          /\ IF Max(page) >= services[service].end
             THEN Discovered(service)
             ELSE /\ signal' = Quiet
                  /\ UNCHANGED announced
                  /\ AskMore(MakeRequest("characteristics", Following(Max(page)),
                                         services[service].end, "none"),
                             Entry(next_id, service))
          /\ UNCHANGED descriptor_to_characteristic
    /\ UNCHANGED <<connected, complete_services, service_uuids, bare, pending_set_notify>>

\* The members of a set of handles, in their order.
Ascending(S) ==
    {order \in Bijection(1..Cardinality(S), S) :
        \A i, j \in DOMAIN order : i < j => order[i] < order[j]}

\* finishSetNotifyOperations(), which writes to every configuration among the
\* descriptors that writeValue() knows, and the signal.
FinishDescriptors(char, descs, mapped) ==
    /\ signal' = <<"descriptorsDiscovered", char>>
    /\ pending_set_notify' = Without(pending_set_notify, {char})
    /\ \/ char \notin DOMAIN pending_set_notify /\ Finish
       \/ /\ char \in DOMAIN pending_set_notify
          /\ \E order \in Ascending(descs \cap Cccd \cap mapped) :
                AskMoreAll([i \in DOMAIN order |->
                              [MakeRequest("write", order[i], 0,
                                           Configuration(pending_set_notify[char]))
                                 EXCEPT !.id = next_id + i - 1]],
                           EmptyMap)

\* Faulty variant: every page replaces the descriptors found before.
ReplaceDescriptors(char, page) ==
    LET new == page \ {Char(char).value}
        last == IF new = {} THEN 0 ELSE Max(new)
        mapped == With(descriptor_to_characteristic, [d \in new |-> char]) IN
    /\ services' = [services EXCEPT ![ServiceOf(char)].chars[char].descs = new]
    /\ descriptor_to_characteristic' = mapped
    /\ bare' = IF new = {} THEN bare \cup {char} ELSE bare
    /\ IF last >= Char(char).end
       THEN FinishDescriptors(char, new, DOMAIN mapped)
       ELSE /\ signal' = Quiet
            /\ AskMore(MakeRequest("descriptors", Following(last), Char(char).end, "none"),
                       Entry(next_id, char))
            /\ UNCHANGED pending_set_notify

\* A page of the value attribute alone leaves last_handle at 0.
HandleDescriptorPage(char, page) ==
    LET new == page \ {Char(char).value}
        last == IF new = {} THEN 0 ELSE Max(new)
        descs == Char(char).descs \cup new
        mapped == With(descriptor_to_characteristic, [d \in new |-> char]) IN
    /\ services' = [services EXCEPT ![ServiceOf(char)].chars[char].descs = descs]
    /\ descriptor_to_characteristic' = mapped
    /\ bare' = IF new = {} THEN bare \cup {char} ELSE bare
    /\ IF last >= Char(char).end
       THEN FinishDescriptors(char, descs, DOMAIN mapped)
       ELSE /\ signal' = Quiet
            /\ AskMore(MakeRequest("descriptors", Following(last), Char(char).end, "none"),
                       Entry(next_id, char))
            /\ UNCHANGED pending_set_notify

HandleDescriptors ==
    LET req == Head(requests)
        char == pending[req.id]
        matches == Matches(req, Attributes) IN
    /\ Answering("descriptors") /\ Made
    /\ \/ /\ ~ Known(char)
          /\ signal' = <<"unknownCharacteristic", char>>
          /\ Finish
          /\ UNCHANGED <<services, descriptor_to_characteristic, bare, pending_set_notify>>
       \/ /\ Known(char) /\ Held(char)
          /\ \/ /\ matches = {}
                /\ FinishDescriptors(char, Char(char).descs, DOMAIN descriptor_to_characteristic)
                /\ UNCHANGED <<services, descriptor_to_characteristic, bare>>
             \/ \E page \in Pages(matches) :
                /\ page = {Char(char).value} => next_id <= MaxRequests
                /\ HandleDescriptorPage(char, page)
    /\ UNCHANGED <<connected, complete_services, service_uuids, characteristic_to_service,
                   value_to_characteristic, announced>>

HandleCharacteristicRead ==
    LET char == pending[Head(requests).id] IN
    /\ Answering("readCharacteristic") /\ Made
    /\ \/ ~ Known(char) /\ signal' = <<"unknownDuringRead", char>>
       \/ Known(char) /\ Held(char) /\ signal' = <<"valueUpdated", char>>
    /\ Finish
    /\ UNCHANGED <<connected, known, pending_set_notify>>

\* The entry, a characteristic, is looked up among the descriptors.
HandleDescriptorRead ==
    LET desc == pending[Head(requests).id]
        char == descriptor_to_characteristic[desc]
        found == desc \in DOMAIN descriptor_to_characteristic /\ Known(char) IN
    /\ Answering("readDescriptor") /\ Made
    /\ found => Held(char) /\ desc \in Char(char).descs
    /\ signal' = IF found THEN <<"descriptorValueUpdated", desc>>
                 ELSE <<"unknownDuringRead", desc>>
    /\ Finish
    /\ UNCHANGED <<connected, known, pending_set_notify>>

HandleWrite ==
    /\ Answering("write")
    /\ signal' = Quiet
    /\ Finish
    /\ UNCHANGED <<connected, known, pending_set_notify>>

Answer ==
    \/ HandleMtu
    \/ HandleNotMade
    \/ HandlePrimary
    \/ HandlePrimaryForService
    \/ HandleCharacteristic
    \/ HandleDescriptors
    \/ HandleCharacteristicRead
    \/ HandleDescriptorRead
    \/ HandleWrite

Next == App \/ Answer

Spec == Init /\ [][Next]_vars

\* The server answers (with GatoAttClient's RequestEnds); nothing else is fair.
FairSpec == Spec /\ WF_vars(Answer)

-----------------------------------------------------------------------------
CharRecord == [end : Handle, value : Handle, descs : SUBSET Handle]
IsMap(f, D, R(_)) == DOMAIN f \subseteq D /\ \A x \in DOMAIN f : R(f[x])
IsHandle(h) == h \in Handle
IsService(sv) == sv.end \in Handle /\ IsMap(sv.chars, Handle, LAMBDA c : c \in CharRecord)
IsBoolean(b) == b \in BOOLEAN
Operation == {"mtu", "primary", "primaryByUuid", "characteristics", "descriptors",
              "readCharacteristic", "readDescriptor", "write"}
Request == [id : Nat \ {0}, op : Operation, start : Handle, end : Handle,
            value : {"none", "data", "notify", "off"}]

TypeOK ==
    /\ {connected, complete_services, out} \subseteq BOOLEAN
    /\ IsMap(services, Handle, IsService)
    /\ service_uuids \cup announced \cup bare \subseteq Handle
    /\ IsMap(characteristic_to_service, Handle, IsHandle)
    /\ IsMap(value_to_characteristic, Handle, IsHandle)
    /\ IsMap(descriptor_to_characteristic, Handle, IsHandle)
    /\ IsMap(pending, Nat, IsHandle)
    /\ IsMap(pending_set_notify, Handle, IsBoolean)
    /\ next_id \in Nat
    /\ requests \in Seq(Request)
    /\ \A i \in DOMAIN requests : requests[i].id < next_id

(***************************************************************************)
(* No Q_ASSERT fails: every characteristic in characteristic_to_service is *)
(* held by its service (gatoperipheral.cpp:288, 316, 344, 369, 405, 429,   *)
(* 770-774, 833-837, 864-868), every known descriptor's characteristic is  *)
(* known (341, 402) and has that descriptor (871), and the service of a    *)
(* characteristic discovery about to be answered exists (704).             *)
(***************************************************************************)
AssertionsHold ==
    /\ \A char \in DOMAIN characteristic_to_service : Held(char)
    /\ \A desc \in DOMAIN descriptor_to_characteristic :
          LET char == descriptor_to_characteristic[desc]
          IN  Known(char) /\ desc \in Char(char).descs
    /\ Answering("characteristics") /\ Made => pending[Head(requests).id] \in DOMAIN services

(***************************************************************************)
(* handleAttAttributeUpdated() finds the characteristic of a notification  *)
(* by the handle of its value, or warns of one it does not know (607-617): *)
(* whatever was discovered again or forgotten in between, every value that *)
(* is still mapped leads to a characteristic with that value.              *)
(***************************************************************************)
NotificationsAreKnown ==
    \A value \in DOMAIN value_to_characteristic :
        LET char == value_to_characteristic[value]
        IN  Known(char) /\ Held(char) /\ Char(char).value = value

(***************************************************************************)
(* The handlers drop an answer whose id is not in their map as "a request  *)
(* I did not make" (698, 759, 822, 848).  Every request made on the link   *)
(* that is up and not yet answered has its entry, whatever was left over   *)
(* from links before, and no entry is left over without a request, but for *)
(* null UUIDs, although a failing write inserts one after handleAtt-       *)
(* Disconnected() has cleared the maps.                                    *)
(***************************************************************************)
Unremembered == {"mtu", "primary", "write"}

PendingMatchesRequests ==
    /\ \A id \in DOMAIN pending :
          pending[id] # NullUuid =>
              \E i \in DOMAIN requests :
                  requests[i].id = id /\ requests[i].op \notin Unremembered
    /\ connected =>
          \A i \in DOMAIN requests :
              OfThisLink(i) /\ requests[i].op \notin Unremembered
                  => requests[i].id \in DOMAIN pending

(***************************************************************************)
(* What a signal announces is what the server has, however the responses   *)
(* were cut into pages and the conversation over links.                    *)
(***************************************************************************)
ServicesComplete ==
    signal = <<"servicesDiscovered", AllFound>> =>
        /\ DOMAIN services = DOMAIN Db
        /\ \A sv \in DOMAIN Db : services[sv].end = Db[sv].end
        /\ service_uuids = DOMAIN Db

CharacteristicsComplete ==
    signal[1] = "characteristicsDiscovered" =>
        LET found == services[signal[2]].chars
            there == Db[signal[2]].chars IN
        /\ DOMAIN found = DOMAIN there
        /\ \A c \in DOMAIN there :
              /\ found[c].end = there[c].end
              /\ found[c].value = there[c].value
              /\ value_to_characteristic[there[c].value] = c

(***************************************************************************)
(* No descriptor of a characteristic is missed, however the responses were *)
(* cut into pages, and no other is taken for one of its own unless the     *)
(* server has put its value alone into a response, now or earlier; when it *)
(* has, the search starts at handle 1 (see DescriptorsAreItsOwn).          *)
(***************************************************************************)
DescriptorsComplete ==
    signal[1] = "descriptorsDiscovered" =>
        LET char == signal[2] IN
        /\ Char_Db[char].descs \subseteq Char(char).descs
        /\ char \notin bare => Char(char).descs = Char_Db[char].descs

(***************************************************************************)
(* A characteristic never gets a descriptor from outside its own handles:  *)
(* discoverDescriptors() asks for those after its declaration, and the     *)
(* handler is to "skip the value attribute itself" (784) and "fetch        *)
(* following attributes" (809).                                            *)
(***************************************************************************)
DescriptorsAreItsOwn ==
    \A sv \in DOMAIN services : \A c \in DOMAIN services[sv].chars :
        \A d \in services[sv].chars[c].descs : c < d /\ d <= services[sv].chars[c].end

\* A search for descriptors that starts again for ever, at the bound.
CutByBound ==
    /\ next_id > MaxRequests
    /\ Answering("descriptors") /\ Made
    /\ Matches(Head(requests), Attributes) = {Char_Db[pending[Head(requests).id]].value}

(***************************************************************************)
(* A discovery of characteristics is announced, or the link ends, on a     *)
(* link over which requests are sent (unless the bound blocks the queue).  *)
(***************************************************************************)
DiscoveryIsAnnounced ==
    \A sv \in DOMAIN Db :
        (connected /\ out /\ Pending("characteristics", sv))
            ~> (signal = <<"characteristicsDiscovered", sv>> \/ ~ connected \/ CutByBound)

(***************************************************************************)
(* A discovery by UUID is several conversations with one announcement: it  *)
(* comes after the last answer (gatoperipheral.cpp:666), also of those     *)
(* asked for meanwhile, and it comes, or the link ends, unless a null UUID *)
(* was asked for, whose entry stays for ever (659-662).                    *)
(***************************************************************************)
FilteredDiscoveryPending ==
    \E i \in DOMAIN requests : requests[i].op = "primaryByUuid" /\ OfThisLink(i)

AnnouncedAfterLast ==
    signal = <<"servicesDiscovered", SomeFound>> => ~ FilteredDiscoveryPending

FilteredDiscoveryEnds ==
    (connected /\ out /\ FilteredDiscoveryPending)
        ~> \/ signal = <<"servicesDiscovered", SomeFound>>
           \/ ~ connected
           \/ \E id \in DOMAIN pending : pending[id] = NullUuid
           \/ CutByBound

(***************************************************************************)
(* setNotification() on a characteristic whose configuration is not known  *)
(* ends in a write of what was asked to that configuration (570-576), and  *)
(* in no other: when its descriptors have been found, its entry leaves     *)
(* pending_set_notify for just these requests.  Only when the server has   *)
(* put a value alone into a response may the characteristic write to       *)
(* others, or its configuration have been forgotten with one of those.     *)
(***************************************************************************)
NotificationIsConfigured ==
    [][\A char \in DOMAIN pending_set_notify \ DOMAIN pending_set_notify' :
          signal' = <<"descriptorsDiscovered", char>> =>
              LET own == Char_Db[char].descs \cap Cccd
                  written == {i \in DOMAIN requests' : requests'[i].id >= next_id} IN
              /\ \A d \in own :
                    bare = {} \/ d \in DOMAIN descriptor_to_characteristic' =>
                        \E i \in written :
                            /\ requests'[i].start = d
                            /\ (requests'[i].value = "notify") = pending_set_notify[char]
              /\ char \notin bare => \A i \in written : requests'[i].start \in own]_vars

(***************************************************************************)
(* gatoperipheral.cpp:442-446 looks up the client characteristic           *)
(* configuration and writes genClientCharConfiguration(): configurations   *)
(* are written to configuration descriptors.                               *)
(***************************************************************************)
ConfigurationsGoToDescriptors ==
    \A i \in DOMAIN requests :
        requests[i].value \in {"notify", "off"} => requests[i].start \in Cccd

(***************************************************************************)
(* gatoperipheral.cpp:855 warns of an "Unknown characteristic during       *)
(* read": a read of a known descriptor is answered with its value.         *)
(***************************************************************************)
KnownDescriptorIsReported ==
    [][HandleDescriptorRead /\ Head(requests).start \in DOMAIN descriptor_to_characteristic
         => signal' = <<"descriptorValueUpdated", Head(requests).start>>]_vars
=============================================================================
