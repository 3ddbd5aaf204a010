------------------------- MODULE GatoCentralManager -------------------------
(***************************************************************************)
(* GatoCentralManager (gatocentralmanager.cpp): scanning for peripherals   *)
(* over HCI, and the advertising data a GatoPeripheral keeps               *)
(* (gatoperipheral.cpp, parseEIR()).                                       *)
(*                                                                         *)
(* One HCI event carries several reports, which _q_readNotify() handles    *)
(* from a buffer of its own.  It emits signals twice on the way:           *)
(* nameChanged() from inside the parser, and discoveredPeripheral().       *)
(* Their slots may stop the scan or start another one, after which the     *)
(* remaining fields of the report and the remaining reports are handled    *)
(* all the same.  `at' says how far it has come.                           *)
(*                                                                         *)
(* The services a peripheral is known for, service_uuids, are those it has *)
(* advertised and those found on it by discoverServices(), whose answers   *)
(* GatoPeripheral handles from the event loop.                             *)
(***************************************************************************)
EXTENDS GatoUUID, FiniteSets

CONSTANTS Address,         \* device addresses, [bd, type]
          AppAddress,      \* addresses the application asks a peripheral for
          Advertisement,   \* advertising data of the devices, see Eir
          Beyond,          \* what may follow a report's data in the buffer
          Filters,         \* lists of services scanned for, as sets
          Discoverable,    \* services that can be discovered on a device
          MaxScans,        \* bound: calls that start a scan
          MaxEvents,       \* bound: unread HCI events
          MaxReports       \* bound: reports handled, in progress and unread

ASSUME ScanAssumption ==
    /\ MaxScans \in Nat /\ MaxEvents \in Nat /\ MaxReports \in Nat
    /\ \A f \in Filters : f \subseteq UUID
    /\ Discoverable \subseteq UUID
    /\ Beyond \subseteq [1..15 -> Byte]

VARIABLES
    hci,           \* the HCI device is open (hci # -1)
    notifier,      \* d->notifier # 0
    filter_uuids,  \* d->filter_uuids
    peripherals,   \* d->peripherals: by device address
    scanEnabled,   \* controller: LE scan enabled
    hciFilter,     \* kernel: the socket passes LE meta events
    events,        \* kernel: unread events of the socket
    at,            \* where _q_readNotify() is: "loop" when it is not running
    reports,       \* the reports still to be handled, the current one first
    data,          \* the advertising data still to be parsed
    asked,         \* ghost: services the open scan was started for
    heard,         \* ghost: what each device has advertised so far
    discovered,    \* ghost: the services discovered on each device so far
    scans          \* ghost: scans started

device == <<hci, notifier, filter_uuids, scanEnabled, hciFilter, asked>>
handling == <<at, reports, data>>
vars == <<device, handling, peripherals, events, heard, discovered, scans>>

BD == {addr.bd : addr \in Address \cup AppAddress}

Init ==
    /\ hci = FALSE
    /\ notifier = FALSE
    /\ filter_uuids = {}
    /\ peripherals = <<>>
    /\ scanEnabled = FALSE
    /\ hciFilter = FALSE
    /\ events = <<>>
    /\ at = "loop"
    /\ reports = <<>>
    /\ data = <<>>
    /\ asked = {}
    /\ heard = [bd \in BD |-> <<>>]
    /\ discovered = [bd \in BD |-> {}]
    /\ scans = 0

(***************************************************************************)
(* Advertising data on the air: a length, a type and a value per field,    *)
(* and what follows the last whole field.  The value of a field is a list  *)
(* of services, each spelled with the length its type says and least       *)
(* significant byte first, or bytes, such as a name; an ill-formed list    *)
(* ends with bytes.                                                        *)
(***************************************************************************)
UuidSize(type) ==
    CASE type \in {2, 3} -> 2
      [] type \in {4, 5} -> 4
      [] type \in {6, 7} -> 16
      [] OTHER           -> 0

FieldValue(field) ==
    FlattenSeq([i \in DOMAIN field.uuids |-> Spelled(field.uuids[i], UuidSize(field.type))])
        \o field.bytes

FieldBytes(field) == <<Len(FieldValue(field)) + 1, field.type>> \o FieldValue(field)

Eir(ad) == FlattenSeq([i \in DOMAIN ad.fields |-> FieldBytes(ad.fields[i])]) \o ad.tail

Field == [type : Byte, uuids : Seq(UUID), bytes : Seq(Byte)]

\* Any data can be told apart like this: what is in a list and fits into its
\* spelling, and where the last whole field ends.
ASSUME AdvertisementAssumption ==
    \A ad \in Advertisement :
        /\ ad.fields \in Seq(Field) /\ ad.tail \in Seq(Byte)
        /\ \A i \in DOMAIN ad.fields :
              LET field == ad.fields[i]
                  size == UuidSize(field.type)
              IN  /\ size = 0 => field.uuids = <<>>
                  /\ \A j \in DOMAIN field.uuids : HasSpelling(field.uuids[j], size)
                  /\ Len(FieldValue(field)) < 255
        /\ ad.tail = <<>> \/ ad.tail[1] = 0 \/ ad.tail[1] >= Len(ad.tail)

ShortName == 8
CompleteName == 9

(***************************************************************************)
(* stopScan(), and what scanForPeripheralsWithServices() finds after it    *)
(* has stopped the scan that was running.  The result of the command that  *)
(* stops the controller is ignored: it may go on scanning.                 *)
(***************************************************************************)
AppMay == at \in {"loop", "nameChanged", "discovered"}

StopScan ==
    /\ AppMay
    /\ hci' = FALSE
    /\ notifier' = FALSE
    /\ filter_uuids' = {}
    /\ scanEnabled' \in IF hci THEN {FALSE, scanEnabled} ELSE {scanEnabled}
    /\ hciFilter' = FALSE
    /\ events' = <<>>
    /\ asked' = {}
    /\ UNCHANGED <<handling, peripherals, heard, discovered, scans>>

FilterLeft == IF hci THEN {} ELSE filter_uuids

OpenFails ==
    /\ hci' = FALSE
    /\ notifier' = (notifier /\ ~ hci)
    /\ filter_uuids' = FilterLeft
    /\ scanEnabled' \in IF hci THEN {FALSE, scanEnabled} ELSE {scanEnabled}
    /\ hciFilter' = FALSE
    /\ asked' = {}

\* Faulty variants: the list is taken over before the running scan is stopped;
\* it is added to what a scan that could not be set up has left (+= for =).
FilterTakenEarly(uuids) == IF hci THEN {} ELSE uuids

FilterAccumulates(uuids) == FilterLeft \cup uuids

FilterTaken(uuids) == uuids

\* Faulty variant: a command that fails leaves the device open.
SetupFailsOpen(uuids) ==
    /\ hci' = TRUE
    /\ notifier' = (notifier /\ ~ hci)
    /\ filter_uuids' = FilterTaken(uuids)
    /\ scanEnabled' \in BOOLEAN
    /\ hciFilter' = FALSE
    /\ asked' = uuids

\* Setting the scan parameters or enabling the scan fails; a command that
\* timed out may have been carried out, also the one that stops it first.
SetupFails(uuids) ==
    /\ hci' = FALSE
    /\ notifier' = (notifier /\ ~ hci)
    /\ filter_uuids' = FilterTaken(uuids)
    /\ scanEnabled' \in BOOLEAN
    /\ hciFilter' = FALSE
    /\ asked' = {}

\* The scan runs; reading or setting the socket's filter may fail, and then
\* no event ever gets through.
ScanStarts(uuids) ==
    /\ hci' = TRUE
    /\ notifier' = TRUE
    /\ filter_uuids' = FilterTaken(uuids)
    /\ scanEnabled' = TRUE
    /\ hciFilter' \in BOOLEAN
    /\ asked' = uuids

ScanForPeripheralsWithServices(uuids) ==
    /\ AppMay
    /\ scans < MaxScans
    /\ scans' = scans + 1
    /\ OpenFails \/ SetupFails(uuids) \/ ScanStarts(uuids)
    /\ events' = <<>>
    /\ UNCHANGED <<handling, peripherals, heard, discovered>>

(***************************************************************************)
(* Peripherals are found by address; the type of the address is not        *)
(* compared.                                                               *)
(***************************************************************************)
NewPeripheral(addr) ==
    [addr |-> addr, name |-> <<>>, complete_name |-> FALSE,
     service_uuids |-> {}, advert_data |-> <<>>]

\* Faulty variant: a device that is known gets a new peripheral.
AlwaysNew(addr) ==
    [bd \in DOMAIN peripherals \cup {addr.bd} |->
        IF bd = addr.bd THEN NewPeripheral(addr) ELSE peripherals[bd]]

WithPeripheral(addr) ==
    [bd \in DOMAIN peripherals \cup {addr.bd} |->
        IF bd \in DOMAIN peripherals THEN peripherals[bd] ELSE NewPeripheral(addr)]

GetPeripheral(addr) ==
    /\ AppMay
    /\ peripherals' = WithPeripheral(addr)
    /\ UNCHANGED <<device, handling, events, heard, discovered, scans>>

(***************************************************************************)
(* A service discovered on a device joins the ones it has advertised       *)
(* (handlePrimary() of GatoPeripheral, called from the event loop).        *)
(***************************************************************************)
DiscoverService(bd, uuid) ==
    /\ at = "loop"
    /\ bd \in DOMAIN peripherals
    /\ peripherals' = [peripherals EXCEPT ![bd].service_uuids = @ \cup {uuid}]
    /\ discovered' = [discovered EXCEPT ![bd] = @ \cup {uuid}]
    /\ UNCHANGED <<device, handling, events, heard, scans>>

(***************************************************************************)
(* _q_readNotify() goes on with reports rs: handleAdvertising() finds or   *)
(* makes the peripheral and has it parse the data, if there is any.        *)
(***************************************************************************)
NextReport(rs) ==
    /\ reports' = rs
    /\ \/ /\ rs = <<>>
          /\ at' = "loop"
          /\ data' = <<>>
          /\ UNCHANGED peripherals
       \/ /\ rs # <<>>
          /\ at' = "parse"
          /\ data' = Eir(Head(rs).ad)
          /\ LET addr == Head(rs).addr
                 known == WithPeripheral(addr)
             IN  peripherals' =
                   IF data' = <<>> THEN known
                   ELSE [known EXCEPT ![addr.bd].advert_data = data']

\* Events other than advertising reports carry no reports here.
ReadNotify ==
    /\ at = "loop"
    /\ notifier
    /\ events # <<>>
    /\ events' = Tail(events)
    /\ NextReport(Head(events))
    /\ UNCHANGED <<device, heard, discovered, scans>>

Current == Head(reports).addr.bd

(***************************************************************************)
(* parseEIR(), one field at a time.  A list of services is read in steps   *)
(* of the UUID's size from the start of the value to its end: if the value *)
(* is not a multiple, the last UUID takes bytes of what follows, also      *)
(* beyond the report.                                                      *)
(***************************************************************************)
item_len == data[1]

AtField == data # <<>> /\ item_len > 0 /\ item_len < Len(data)

parseEIRUUIDs(size, len, beyond) ==
    {bytearray_to_gatouuid(SubSeq(data \o beyond, 3 + size * i, 2 + size * (i + 1))) :
        i \in {j \in 0..len : size * j < len}}

\* Faulty variant: any name replaces the one before.
AnyName(type, peripheral) == type \in {ShortName, CompleteName}

AcceptsName(type, peripheral) ==
    \/ type = CompleteName
    \/ type = ShortName /\ ~ peripheral.complete_name

ParseField ==
    /\ at = "parse"
    /\ AtField
    /\ data' = SubSeq(data, item_len + 2, Len(data))
    /\ LET type == data[2]
           value == SubSeq(data, 3, item_len + 1)
           peripheral == peripherals[Current]
       IN  \/ /\ UuidSize(type) # 0
              /\ \E beyond \in Beyond :
                    peripherals' = [peripherals EXCEPT ![Current].service_uuids =
                        @ \cup parseEIRUUIDs(UuidSize(type), Len(value), beyond)]
              /\ at' = "parse"
           \/ /\ AcceptsName(type, peripheral)
              /\ peripherals' = [peripherals EXCEPT ![Current] =
                     [@ EXCEPT !.name = value, !.complete_name = (type = CompleteName)]]
              /\ at' = "nameChanged"
           \/ /\ UuidSize(type) = 0 /\ ~ AcceptsName(type, peripheral)
              /\ at' = "parse"
              /\ UNCHANGED peripherals
    /\ UNCHANGED <<device, events, heard, discovered, scans, reports>>

PassesFilter(peripheral) ==
    filter_uuids = {} \/ filter_uuids \cap peripheral.service_uuids # {}

\* The data is at its end, padded, or ends in the middle of a field.
FilterReport ==
    /\ at = "parse"
    /\ ~ AtField
    /\ heard' = [heard EXCEPT ![Current] = Append(@, Head(reports).ad)]
    /\ \/ /\ PassesFilter(peripherals[Current])
          /\ at' = "discovered"
          /\ data' = <<>>
          /\ UNCHANGED <<reports, peripherals>>
       \/ /\ ~ PassesFilter(peripherals[Current])
          /\ NextReport(Tail(reports))
    /\ UNCHANGED <<device, events, discovered, scans>>

\* The slots of nameChanged() or discoveredPeripheral() return.
SlotReturns ==
    /\ \/ /\ at = "nameChanged"
          /\ at' = "parse"
          /\ UNCHANGED <<reports, data, peripherals>>
       \/ /\ at = "discovered"
          /\ NextReport(Tail(reports))
    /\ UNCHANGED <<device, events, heard, discovered, scans>>

(***************************************************************************)
(* The controller reports what devices around it advertise; an event with  *)
(* no reports stands for any other LE meta event.                          *)
(***************************************************************************)
Report == [addr : Address, ad : Advertisement]

Count == Len(reports) + Len(FlattenSeq(events))
            + FoldFunction(LAMBDA ads, n : n + Len(ads), 0, heard)

ControllerReports(event) ==
    /\ scanEnabled
    /\ hciFilter
    /\ Len(events) < MaxEvents
    /\ Count + Len(event) <= MaxReports
    /\ events' = Append(events, event)
    /\ UNCHANGED <<device, handling, peripherals, heard, discovered, scans>>

Next ==
    \/ \E uuids \in Filters : ScanForPeripheralsWithServices(uuids)
    \/ StopScan
    \/ \E addr \in AppAddress : GetPeripheral(addr)
    \/ \E bd \in BD, uuid \in Discoverable : DiscoverService(bd, uuid)
    \/ ReadNotify
    \/ ParseField
    \/ FilterReport
    \/ SlotReturns
    \/ \E event \in UNION {[1..n -> Report] : n \in 0..2} : ControllerReports(event)

Spec == Init /\ [][Next]_vars

-----------------------------------------------------------------------------
Peripheral ==
    [addr : Address \cup AppAddress, name : Seq(Byte), complete_name : BOOLEAN,
     service_uuids : SUBSET UUID, advert_data : Seq(Byte)]

TypeOK ==
    /\ hci \in BOOLEAN /\ notifier \in BOOLEAN
    /\ filter_uuids \in Filters \cup {{}}
    /\ DOMAIN peripherals \subseteq BD
    /\ \A bd \in DOMAIN peripherals : peripherals[bd] \in Peripheral
    /\ scanEnabled \in BOOLEAN /\ hciFilter \in BOOLEAN
    /\ events \in Seq(Seq(Report))
    /\ at \in {"loop", "parse", "nameChanged", "discovered"}
    /\ reports \in Seq(Report)
    /\ data \in Seq(Byte)
    /\ asked \in Filters \cup {{}}
    /\ heard \in [BD -> Seq(Advertisement)]
    /\ discovered \in [BD -> SUBSET Discoverable]
    /\ scans \in 0..MaxScans

(***************************************************************************)
(* Line 187 says "If the HCI device is open for any reason, it means we're *)
(* scanning".  Whichever step of starting a scan failed, and from whatever *)
(* slot it was stopped or started again: if the device is open, it is      *)
(* listened to and the controller scans, and nobody listens to one that    *)
(* has been closed.                                                        *)
(***************************************************************************)
ScanIsWhole == (hci <=> notifier) /\ (hci => scanEnabled)

(***************************************************************************)
(* What the reports a device sent so far say, field by field.              *)
(***************************************************************************)
Fields(ads) == FlattenSeq([i \in DOMAIN ads |-> ads[i].fields])

ServicesIn(fields) ==
    UNION {{fields[i].uuids[j] : j \in DOMAIN fields[i].uuids} : i \in DOMAIN fields}

WholeLists(fields) ==
    \A i \in DOMAIN fields : UuidSize(fields[i].type) # 0 => fields[i].bytes = <<>>

Complete(fields) == {i \in DOMAIN fields : fields[i].type = CompleteName}

Named(fields) == {i \in DOMAIN fields : fields[i].type \in {ShortName, CompleteName}}

ReportDone == at \in {"loop", "discovered"}

(***************************************************************************)
(* advertisesService() says yes to every service one of the reports has    *)
(* listed, in whatever length and however the report ends, and to every    *)
(* service discovered; it says no to all others unless a list was          *)
(* ill-formed; nothing once heard or discovered is forgotten.              *)
(***************************************************************************)
ServicesHeard ==
    ReportDone =>
        \A bd \in BD : heard[bd] # <<>> =>
            LET fields == Fields(heard[bd])
                services == ServicesIn(fields) \cup discovered[bd]
            IN  /\ bd \in DOMAIN peripherals
                /\ services \subseteq peripherals[bd].service_uuids
                /\ WholeLists(fields) => services = peripherals[bd].service_uuids

(***************************************************************************)
(* A peripheral has the last complete name it has sent, and as long as it  *)
(* has sent none the last shortened one (parseName()).                     *)
(***************************************************************************)
NameHeard ==
    ReportDone =>
        \A bd \in BD :
            LET fields == Fields(heard[bd])
                names == IF Complete(fields) # {} THEN Complete(fields) ELSE Named(fields)
            IN  names # {} => peripherals[bd].name = fields[Max(names)].bytes

DueIsAnnounced ==
    hci /\ heard' # heard =>
        LET fields == Fields(heard'[Current])
            services == ServicesIn(fields) \cup discovered[Current]
            wanted == asked = {} \/ asked \cap services # {}
        IN  /\ wanted => at' = "discovered"
            /\ at' = "discovered" /\ WholeLists(fields) => wanted

(***************************************************************************)
(* While a scan is on, a report is announced if one of the services the    *)
(* scan that is on was started for has been advertised by its device, then *)
(* or before, or discovered on it, also when that scan was started by a    *)
(* slot in the middle of the report or of the event; and it is announced   *)
(* only then, unless a list of the device was ill-formed.                  *)
(***************************************************************************)
AnnouncedIffAskedFor == [][DueIsAnnounced]_vars
=============================================================================
