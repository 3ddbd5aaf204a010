\* The link ends while a request is out, and another one is opened.
SPECIFICATION Spec
CONSTANTS
    AppOpcode = {"read"}
    RawOpcode = {}
    ServerMtu = {10}
    PeerRequests = FALSE
    SlotCalls = {}
    CancelsHead = FALSE
    ReconnectPending = TRUE
    MaxConnections = 2
    MaxRequests = 2
    MaxTx = 1
    MaxRx = 1
    WriteMayFail = FALSE
INVARIANT
    HeadInFlight
CHECK_DEADLOCK FALSE
