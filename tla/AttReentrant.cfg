\* Every fault and every re-entrant call: writes fail, slots and callbacks
\* request, send, close and reconnect, and requests are left over from the
\* link before.
SPECIFICATION Spec
CONSTANTS
    AppOpcode = {"read"}
    RawOpcode = {}
    ServerMtu = {10, 50}
    PeerRequests = TRUE
    SlotCalls = {"request", "command", "close", "connect", "cancel"}
    CancelsHead = FALSE
    ReconnectPending = TRUE
    MaxConnections = 2
    MaxRequests = 3
    MaxTx = 2
    MaxRx = 1
    WriteMayFail = TRUE
INVARIANTS
    TypeOK
    OneOutstanding
    ConfirmationNotLost
PROPERTY
    OneAtATime
\* setEnabled() on a deleted notifier may end the process.
CHECK_DEADLOCK FALSE
