\* Writes succeed and a link is only opened with nothing left to answer.
SPECIFICATION FairSpec
CONSTANTS
    AppOpcode = {"read", "raw"}
    RawOpcode = {"raw"}
    ServerMtu = {10}
    PeerRequests = FALSE
    SlotCalls = {"request", "command", "close", "cancel"}
    CancelsHead = FALSE
    ReconnectPending = FALSE
    MaxConnections = 2
    MaxRequests = 3
    MaxTx = 1
    MaxRx = 1
    WriteMayFail = FALSE
INVARIANTS
    HeadInFlight
    ConfirmedOnce
    CallbackGetsItsAnswer
PROPERTY
    RequestEnds
\* The bounds leave the application with nothing to do, and setEnabled() on a
\* deleted notifier may end the process.
CHECK_DEADLOCK FALSE
