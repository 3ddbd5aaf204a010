\* Every fault and every re-entrant call, except slots of disconnected() that
\* reconnect from inside writeNotify().
SPECIFICATION FairSpec
CONSTANTS
    p1 = p1
    p2 = p2
    Packet <- MCPacket
    MaxTx = 3
    MaxRx = 2
    WriteMayFail = TRUE
    ReconnectsUnder = {"send"}
INVARIANTS
    TypeOK
    ReadQueueDrained
    WriterAwake
PROPERTIES
    FifoChannel
    AttemptEnds
    QueueMoves
\* setEnabled() on a deleted notifier may end the process.
CHECK_DEADLOCK FALSE
