\* The comment in close() against a write that fails inside send().
SPECIFICATION Spec
CONSTANTS
    p1 = p1
    p2 = p2
    Packet <- MCPacket
    MaxTx = 2
    MaxRx = 1
    WriteMayFail = TRUE
    ReconnectsUnder = {}
INVARIANT
    ClosedDropsAllData
CHECK_DEADLOCK FALSE
