\* Discoveries in any order.
SPECIFICATION Spec
CONSTANTS
    MaxHandle = 9
    Db <- MCDb
    Cccd = {4}
    Notifying = {2}
    WriteMayFail = FALSE
    Disciplined = FALSE
    MaxFilter = 0
    MaxRequests = 5
INVARIANT
    AssertionsHold
\* When the ids are used up and no link is up, nothing more happens.
CHECK_DEADLOCK FALSE
