\* A characteristic without descriptors.
SPECIFICATION Spec
CONSTANTS
    MaxHandle = 9
    Db <- MCDb
    Cccd = {4}
    Notifying = {2}
    WriteMayFail = FALSE
    Disciplined = TRUE
    MaxFilter = 0
    MaxRequests = 9
INVARIANT
    DescriptorsAreItsOwn
\* When the ids are used up and no link is up, nothing more happens.
CHECK_DEADLOCK FALSE
