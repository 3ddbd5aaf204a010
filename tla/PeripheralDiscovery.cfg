\* An application that waits for interfering discoveries, a server that cuts
\* its responses anywhere and answers every request, and links that end and
\* begin at any time.
SPECIFICATION FairSpec
CONSTANTS
    MaxHandle = 9
    Db <- MCDb
    Cccd = {4}
    Notifying = {2}
    WriteMayFail = TRUE
    Disciplined = TRUE
    MaxFilter = 2
    MaxRequests = 8
INVARIANTS
    TypeOK
    AssertionsHold
    NotificationsAreKnown
    PendingMatchesRequests
    ServicesComplete
    CharacteristicsComplete
    DescriptorsComplete
    AnnouncedAfterLast
PROPERTIES
    NotificationIsConfigured
    DiscoveryIsAnnounced
    FilteredDiscoveryEnds
\* When the ids are used up and no link is up, nothing more happens.
CHECK_DEADLOCK FALSE
