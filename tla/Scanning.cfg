\* Scans that start, fail, stop and start again from any slot.
SPECIFICATION Spec
CONSTANTS
    Address <- MCAddress
    AppAddress <- MCAppAddress
    Advertisement <- MCAdvertisement
    Beyond <- MCBeyond
    Filters <- MCFilters
    Discoverable <- MCDiscoverable
    MaxScans = 2
    MaxEvents = 2
    MaxReports = 2
INVARIANTS
    TypeOK
    ScanIsWhole
    ServicesHeard
    NameHeard
PROPERTY
    AnnouncedIffAskedFor
\* Without scans left to start there may be nothing to do.
CHECK_DEADLOCK FALSE
