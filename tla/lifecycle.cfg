SPECIFICATION Spec
CONSTANTS
    AccessLog = TRUE
    Verbose = TRUE
    MaxTroubles = 2
    MaxOld = 1
    None = None
INVARIANTS
    TypeOK
    NamesCurrent
    StrayWatcherIdle
PROPERTIES
    LoadsEnd
    Served
    Rests
CHECK_DEADLOCK FALSE
