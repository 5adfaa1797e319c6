SPECIFICATION Spec
CONSTANTS
    IntLimit = 128
    Kibi = 4
    Cases <- AllCases
    Address <- Addresses
    HostsOf <- MCHostsOf
    OriginsOf <- MCOriginsOf
INVARIANTS
    TypeOK
    Guarded
    Preflighted
    CORSAnswered
    Inspected
    BodyLimited
    Routed
CHECK_DEADLOCK FALSE
