SPECIFICATION Spec
CONSTANTS
    Keys <- OneKey
    Hosts <- OneHost
    HostLists <- OneHostLists
    Servers <- BothServers
    Verbose = FALSE
    MaxChanges = 2
    MaxFaults = 1
    MaxReloads = 1
    MaxLate = 1
    Absent = Absent
    Unset = Unset
INVARIANTS
    CacheInv
PROPERTIES
    Restored
    LoggingOn
    QuietWhenAllLogged
