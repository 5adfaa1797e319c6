SPECIFICATION Spec
CONSTANTS
    Keys <- OneKey
    Hosts <- OneHost
    HostLists <- OneHostLists
    Servers <- BothServers
    Verbose = TRUE
    MaxChanges = 0
    MaxFaults = 0
    MaxReloads = 0
    MaxLate = 0
    Absent = Absent
    Unset = Unset
PROPERTIES
    Suppressed
