SPECIFICATION Spec
CONSTANTS
    Keys <- OneKey
    Hosts <- TwoHosts
    AnyHost = ""
    Backends <- MCBackends
    RejectedBackends <- MCRejected
    ServerNeutral <- MCNeutral
    NoBackend = "none"
    HTTPSRedirect = "redirect"
    IngressSpecs <- UpdateSpecs
    KeyLabels <- MCKeyLabels
    HostLabels <- MCHostLabels
    HTTPServer = FALSE
    Persistent = TRUE
    Patient = TRUE
    MaxChanges = 2
    MaxFaults = 1
    MaxReloads = 1
    MaxLate = 1
    None = None
    Absent = Absent
INVARIANTS
    SyncedInstalled
PROPERTIES
    StaleRemoved
    Converges
