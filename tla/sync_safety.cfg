SPECIFICATION Spec
CONSTANTS
    Keys <- TwoKeys
    Hosts <- AndAny
    AnyHost = ""
    Backends <- MCBackends
    RejectedBackends <- MCRejected
    ServerNeutral <- MCNeutral
    NoBackend = "none"
    HTTPSRedirect = "redirect"
    IngressSpecs <- MixedSpecs
    KeyLabels <- MCKeyLabels
    HostLabels <- MCHostLabels
    HTTPServer = TRUE
    Persistent = TRUE
    Patient = FALSE
    MaxChanges = 1
    MaxFaults = 0
    MaxReloads = 1
    MaxLate = 1
    None = None
    Absent = Absent
INVARIANTS
    SyncInv
PROPERTIES
    WantedKept
    OthersUntouched
    Converges
    Quiesces
    ImplementsTable
