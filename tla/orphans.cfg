SPECIFICATION Spec
CONSTANTS
    Keys <- OneKey
    Hosts <- TwoHosts
    AnyHost = ""
    Backends <- MCBackends
    RejectedBackends <- MCRejected
    ServerNeutral <- MCNeutral
    NoBackend = "none"
    HTTPSRedirect = "redirect"
    IngressSpecs <- TwoHostSpec
    KeyLabels <- MCKeyLabels
    HostLabels <- MCHostLabels
    HTTPServer = TRUE
    Persistent = TRUE
    Patient = TRUE
    MaxChanges = 1
    MaxFaults = 0
    MaxReloads = 0
    MaxLate = 0
    None = None
    Absent = Absent
PROPERTIES
    StoredGone
