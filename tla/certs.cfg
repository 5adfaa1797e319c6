SPECIFICATION Spec
CONSTANTS
    Keys = {"a"}
    Secrets = {"s"}
    Contents = {"v1", "v2", "bad"}
    Invalid = {"bad"}
    Unusable = Unusable
    Absent = Absent
    None = None
    Specs <- OneSecret
    MaxChanges = 2
    MaxFaults = 1
    MaxReloads = 1
    MaxLate = 1
INVARIANTS
    CertsInv
PROPERTIES
    RenewalLoaded
    Loaded
    Settles
