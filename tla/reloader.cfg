SPECIFICATION Spec
CONSTANTS
    Contents = {"v1", "v2", "bad"}
    Invalid = {"bad"}
    NoKey = "no key"
    Absent = "absent"
    None = "none"
    MaxChanges = 3
    MaxFaults = 1
    MaxReloads = 1
    MaxLate = 2
INVARIANTS
    ReloaderInv
PROPERTIES
    Settles
    ChangeLoaded
CHECK_DEADLOCK FALSE
