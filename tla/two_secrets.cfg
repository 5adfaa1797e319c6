SPECIFICATION Spec
CONSTANTS
    Keys = {"a"}
    Secrets = {"s", "t"}
    Contents = {"v1", "v2", "bad"}
    Invalid = {"bad"}
    Unusable = Unusable
    Absent = Absent
    None = None
    Specs <- BothSpecs
    MaxChanges = 0
    MaxFaults = 0
    MaxReloads = 0
    MaxLate = 0
PROPERTIES
    Loaded
