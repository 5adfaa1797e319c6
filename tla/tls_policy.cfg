SPECIFICATION Spec
CONSTANTS
    Keys = {"a"}
    Policies = {"p1", "p2", "bad"}
    Rejected = {"bad"}
    Default = Default
    Plain = Plain
    None = None
    MaxChanges = 3
    MaxFaults = 1
    MaxReloads = 1
INVARIANTS
    PolicyInv
PROPERTIES
    Installed
    Settles
    PolicyRemoved
