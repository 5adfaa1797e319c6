SPECIFICATION Spec
CONSTANTS
    None = None
    MaxChanges = 3
    MaxDeletions = 2
    MaxFaults = 1
    MaxPatchFaults = 1
    MaxReloads = 2
INVARIANTS
    WafInv
PROPERTIES
    Backed
    Collected
CHECK_DEADLOCK FALSE
