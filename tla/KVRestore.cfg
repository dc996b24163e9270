SPECIFICATION Spec
CONSTANTS
    c1 = c1
    c2 = c2
    Client <- One
    Nobody = Nobody
    MaxIndex = 2
    MaxTerm = 2
    ChanCap = 1
    Installing = TRUE
    MaxRestarts = 0
    SnapshotThreshold = 0
INVARIANT
    MachineIsCurrent
CHECK_DEADLOCK FALSE
