SPECIFICATION Spec
CONSTANTS
    c1 = c1
    c2 = c2
    Client <- Two
    Nobody = Nobody
    MaxIndex = 2
    MaxTerm = 2
    ChanCap = 1
    Installing = TRUE
    MaxRestarts = 1
    SnapshotThreshold = 2
INVARIANTS
    TypeOK
    AppliedInOrder
    SuccessIsOwn
    OneResult
PROPERTY
    CommittedIsApplied
CHECK_DEADLOCK FALSE
