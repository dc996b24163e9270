SPECIFICATION Spec
CONSTANTS
    NoCmd = NoCmd
    Cmd = {a}
    MaxTerm = 2
    MaxLen = 3
    MaxLag = 1
INVARIANTS
    StoredIsImage
    ReadsAgree
    SnapshotCoversLog
PROPERTY
    RefinesDurable
