SPECIFICATION SpecStale
VIEW
    WithoutLedger
CONSTANTS
    n1 = n1
    n2 = n2
    n3 = n3
    Node <- Three
    Nil = Nil
    NoCmd = NoCmd
    Cmd = {a}
    MaxTerm = 2
    Standing <- None
    MaxVoteCalls = 1
    Crashing <- None
    LogSpace <- BoundedLogs
    QuorumLoss = FALSE
    BootWindow = FALSE
    MaxIndex = 3
    MaxInFlight = 2
    Applying <- JustN2
    Compacting <- JustN2
INVARIANT
    NextIndexInLog
CHECK_DEADLOCK FALSE
