SPECIFICATION SpecStaleSuffix
VIEW
    WithoutLedger
CONSTANTS
    n1 = n1
    n2 = n2
    n3 = n3
    n4 = n4
    n5 = n5
    Node <- Five
    Nil = Nil
    NoCmd = NoCmd
    Cmd = {a}
    MaxTerm = 2
    Standing <- None
    MaxVoteCalls = 1
    Crashing <- None
    LogSpace <- BoundedLogs
    QuorumLoss = FALSE
    BootWindow = FALSE
    MaxIndex = 2
    MaxInFlight = 2
    Applying <- JustN1
    Compacting <- JustN1
INVARIANT
    LogMatching
CHECK_DEADLOCK FALSE
