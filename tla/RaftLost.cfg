SPECIFICATION SpecDeposed
VIEW
    WithoutLedger
CONSTANTS
    n1 = n1
    n2 = n2
    n3 = n3
    Node <- Three
    Nil = Nil
    NoCmd = NoCmd
    Cmd = {a}
    MaxTerm = 3
    Standing <- N2ForThree
    MaxVoteCalls = 1
    Crashing <- None
    LogSpace <- BoundedLogs
    QuorumLoss = TRUE
    BootWindow = FALSE
    MaxIndex = 2
    MaxInFlight = 2
    Applying <- None
    Compacting <- None
INVARIANT
    CommittedOnMajority
CHECK_DEADLOCK FALSE
