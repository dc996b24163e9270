SPECIFICATION ElectionSpec
CONSTANTS
    n1 = n1
    n2 = n2
    n3 = n3
    Node <- Three
    Nil = Nil
    NoCmd = NoCmd
    Standing <- TwoStand
    MaxVoteCalls = 3
    Crashing <- Three
    MaxTerm = 1
    LogSpace <- TwoLogs
    QuorumLoss = TRUE
    BootWindow = FALSE
SYMMETRY Symmetry
INVARIANTS
    AtMostOneActiveLeader
    ElectedByMajority
CHECK_DEADLOCK FALSE
