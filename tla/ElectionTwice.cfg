SPECIFICATION SpecLed
CONSTANTS
    n1 = n1
    n2 = n2
    n3 = n3
    Node <- Three
    Nil = Nil
    NoCmd = NoCmd
    Standing <- TwoStand
    MaxVoteCalls = 3
    Crashing <- Nobody
    MaxTerm = 1
    LogSpace <- OneLog
    QuorumLoss = TRUE
    BootWindow = FALSE
INVARIANT
    ElectionSafety
CHECK_DEADLOCK FALSE
