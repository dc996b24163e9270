SPECIFICATION SpecLed
CONSTANTS
    n1 = n1
    n2 = n2
    n3 = n3
    n4 = n4
    Node <- Four
    Nil = Nil
    NoCmd = NoCmd
    Standing <- N2ForTwo
    MaxVoteCalls = 2
    Crashing <- JustN1
    MaxTerm = 2
    LogSpace <- OneLog
    QuorumLoss = TRUE
    BootWindow = FALSE
    Steady <- TwoSteady
    Probing <- N2AndN4
PROPERTY
    SteadyLeaderStays
CHECK_DEADLOCK FALSE
