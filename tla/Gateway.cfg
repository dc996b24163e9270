SPECIFICATION SpecLed
CONSTANTS
    n1 = n1
    n2 = n2
    n3 = n3
    Node <- Three
    Nil = Nil
    NoCmd = NoCmd
    Standing <- N2Stands
    MaxVoteCalls = 2
    Crashing <- JustN1
    MaxTerm = 2
    LogSpace <- OneLog
    QuorumLoss = TRUE
    BootWindow = FALSE
    Client = {c}
    Known <- AllButN3
INVARIANTS
    AtMostOneActiveLeader
    ElectedByMajority
PROPERTY
    RedirectsGoForward
CHECK_DEADLOCK FALSE
