SPECIFICATION ElectionSpec
CONSTANTS
    n1 = n1
    n2 = n2
    n3 = n3
    Node <- Three
    Nil = Nil
    NoCmd = NoCmd
    Standing <- TwoStand
    MaxVoteCalls = 3
    Crashing <- Three
    MaxTerm = 1
    LogSpace <- OneLog
    QuorumLoss = FALSE
    BootWindow = TRUE
INVARIANT
    OneVotePerTerm
CHECK_DEADLOCK FALSE
