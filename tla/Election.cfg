SPECIFICATION QuorateSpec
CONSTANTS
    n1 = n1
    n2 = n2
    n3 = n3
    Node <- Three
    Nil = Nil
    NoCmd = NoCmd
    Standing <- TwoStand
    MaxVoteCalls = 3
    Crashing <- Three
    MaxTerm = 2
    LogSpace <- OneLog
    QuorumLoss = FALSE
    BootWindow = FALSE
SYMMETRY Symmetry
INVARIANTS
    TypeOK
    AtMostOneActiveLeader
    ElectionSafety
    OneVotePerTerm
    ElectedByMajority
    LeaderIDWasElected
PROPERTY
    DurableVote
CHECK_DEADLOCK FALSE
