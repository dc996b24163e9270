SPECIFICATION SpecSplit
VIEW
    WithoutLedger
CONSTANTS
    n1 = n1
    n2 = n2
    n3 = n3
    Node <- Three
    Nil = Nil
    NoCmd = NoCmd
    Cmd = {a}
    MaxTerm = 5
    Standing <- Alternate
    MaxVoteCalls = 1
    Crashing <- JustN3
    LogSpace <- BoundedLogs
    QuorumLoss = FALSE
    BootWindow = FALSE
    MaxIndex = 2
    MaxInFlight = 1
    Applying <- None
    Compacting <- None
INVARIANTS
    LogMatching
    StateMachineSafety
    LeaderCompleteness
    CommittedOnMajority
    MatchIndexSound
CHECK_DEADLOCK FALSE
