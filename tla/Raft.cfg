SPECIFICATION SpecLed
VIEW
    WithoutLedger
CONSTANTS
    n1 = n1
    n2 = n2
    n3 = n3
    Node <- Three
    Nil = Nil
    NoCmd = NoCmd
    Cmd = {a}
    MaxTerm = 2
    Standing <- ThenN2
    MaxVoteCalls = 1
    Crashing <- JustN2
    LogSpace <- BoundedLogs
    QuorumLoss = TRUE
    BootWindow = FALSE
    MaxIndex = 2
    MaxInFlight = 1
    Applying <- JustN2
    Compacting <- JustN2
INVARIANTS
    StateMachineSafety
    LeaderCompleteness
    CommittedOnMajority
    MatchIndexSound
    IndicesOrdered
PROPERTIES
    LeaderAppendOnly
    RefinesElection
CHECK_DEADLOCK FALSE
