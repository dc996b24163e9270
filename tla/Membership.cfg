SPECIFICATION SpecLed
CONSTANTS
    n1 = n1
    n2 = n2
    n3 = n3
    n4 = n4
    n5 = n5
    Server <- Four
    Founders <- Three
    Nil = Nil
    NoCmd = NoCmd
    Cmd = {a}
    Standing <- Competing
    Restarting <- JustN2
    Applying <- N1AndN2
    MaxIndex = 2
    MaxChanges = 1
    Settled = FALSE
INVARIANTS
    OneLeaderPerTerm
    LeaderKeepsCommitted
    SelfIsNoPeer
CHECK_DEADLOCK FALSE
