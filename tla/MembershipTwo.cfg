SPECIFICATION SpecLed
CONSTANTS
    n1 = n1
    n2 = n2
    n3 = n3
    n4 = n4
    n5 = n5
    Server <- Five
    Founders <- Three
    Nil = Nil
    NoCmd = NoCmd
    Cmd = {}
    Standing <- Apart
    Restarting <- Nobody
    Applying <- Five
    MaxIndex = 2
    MaxChanges = 2
    Settled = TRUE
INVARIANTS
    OneLeaderPerTerm
CHECK_DEADLOCK FALSE
