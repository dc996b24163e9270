SPECIFICATION SpecFrom
CONSTANTS
    n1 = n1
    n2 = n2
    n3 = n3
    d = d
    presetNodes <- ThreePresets
    Dynamic = {d}
    Handler = {h1, h2}
    MaxRequests = 2
    Rounds = 2
PROPERTY
    DroppedWasStopped
CHECK_DEADLOCK FALSE
