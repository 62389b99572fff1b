SPECIFICATION TimedSpec
CONSTANTS
    a = a
    b = b
    c = c
    Node <- MCNode
    Hears <- BothWays
    Mortal <- NobodyDies
    VRR_FAIL_TIMEOUT = 4
    VRR_ACTIVE_TIMEOUT = 8
    VRR_PSET_SIZE = 20
    ChanCap = 2
    UpdateCap = 2
    Lossy <- BothWays
PROPERTY
    SomebodyActivates
