SPECIFICATION TimedSpec
CONSTANTS
    a = a
    b = b
    c = c
    Node <- MCNode3
    Hears <- BothWaysAndThird
    Mortal <- NobodyDies
    VRR_FAIL_TIMEOUT = 3
    VRR_ACTIVE_TIMEOUT = 1
    VRR_PSET_SIZE = 20
    ChanCap = 1
    UpdateCap = 2
    Lossy <- BToA
INVARIANT
    JoinThroughActiveNeighbor
PROPERTY
    LinkStabilises
