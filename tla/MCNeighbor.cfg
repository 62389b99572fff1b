SPECIFICATION Spec
CONSTANTS
    a = a
    b = b
    Node <- MCNode
    Hears <- BothWays
    Mortal <- MCNode
    VRR_FAIL_TIMEOUT = 2
    VRR_ACTIVE_TIMEOUT = 1
    VRR_PSET_SIZE = 1
    ChanCap = 1
    UpdateCap = 2
INVARIANTS
    TypeOK
    PstateFresh
    SilentIsFailed
PROPERTY
    OnlyFailedForgotten
SYMMETRY Symmetry
CHECK_DEADLOCK FALSE
