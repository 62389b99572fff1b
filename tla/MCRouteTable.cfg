SPECIFICATION Spec
CONSTANTS
    UINT_MAX = 7
    ME = 4
    Phys <- Neighbours
    Path <- Paths
    MaxRoutes = 4
INVARIANTS
    TypeOK
    NeverForwardToSelf
    BothEnds
CHECK_DEADLOCK FALSE
