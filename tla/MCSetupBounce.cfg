SPECIFICATION Spec
CONSTANTS
    UINT_MAX = 4
    Node <- Chain
    Adjacent <- ChainAdjacent
    Seed <- SeedEnd
    VRR_VSET_SIZE = 4
    Path <- ChainPaths
    Junk <- JunkId
    MaxRoutes = 20
    MaxMessages = 4
    MaxAfterFault = 2
    MaxFaults = 0
PROPERTY
    NotBounced
CHECK_DEADLOCK FALSE
