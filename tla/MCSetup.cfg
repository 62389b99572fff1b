SPECIFICATION FairSpec
CONSTANTS
    UINT_MAX = 4
    Node <- Chain
    Adjacent <- ChainAdjacent
    Seed <- SeedMiddle
    VRR_VSET_SIZE = 4
    Path <- ChainPaths
    Junk <- JunkId
    MaxRoutes = 20
    MaxMessages = 2
    MaxAfterFault = 2
    MaxFaults = 1
INVARIANTS
    TypeOK
    Backtrack
    Connected
    NoLoop
PROPERTY
    Tables
    Converges
CHECK_DEADLOCK FALSE
