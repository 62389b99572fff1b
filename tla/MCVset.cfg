SPECIFICATION Spec
CONSTANTS
    c1 = c1
    c2 = c2
    CPU <- MCCPU
    UINT_MAX = 15
    ME = 12
    VRR_VSET_SIZE = 4
    Peer <- PeersAndMe
    SortPos <- KernelSortPos
    MaxSize = 6
INVARIANTS
    TypeOK
    NoDuplicates
    ListFitsCounter
    VsetBounded
PROPERTY
    ExactBumpSucceeds
SYMMETRY Symmetry
CHECK_DEADLOCK FALSE
