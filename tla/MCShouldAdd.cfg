SPECIFICATION Spec
CONSTANTS
    c1 = c1
    c2 = c2
    CPU <- OneCPU
    UINT_MAX = 15
    ME = 12
    VRR_VSET_SIZE = 4
    Peer <- Peers
    SortPos <- KernelSortPos
    MaxSize = 7
INVARIANT
    ShouldAddClosest
CHECK_DEADLOCK FALSE
