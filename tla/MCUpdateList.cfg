SPECIFICATION Spec
CONSTANTS
    c1 = c1
    c2 = c2
    c3 = c3
    Cell <- Cells
    HEAD = HEAD
    POISON = POISON
    MaxUpdates = 6
INVARIANTS
    NoUseAfterFree
PROPERTIES
    ImplementsQueue
    WaitingIsApplied
CHECK_DEADLOCK FALSE
