CONSTANTS
    MaxBlocks = 5
    MaxBasic = 4
    MaxEdges = 4
    MaxOut = 2
    Parallel <- ParallelRemove
CHECK_DEADLOCK FALSE
SPECIFICATION Spec
INVARIANTS
    PhiSlotsMatch
