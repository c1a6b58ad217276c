CONSTANTS
    MaxBlocks = 5
    MaxBasic = 4
    MaxEdges = 4
    MaxOut = 2
    Parallel <- NoParallel
CHECK_DEADLOCK FALSE
SPECIFICATION Spec
INVARIANTS
    TypeOK
    EdgesReciprocal
    ShadowsExact
    PhiSlotsMatch
PROPERTIES
    ImplementsFlowGraph
