CONSTANTS
    o1 = o1
    o2 = o2
    o3 = o3
    Op <- ThreeOps
    NoOp = NoOp
    Pinned <- MCPinned
    Storage <- MCStorage
    Locked <- MCLocked
    MaxVn = 3
    MaxIn = 2
    MaxSlots = 2
SPECIFICATION Spec
INVARIANT
    NoDanglingRead
