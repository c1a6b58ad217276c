SPECIFICATION Spec
SYMMETRY MCSymmetry
VIEW MCView
CONSTANTS
    p1 = p1
    p2 = p2
    i1 = i1
    a1 = a1
    f1 = f1
    b1 = b1
    b2 = b2
    Op <- MCOp
    Block = {b1, b2}
    Kind <- MCKind
    Guarded <- MCGuarded
    MaxOrd = 15
    Gap = 4
INVARIANTS TypeOK OrderMonotone PhisFirst
PROPERTIES ComparisonStable
