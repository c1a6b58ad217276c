SPECIFICATION Spec
SYMMETRY MCSymmetry
CONSTANTS
    o1 = o1
    o2 = o2
    o3 = o3
    o4 = o4
    Id = {o1, o2, o3, o4}
    Copy = Copy
    Store = Store
    Load = Load
    OpCode = {Copy, Store, Load}
    Listed = {Store, Load}
    Nil = Nil
INVARIANTS TypeOK LinksSound ShadowsAgree
PROPERTIES ImplementsLists
