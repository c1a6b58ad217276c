SPECIFICATION Spec
CONSTANTS
    Id = {1, 2, 3, 4}
    KeyOf <- MCKeyOf
    Nil = Nil
    MaxVersion = 6
INVARIANTS TypeOK ListIsMap NextIsSuccessor MemoFresh
