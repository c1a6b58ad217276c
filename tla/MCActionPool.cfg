SPECIFICATION Spec
CONSTANTS
    copy = copy
    add = add
    r1 = r1
    r2 = r2
    None = None
    Op <- MCOp
    OpCode = {copy, add}
    Rule = {r1, r2}
    PerOp <- MCPerOp
    MaxFuel = 2
    DebugRules = {}
    DebugBreaks = {}
VIEW MCView
INVARIANTS TypeOK Quiescent NoStaleDispatch NoOpSkipped
PROPERTIES AdvanceIsStrictSuccessor
