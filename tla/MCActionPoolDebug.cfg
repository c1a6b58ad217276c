SPECIFICATION FairSpec
CONSTANTS
    copy = copy
    add = add
    r1 = r1
    r2 = r2
    None = None
    Op = {1, 2}
    OpCode = {copy}
    Rule = {r1, r2}
    PerOp <- MCPerCopy
    MaxFuel = 1
    DebugRules = {r2}
    DebugBreaks = {"start", "tmpaction"}
INVARIANTS CursorInTree CountExact
PROPERTIES Completes
