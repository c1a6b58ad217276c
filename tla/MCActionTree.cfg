SPECIFICATION FairSpec
CONSTANTS
    universal = universal
    start = start
    fullloop = fullloop
    mainloop = mainloop
    oppool = oppool
    tail = tail
    Root = universal
    Node <- MCNode
    Children <- MCChildren
    Parent <- MCParent
    Flags <- MCFlags
    Pool = {oppool}
    MaxRestarts = 1
    Callback = {TRUE, FALSE}
    MaxFuel = 3
    DebugNodes = {mainloop}
    DebugBreaks = {"action", "tmpstart"}
INVARIANTS TypeOK EachChildOnce Fixpoint OncePerFunction RestartHonoured CountExact
PROPERTIES Completes
