SPECIFICATION Spec
CONSTANTS
    Vn = {1, 2, 3, 4, 5}
    Unique = {5}
    Size <- OneSize
    MaxOff = 0
    Point = {1}
    Start <- DominantStart
    PartOf = {}
    Unmerged = {2}
    Calls = {}
    MaxEdits = 1
INVARIANTS AllTestsFresh
