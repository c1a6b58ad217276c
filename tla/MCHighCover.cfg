SPECIFICATION Spec
CONSTANTS
    Vn = {1, 2, 3, 4, 5, 6}
    Unique = {5}
    Size <- MCSize
    MaxOff = 2
    Point = {1}
    Start <- MCStart
    PartOf <- MCPartOf
    Unmerged = {6}
    Calls = {1}
    MaxEdits = 1
VIEW MCView
INVARIANTS TypeOK CoverFresh TestsFresh
PROPERTIES NoMergeAlive
