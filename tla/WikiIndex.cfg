SPECIFICATION MCSpec
CONSTANTS
    Call = {c1, c2}
    Ask = {a1}
    Path <- MCPath
    WalkOrder <- MCWalkOrder
    SortOrder <- MCSortOrder
    Doc = {"short", "long", "blank"}
    Chunks <- MCChunks
    Args <- MCArgs
    MaxEdits = 1
    Absent = Absent
    NoCall = NoCall
CHECK_DEADLOCK FALSE
SYMMETRY MCSymmetry
INVARIANTS FreshAfterIndexing CapKept InOrderAgrees FoundIfHeld
PROPERTY KeptWhileThere
