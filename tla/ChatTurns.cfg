SPECIFICATION MCSpec
CONSTANTS
    Call = {c1, c2}
    MaxOps = 4
SYMMETRY Symmetry
INVARIANTS
    NothingLost
    DeletedIsRecorded
    AloneAlternates
    AlonePromptIsChat
    AloneVersionsShowBranches
PROPERTY
    DeletedFrozen
CHECK_DEADLOCK FALSE
