SPECIFICATION MCFairSpec
CONSTANTS
    Call = {c1, c2}
    Model = {"a", "b"}
    Caps = {0, 1}
    MaxChunks = 2
    Buffer = 1
INVARIANTS
    SlotsKept
    NothingStays
PROPERTIES
    SlotProtectsModel
    CallsEnd
CHECK_DEADLOCK FALSE
