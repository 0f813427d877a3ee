SPECIFICATION FairSpec
CONSTANTS
    Kinds = {"reasoning", "both", "blank"}
    Cap = 1
    MaxMsgs = 4
INVARIANTS
    FinalIsWhole
PROPERTIES
    IsAnswerStream
    EverybodyEnds
