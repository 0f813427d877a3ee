SPECIFICATION CapFairSpec
CONSTANTS
    MaxTok = 512
    Prompts <- LongMessage
    SummaryRunes <- Sums
PROPERTY CapEnds
CHECK_DEADLOCK FALSE
