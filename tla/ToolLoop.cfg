SPECIFICATION FairLoopSpec
CONSTANTS
    MaxTok = 512
    Prompts <- Histories
    SummaryRunes <- Sums
    MaxRounds = 2
    MaxCalls = 2
    ResultRunes <- Results
INVARIANTS
    CutToFit
    EffectsOnRecord
    PromptIsRecent
PROPERTY
    ClientHearsEnd
CHECK_DEADLOCK FALSE
