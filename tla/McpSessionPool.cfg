SPECIFICATION LiveSpec
CONSTANTS
    Call = {c1, c2}
    Closer = {a1}
    Fp = {f1, f2}
    NoFp = none
    Nobody = nobody
    Pages = 2
    Attempts = 2
    MaxCalls = 3
    MaxCloses = 1
INVARIANTS SessionServes NoSessionLeft PagesInOrder
PROPERTY CallsEnd
CHECK_DEADLOCK FALSE
