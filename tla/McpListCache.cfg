SPECIFICATION Spec
CONSTANTS
    Call = {c1, c2}
    Fp = {f1, f2}
    NoFp = none
    Coalesce = TRUE
    TTL = 1
    MaxCall = 1
    MaxTime = 3
    MaxChanges = 1
INVARIANTS AgeBounded InvalidationLasts
