SPECIFICATION FairSpec
CONSTANTS
    Addr = {a1}
    Req = {r1, r2}
    Admin = {u1}
    NoAddr = NoAddr
    MaxCloses = 2
INVARIANTS
    LoadIsHolders
    UnloadWaited
PROPERTIES
    ForgottenOnlyDrains
    EverybodyEnds
