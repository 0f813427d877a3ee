SPECIFICATION RegistrySpec
CONSTANTS
    Server = {s1}
    AdminCall = {u1, u2}
    Caller = {c1}
    HostPort = {a1, a2}
    MaxIds = 2
    MaxOps = 4
SYMMETRY Symmetry
INVARIANTS
    EveryServerFresh
    NoClientLeft
PROPERTY
    BackOnlyByOlderUpdate
CHECK_DEADLOCK FALSE
