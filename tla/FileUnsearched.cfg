SPECIFICATION FairSpec
CONSTANTS
    Upload = {u1}
    Model = {"a", "b"}
    MaxFiles = 1
    MaxKills = 0
    NoModel = "no model"
INVARIANTS
    SentWithoutSearch
CHECK_DEADLOCK FALSE
