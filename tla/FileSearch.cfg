SPECIFICATION MCFairSpec
CONSTANTS
    Upload = {u1, u2}
    Model = {"a", "b"}
    MaxFiles = 1
    MaxKills = 1
    NoModel = "no model"
    NoDocument = NoDocument
INVARIANTS
    QuotaKept
    FilesWhole
    ReadyIsFound
    IndexingExcused
PROPERTY
    UploadsEnd
CHECK_DEADLOCK FALSE
