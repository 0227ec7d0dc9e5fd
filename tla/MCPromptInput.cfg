CONSTANTS
    Submission = {p1, p2}
    Shot = {q}
    Batch <- MCBatch
    MaxFiles = 1
    MaxUrls = 2
    MaxTexts = 1
    MaxInstances = 2
SPECIFICATION FairSpec
INVARIANTS
    NothingLeaks
    CapacityKept
    FilesArrive
    TextOnce
PROPERTIES
    SubmissionsEnd
CHECK_DEADLOCK FALSE
