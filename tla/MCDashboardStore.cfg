\* A page whose first GET of the configuration is lost stays without one.
CONSTANTS
    Load = {"load"}
    Save = {"save"}
    Action = {"start-daemon", "stop-all"}
    Field = {"httpPort", "grpcPort"}
    WritesFail = FALSE
    MaxEdits = 2
    MaxLosses = 1
SPECIFICATION FairSpec
INVARIANTS
    TypeOK
    CleanIsSaved
    PresetDecides
PROPERTIES
    StartedIsSaved
    BusyEnds
CHECK_DEADLOCK FALSE
