CONSTANTS
    StatusPoll = {s1, s2}
    SpecPoll = {m1, m2}
    SpecResponse = {"down", "connected", "disconnected"}
    MaxLogLines = 2
    Backlog = 1
    MaxLogs = 2
    MaxHistory = 1
    MaxOps = 2
    MaxLosses = 1
SPECIFICATION FairSpec
INVARIANTS
    LinesOnce
    NothingSkipped
PROPERTIES
    CardsCatchUp
    MetricsCatchUp
