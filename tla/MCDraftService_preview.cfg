\* The bounded server stops calling.
CONSTANTS
    Server = {s1}
    Token = {t0, t1}
    BlockSize = 2
    Watch = TRUE
    MaxCalls = 6
    MaxAbandoned = 0
SPECIFICATION FairSpec
INVARIANTS
    ConfirmedIsGiven
    PendingIsCurrent
PROPERTIES
    CallsReturn
CHECK_DEADLOCK FALSE
