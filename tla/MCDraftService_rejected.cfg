CONSTANTS
    Server = {s1}
    Token = {t0, t1}
    BlockSize = 2
    Watch = TRUE
    MaxCalls = 6
    MaxAbandoned = 0
SPECIFICATION Spec
INVARIANTS
    RejectedWasRejected
CHECK_DEADLOCK FALSE
