\* The bounded servers stop calling; a lock-up would violate CallsReturn.
CONSTANTS
    Server = {s1, s2}
    Token = {t0}
    BlockSize = 1
    Watch = FALSE
    MaxCalls = 8
    MaxAbandoned = 1
SPECIFICATION FairSpec
INVARIANTS
    SessionsUnshared
    EngineExclusive
PROPERTIES
    CallsReturn
CHECK_DEADLOCK FALSE
