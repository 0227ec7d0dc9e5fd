CONSTANTS
    Vocabulary = {t0, t1}
    TokenZero = t0
    Media = Media
    Noise = Noise
    n_max = 2
    BlockSize = 3
    NUbatch = 2
    NCtx = 5
    InferenceFaults = FALSE
    MaxPrompt = 2
    MaxLen = 5
    MaxGenerations = 2
    LostRequests = {"Draft"}
    LostReplies = {"Reset", "Prefill", "Draft"}
    LateCalls = {}
    VanishingCalls = {"Draft"}
    Restarts = TRUE
    MaxFaults = 2
SPECIFICATION Spec
INVARIANTS
    DraftGrounded
    HeldWasShipped
    GuardBehindCounter
PROPERTIES
    ServerSpec
CHECK_DEADLOCK FALSE
