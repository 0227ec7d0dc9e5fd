CONSTANTS
    Vocabulary = {t0, t1}
    TokenZero = t0
    Media = Media
    Noise = Noise
    n_max = 1
    BlockSize = 2
    NUbatch = 2
    NCtx = 4
    InferenceFaults = TRUE
    MaxPrompt = 2
    MaxLen = 4
    MaxGenerations = 2
    LostRequests = {"Reset", "Prefill", "Draft"}
    LostReplies = {"Reset", "Prefill", "Draft"}
    LateCalls = {"Reset", "Prefill", "Draft"}
    VanishingCalls = {}
    Restarts = TRUE
    MaxFaults = 1
SPECIFICATION FairSpec
PROPERTIES
    GenerationCompletes
