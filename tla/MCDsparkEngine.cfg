CONSTANTS
    NCtx = 5
    TokenZero = t0
    Token = {t0, t1}
    Features = {h}
    Noise = Noise
    BlockSize = 2
    NUbatch = 2
    InferenceFaults = TRUE
    MaxPos = 4
    MaxRun = 3
SPECIFICATION Spec
INVARIANTS
    TypeOK
    ConfirmedHeld
    ConfirmedClean
PROPERTIES
    MarkRetreatsOnlyByReset
    HeldSpec
