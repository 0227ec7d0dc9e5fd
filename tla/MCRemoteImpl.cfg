CONSTANTS
    Vocabulary = {t1, t2}
    Media = Media
    EmbdBatches = TRUE
    n_max = 2
    BlockSize = 2
    MaxPrompt = 3
    MaxLen = 6
    MaxGenerations = 2
SPECIFICATION Spec
INVARIANTS
    TypeOK
    FeatsFresh
    ShippedIsCommitted
    AcceptedWithinProposed
SYMMETRY Permuted
