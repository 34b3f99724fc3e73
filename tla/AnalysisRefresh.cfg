CONSTANTS
    Files <- MCFile
    Kinds <- MCKinds
    Keys <- MCKeys
    Commands <- MCCommands
    Revs <- MCRevs
    Workers <- MCWorkers
    KindOf <- MCKindOf
    Frozen = FALSE
    MaxAttempt = 4
    MaxRetry = 1
    Pasts <- MCOnePast
    Beating <- MCBeating
    MaxRepeats = 1
SPECIFICATION ASpec
PROPERTIES
    AnalysisEnds
