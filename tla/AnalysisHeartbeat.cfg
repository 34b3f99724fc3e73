CONSTANTS
    Files <- MCFile
    Kinds <- MCKinds
    Keys <- MCKeys
    Commands <- MCCommands
    Revs <- MCRev
    Workers <- MCWorkers
    KindOf <- MCKindOf
    Frozen = TRUE
    MaxAttempt = 4
    MaxRetry = 1
    Pasts <- MCOnePast
    Beating <- MCKinds
    MaxRepeats = 1
SPECIFICATION ASpec
INVARIANTS
    HeartbeatLosesNothing
