CONSTANTS
    Files <- MCFiles
    Kinds <- MCKinds
    Keys <- MCKeys
    Commands <- MCCommands
    Revs <- MCThreeRevs
    Workers <- MCTrio
    KindOf <- MCTrioKindOf
    Frozen = FALSE
    MaxAttempt = 3
    MaxRetry = 1
    Pasts <- MCFailedPast
    Beating <- MCBeating
    MaxRepeats = 1
SPECIFICATION ASpec
INVARIANTS
    DrainedIsDone
