CONSTANTS
    Files <- MCFiles
    Kinds <- MCKinds
    Keys <- MCKeys
    Commands <- MCCommands
    Revs <- MCRev
    Workers <- MCWorkers
    KindOf <- MCKindOf
    Frozen = TRUE
    MaxAttempt = 4
    MaxRetry = 1
    Pasts <- MCPasts
    Beating <- MCBeating
    MaxRepeats = 1
SPECIFICATION ASpec
INVARIANTS
    ATypeOK
    OneHolder
    InFlightIsTracked
    BlockedByFailure
PROPERTIES
    RunsDiff
