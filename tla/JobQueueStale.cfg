CONSTANTS
    Files <- MCFiles
    Kinds <- MCKinds
    Keys <- MCKeys
    Commands <- MCCommands
    Revs <- MCRevs
    MaxAttempt = 2
    MaxRetry = 1
SPECIFICATION Spec
INVARIANTS
    ReadyFindsMetadata
CONSTRAINT
    FewClaims
