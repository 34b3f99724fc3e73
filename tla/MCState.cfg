CONSTANTS
    Files <- MCFiles
    Kinds <- MCKinds
    Keys <- MCKeys
    Commands <- MCCommands
    Revs <- MCRevs
    MaxAttempt = 2
    MaxRetry = 1
    Calls <- MCCalls
    Control <- MCControl
    Rows <- MCRows
    RowOf <- MCRowOf
    Depth = 2
    MaxBatch = 2
    Impatient <- MCImpatient
    NoCall = NoCall
SPECIFICATION MCSpec
INVARIANTS
    TypeOK
    EligibleExact
    FenceMeansLeased
    CompletedHasResult
    LeasedAfterMetadata
    WriterTypeOK
    AnswersTrue
    CanceledInTime
PROPERTIES
    CompletedIsFinal
    CallsReturn
CONSTRAINTS
    FewClaims
    FewOfAKind
