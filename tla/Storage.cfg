SPECIFICATION Spec
CONSTANTS
    None = None
    TornTails = FALSE
    SharedKeys = FALSE
    CompactInGap = FALSE
    PowerLoss = FALSE
    TornAppends = FALSE
INVARIANTS
    RestartRestoresLog
    RecordsReadBack
    LatestWins
    ReplicaFollows
    ProcessedFaithfully
    NoSendOnClosed
PROPERTY ImplementsMemLogStore
CHECK_DEADLOCK FALSE
