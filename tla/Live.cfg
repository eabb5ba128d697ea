SPECIFICATION FairSpec
CONSTANT None = None
PROPERTIES
    CatchesUp
    Converges
    RequestsEnd
    PublishCompletes
    ChangeCompletes
CHECK_DEADLOCK FALSE
