\* A leader with entries loses its term to n2, which may restart; the log store may fail.
CONSTANTS
    n1 = n1
    n2 = n2
    n3 = n3
    c1 = c1
    Nil = Nil
    Server = {n1, n2, n3}
    Command = {c1}
    MaxTerm = 2
    MaxLog = 1
    MaxAppends = 7
    Electable = {n2}
    Crashable = {n2}
    LateReplies = FALSE
    StaleRounds = FALSE
    SaveFaults = FALSE
    LogFaults = TRUE
    UnsavedCrash = FALSE
SPECIFICATION ElectedSpec
INVARIANTS
    TypeOK
    StateMachineSafety
    LeaderCompleteness
    CommittedOnQuorum
PROPERTIES
    LeaderAppendOnly
