\* A stale leader adopts a term without saving it, and restarts.
CONSTANTS
    n1 = n1
    n2 = n2
    n3 = n3
    n4 = n4
    n5 = n5
    c1 = c1
    Nil = Nil
    Server = {n1, n2, n3, n4, n5}
    Command = {c1}
    MaxTerm = 3
    MaxLog = 1
    MaxAppends = 12
    Electable = {}
    Crashable = {n3}
    LateReplies = FALSE
    StaleRounds = FALSE
    SaveFaults = FALSE
    LogFaults = FALSE
    UnsavedCrash = TRUE
SPECIFICATION StaleLeadersSpec
INVARIANT
    CommittedOnQuorum
