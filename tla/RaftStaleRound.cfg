\* A leader is demoted between its role check and its sendHeartbeats.
CONSTANTS
    n1 = n1
    n2 = n2
    n3 = n3
    c1 = c1
    Nil = Nil
    Server = {n1, n2, n3}
    Command = {c1}
    MaxTerm = 4
    MaxLog = 2
    MaxAppends = 12
    Electable = {}
    Crashable = {}
    LateReplies = FALSE
    StaleRounds = TRUE
    SaveFaults = FALSE
    LogFaults = FALSE
    UnsavedCrash = FALSE
SPECIFICATION OvertakenSpec
INVARIANT
    StateMachineSafety
