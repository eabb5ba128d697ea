\* Two leaders with diverging logs from earlier terms.
CONSTANTS
    n1 = n1
    n2 = n2
    n3 = n3
    c1 = c1
    Nil = Nil
    Server = {n1, n2, n3}
    Command = {c1}
    MaxTerm = 4
    MaxLog = 2
    MaxAppends = 6
    Electable = {n2}
    Crashable = {}
    LateReplies = FALSE
    StaleRounds = FALSE
    SaveFaults = FALSE
    LogFaults = FALSE
    UnsavedCrash = FALSE
SPECIFICATION RecoveredSpec
INVARIANTS
    LogMatching
    StateMachineSafety
    LeaderCompleteness
    MatchIndexSound
PROPERTIES
    ImplementsReplicatedLog
