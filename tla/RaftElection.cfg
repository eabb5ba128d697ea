\* Three candidates, two terms, restarts at any point.
CONSTANTS
    n1 = n1
    n2 = n2
    n3 = n3
    c1 = c1
    Nil = Nil
    Server = {n1, n2, n3}
    Command = {c1}
    MaxTerm = 2
    MaxLog = 0
    MaxAppends = 12
    Electable = {n1, n2, n3}
    Crashable = {n1}
    LateReplies = FALSE
    StaleRounds = TRUE
    SaveFaults = FALSE
    LogFaults = FALSE
    UnsavedCrash = TRUE
SPECIFICATION Spec
SYMMETRY Symmetry
INVARIANTS
    ElectionSafety
    VotesKept
