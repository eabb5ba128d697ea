\* Save fails now and then, during elections and restarts.
CONSTANTS
    n1 = n1
    n2 = n2
    n3 = n3
    c1 = c1
    Nil = Nil
    Server = {n1, n2, n3}
    Command = {c1}
    MaxTerm = 2
    MaxLog = 0
    MaxAppends = 2
    Electable = {n1, n2}
    Crashable = {n3}
    LateReplies = FALSE
    StaleRounds = FALSE
    SaveFaults = TRUE
    LogFaults = FALSE
    UnsavedCrash = TRUE
SPECIFICATION Spec
SYMMETRY Symmetry
INVARIANTS
    VoteTermKept
