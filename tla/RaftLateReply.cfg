\* A vote reply is read after the candidate has moved to another term.
CONSTANTS
    n1 = n1
    n2 = n2
    n3 = n3
    c1 = c1
    Nil = Nil
    Server = {n1, n2, n3}
    Command = {c1}
    MaxTerm = 2
    MaxLog = 0
    MaxAppends = 0
    Electable = {n1, n2, n3}
    Crashable = {}
    LateReplies = TRUE
    StaleRounds = FALSE
    SaveFaults = FALSE
    LogFaults = FALSE
    UnsavedCrash = FALSE
SPECIFICATION Spec
SYMMETRY Symmetry
INVARIANT
    ElectionSafety
