SPECIFICATION Spec
CONSTANTS
    None = None
    StoreFaults = FALSE
    Overwrites = FALSE
    Overlap = FALSE
    Collisions = FALSE
    LosesProposals = FALSE
    SlowProbes = FALSE
    n1 = n1
    n2 = n2
SYMMETRY Symmetry
INVARIANTS
    AckedApplied
    ReadsCurrent
    StoreAgrees
    RecoveredAgrees
    AnswersTrue
    
    NoSilentGap
    OwnersAgree
    PathConsistent
PROPERTY MinimalMovement
CHECK_DEADLOCK FALSE
