SPECIFICATION Spec
CONSTANTS
    None = None
    n1 = n1
    n2 = n2
    n3 = n3
SYMMETRY Symmetry
INVARIANTS
    SettledReadSeesAcknowledged
    AckedDurable
    AppliedPrefix
    NoConfigSkip
    CommittedByMajorities
CHECK_DEADLOCK FALSE
