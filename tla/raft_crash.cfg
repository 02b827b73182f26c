CONSTANTS
    n1 = n1
    n2 = n2
    n3 = n3
    Node = {n1, n2, n3}
    Value = {v1}
    None = None
    Noop = Noop
    MaxEntries = 1
    MaxTimeout = 2
    MaxHeartbeat = 1
    MaxInFlight = 9
    MaxLog = 1
    MaxCrash = 1
SPECIFICATION MCSpec
SYMMETRY Symmetry
VIEW View
CHECK_DEADLOCK FALSE
INVARIANTS VoteInv ElectionSafety AppliedSurvives
PROPERTIES HardStateMonotone
