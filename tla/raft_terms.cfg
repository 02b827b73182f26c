CONSTANTS
    Node = {n1, n2, n3}
    Value = {}
    None = None
    Noop = Noop
    MaxEntries = 1
    MaxTimeout = 4
    MaxHeartbeat = 1
    MaxInFlight = 2
    MaxLog = 3
    MaxCrash = 0
SPECIFICATION MCSpecElected
SYMMETRY Symmetry
VIEW LogView
CHECK_DEADLOCK FALSE
INVARIANTS StoreWithinLog LeaderCompleteness LogMatching StateMachineSafety AckCoversLeaderLog
