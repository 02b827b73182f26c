SPECIFICATION FollowerSpec
CONSTANTS
    Node = {n1, n2, n3}
    Leader = n1
    MaxBatch = 1
    MaxPendingReads = 2
    MaxPendingPeer = 2
    MaxPendingClient = 2
CHECK_DEADLOCK FALSE
INVARIANTS FollowerReadsFresh
