SPECIFICATION Spec
CONSTANTS
    Key = {1}
    Datum <- One
    Delta = {1}
    Ttl = {1}
    Op = {"Set", "Persist", "GetDel", "Incr", "Append"}
    BatchCommand = {}
    MaxTime = 2
    MaxEntries = 3
    MaxInt = 11
    MaxLen = 2
    MaxBatch = 2
    MaxReply = 3
    MaxSweep = 1
    MaxScan = 2
    Second = 1
    None = None
CHECK_DEADLOCK FALSE
INVARIANTS RecoveryReproduces
