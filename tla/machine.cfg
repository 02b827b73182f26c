SPECIFICATION MCSpec
CONSTANTS
    a = a
    b = b
    Key = {1, 2}
    Datum <- TwoData
    Delta = {1}
    Ttl = {1}
    Op <- AllOps
    BatchCommand <- InBatch
    MaxTime = 2
    MaxEntries = 3
    MaxInt = 11
    MaxLen = 2
    MaxBatch = 2
    MaxReply = 3
    MaxSweep = 1
    MaxScan = 2
    Second = 1
    None = None
VIEW View
CHECK_DEADLOCK FALSE
INVARIANTS DeadlineIndex
PROPERTIES SweepUnseen BatchAllOrNothing RestoredKeepsUp ExactlyOnce SessionsForgotten
