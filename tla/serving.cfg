SPECIFICATION MCSpec
CONSTANTS
  tick = tick
  p1 = p1
  c1 = c1
  c2 = c2
  n1 = n1
  n2 = n2
  n3 = n3
  Ticker = tick
  Peers = {p1}
  Clients = {c1, c2}
  Limit <- MCLimit
  MaxInputs = 2
  MaxRecords = 5
  Conn = {n1, n2, n3}
  Frames <- MCFrames
  MaxBatchCommands = 2
  MaxBatchBytes = 3
  MaxPipeline = 1
  MaxFrames = 4
INVARIANTS  NoStaleCapability GroupWholeOrNothing LeaderReadsFresh FollowerReadsSinceRound
PROPERTIES AdmittedDelivered ReadsAnswered
CHECK_DEADLOCK FALSE
