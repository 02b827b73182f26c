SPECIFICATION FairSpec
CONSTANTS
    Chunks = 2
    LeaderLog <- ShortLog
    FollowerLogs <- Behind
    CheckpointAfter = 2
    MaxLog = 3
    MaxInFlight = 1
    Budgets <- Pairs
INVARIANTS  NothingIsLost StateMachinesAgree
PROPERTIES CatchesUp
CHECK_DEADLOCK FALSE
