SPECIFICATION Spec
CONSTANTS
    Chunks = 2
    LeaderLog <- ShortLog
    FollowerLogs <- Diverged
    CheckpointAfter = 2
    MaxLog = 3
    MaxInFlight = 1
    Budgets <- Troubles
INVARIANTS StateMachinesAgree
CHECK_DEADLOCK FALSE
