SPECIFICATION MCSpec
CONSTANTS
    Node = {1, 2, 3, 4}
    InitialVoters = {1, 2, 3}
    MinVoters = 3
    Budgets <- Writes
INVARIANTS EveryEntryApplied
CHECK_DEADLOCK FALSE
