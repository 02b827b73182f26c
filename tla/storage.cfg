SPECIFICATION MCSpec
CONSTANTS
  Key = {1, 2, 3}
  Hash <- MCHash
  MemtableBytes = 2
  BlockEntries = 1
  Mutations <- MCMutations
  Budgets <- MCBudgets
  TableKeys = {{1}, {1, 2}, {2, 3}}
  L0TriggerFiles = 2
  Level1Target = 3
  LevelMultiplier = 2
  MaxLevels = 3
  OutputTarget = 2
  MaxGenerations = 6
  SegmentSize = 8
  HeaderSize = 2
  MaxRecord = 7
  Terms = {1, 2}
  Voters = {1}
  MaxIndex = 2
  MaxRecords = 4
INVARIANTS  LastGood VersionsKept RecoversAcknowledged
 
CHECK_DEADLOCK FALSE
