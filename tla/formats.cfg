SPECIFICATION MCSpec
CONSTANTS
  Cap <- MCCap
  Samples <- MCSamples
  Replaced = {0, 1, 2, 200}
  Lines <- MCLines
  Images <- MCImages
  Chunks = {5, 64}
  MaxTotal = 150
  Cluster = 7
  Every = 3
  Keys = {1, 2}
  MaxInt = 2
  MaxStates = {3, 1000}
  Budget = {2, 200}
  Workloads <- MCWorkloads
INVARIANTS  StreamPrefix NegotiationAgrees StreamedIsWhole JudgedRight
CHECK_DEADLOCK FALSE
