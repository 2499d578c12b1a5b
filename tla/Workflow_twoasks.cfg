SPECIFICATION FairSpec
CONSTANTS
  Nodes = {1, 2, 3, 4}
  Start = 1
  Kind <- TwoAsksKind
  Routes <- TwoAsks
  MaxAttempts <- Once
  Concurrency = 2
  MaxExecutions = 10
  Budget <- NoFaults
PROPERTIES RunEnds
CHECK_DEADLOCK FALSE
