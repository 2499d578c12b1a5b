SPECIFICATION FairSpec
CONSTANTS
  Nodes = {1, 2, 3, 4, 5}
  Start = 1
  Kind <- MixedKind
  Routes <- Mixed
  MaxAttempts <- TwiceFirst
  Concurrency = 2
  MaxExecutions = 3
  Budget <- Faults
INVARIANTS SkipsTheRest WaitsForSomething RepetitionPaid
PROPERTIES TraversesGraph RunEnds FailureReachesRun
CHECK_DEADLOCK FALSE
