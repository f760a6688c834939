SPECIFICATION FairSpec
CONSTANTS
  Instances = {1}
  Procs = {p1, p2}
  MaxAttempts = 1
  LastPosition = 2
INVARIANTS CheckpointCovered RowReadable RetriesBounded OverlapOnlyAfterOverrun
PROPERTY AlwaysCollectedAgain
CHECK_DEADLOCK FALSE
