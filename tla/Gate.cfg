SPECIFICATION Spec
CONSTANTS
  Partition = {p1, p2}
  None = None
  ResetPolicy = "latest"
  KnownGroup = TRUE
  Interval = 1
  MaxAge = 2
  MaxRecords = 2
  FaultKind = {"delay", "retention", "outage", "rebalance", "poll error", "commit fails", "check fails", "crash"}
  MaxFaults = 3
SYMMETRY Partitions
INVARIANTS TypeOK BacklogConsumed DecisionsAreFresh CommitFollowsDatabase
  RollbackIsRedelivered ShutForAReason
PROPERTIES TargetsDoNotGrow
