SPECIFICATION FairSpec
CONSTANTS
  Partition = {p1, p2}
  None = None
  ResetPolicy = "earliest"
  KnownGroup = FALSE
  Interval = 1
  MaxAge = 1
  MaxRecords = 2
  FaultKind = {"delay", "outage", "rebalance", "poll error", "commit fails", "check fails", "crash"}
  MaxFaults = 1
INVARIANT BacklogConsumed
PROPERTIES GateReopens EveryRecordHandled
