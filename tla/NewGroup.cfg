SPECIFICATION Spec
CONSTANTS
  Partition = {p1}
  None = None
  ResetPolicy = "latest"
  KnownGroup = FALSE
  Interval = 1
  MaxAge = 1
  MaxRecords = 1
  FaultKind = {}
  MaxFaults = 0
INVARIANT BacklogConsumed
