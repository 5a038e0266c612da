SPECIFICATION FairSpec
CONSTANTS
  Partition = {p1, p2}
  None = None
  ResetPolicy = "latest"
  KnownGroup = TRUE
  Interval = 1
  MaxAge = 1
  MaxRecords = 1
  FaultKind = {"retention"}
  MaxFaults = 1
PROPERTY GateReopens
