SPECIFICATION FairSpec
CONSTANTS
  Device <- OneDevice
  Signature = {"up"}
  UpSignature = {"up"}
  MaxAttempts = 2
  Client = {c1}
  Consumer = Consumer
  Worker = Worker
  None = None
  StaleCheck = StaleCheck
  MaxJobs = 1
  FaultKind = {"mark_failed raises"}
  MaxFaults = 1
PROPERTY EveryJobSettles
