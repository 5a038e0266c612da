SPECIFICATION Spec
CONSTANTS
  Device <- OneDevice
  Signature = {"up"}
  UpSignature = {"up"}
  MaxAttempts = 2
  Client = {c1}
  Consumer = Consumer
  Worker = Worker
  None = None
  StaleCheck = StaleCheck
  MaxJobs = 3
  FaultKind = {}
  MaxFaults = 0
INVARIANT LastWordIsMissing
