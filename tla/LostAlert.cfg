SPECIFICATION Spec
CONSTANTS
  Device <- OneDevice
  Signature = {"up", "warn"}
  UpSignature = {"up"}
  MaxAttempts = 2
  Client = {c1}
  Consumer = Consumer
  Worker = Worker
  None = None
  StaleCheck = StaleCheck
  MaxJobs = 2
  FaultKind = {}
  MaxFaults = 0
INVARIANT AlertFlagBacked
