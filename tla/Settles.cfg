SPECIFICATION FairSpec
CONSTANTS
  Device <- OneDevice
  Signature = {"warn"}
  UpSignature = {}
  MaxAttempts = 2
  Client = {c1}
  Consumer = Consumer
  Worker = Worker
  None = None
  StaleCheck = StaleCheck
  MaxJobs = 2
  FaultKind = {"claim raises", "session lost", "crash"}
  MaxFaults = 1
INVARIANT SqliteStandsIn
PROPERTIES JobsSettleOrAreLost KeepsPromise
