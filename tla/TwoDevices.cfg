SPECIFICATION Spec
CONSTANTS
  Device <- TwoDevices
  Signature = {"warn"}
  UpSignature = {}
  MaxAttempts = 1
  Client = {c1}
  Consumer = Consumer
  Worker = Worker
  None = None
  StaleCheck = StaleCheck
  MaxJobs = 2
  FaultKind = {"crash"}
  MaxFaults = 1
INVARIANTS LocksProtect ExcludedIsQuiet StaleFlagBacked ActiveKeysUnique FirstAttemptsInOrder
