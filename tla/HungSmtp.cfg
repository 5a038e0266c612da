SPECIFICATION HungSmtpSpec
CONSTANTS
  Device <- OneDevice
  Signature = {"warn"}
  UpSignature = {}
  MaxAttempts = 1
  Client = {c1, c2}
  Consumer = Consumer
  Worker = Worker
  None = None
  StaleCheck = StaleCheck
  MaxJobs = 1
  FaultKind = {"claim raises", "answer lost", "session lost", "mark_failed raises", "crash",
               "clock set back", "change rolls back"}
  MaxFaults = 1
INVARIANTS LocksAreHeld NoDeadlock 
 
