SPECIFICATION Spec
CONSTANTS
  Device <- OneDevice
  Signature = {"up", "warn", "down"}
  UpSignature = {"up"}
  MaxAttempts = 2
  Client = {c1}
  Consumer = Consumer
  Worker = Worker
  None = None
  StaleCheck = StaleCheck
  MaxJobs = 2
  FaultKind = {"claim raises", "answer lost", "session lost", "mark_failed raises", "crash"}
  MaxFaults = 1
INVARIANTS TypeOK ExcludedIsQuiet SmtpUnderGuard ActiveKeysUnique RetriesBounded
  MailsExplained StaleFlagBacked EndsFollowWarnings AlertWasQueued
PROPERTIES TerminalIsFinal DeletedIsFrozen ClaimsLostByFaults
