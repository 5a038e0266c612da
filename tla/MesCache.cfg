SPECIFICATION Spec
CONSTANTS
  Device = {d1}
  Code = {"STAB", "DOWN"}
  AlertCodes = {"STAB"}
  None = None
  Seconds = {0, 1, 2}
  NaN = NaN
  Inf = Inf
  CallTime = 1
  Lateness = 1
  JoinTime = 1
  Horizon = 5
  MaxFaults = 1
CHECK_DEADLOCK FALSE
INVARIANTS TypeOK FreshWhileWaiting
PROPERTIES AdmissionsAreRecent Recovers StopReturns
