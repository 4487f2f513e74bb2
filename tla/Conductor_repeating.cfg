CONSTANTS
  MINTRIGGERTIME = 1
  PREPARETIME = 3
  LOOKAHEADTIME = 8
  RESOLVE_LIMIT_TIME = 16
  IntervalTime = 4
  Estimate = 0
  Repeating = TRUE
  ResolverMayFail = FALSE
  Prompt = TRUE
  MaxBusy = 0
  MaxTime = 21
  Changes = {14, 18}
  MaxVersions = 1
  MaxMakeReady = 0
SPECIFICATION Spec
INVARIANT InTime
CHECK_DEADLOCK FALSE
