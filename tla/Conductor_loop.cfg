CONSTANTS
  MINTRIGGERTIME = 1
  PREPARETIME = 1
  LOOKAHEADTIME = 3
  RESOLVE_LIMIT_TIME = 4
  IntervalTime = 2
  Estimate = 0
  Repeating = FALSE
  ResolverMayFail = TRUE
  Prompt = TRUE
  MaxBusy = 1
  MaxTime = 6
  Changes = {3, 6}
  MaxVersions = 2
  MaxMakeReady = 1
SPECIFICATION FairSpec
INVARIANTS TypeOK LatestIsHandedOver NoStaleStates InTime
PROPERTY TimelineIsHandedOver
CHECK_DEADLOCK FALSE
