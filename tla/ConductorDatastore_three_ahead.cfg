CONSTANTS
  StoreKeys = {k1}
  Values = {v}
  NoValue = NoValue
  LastInstant = 4
  MaxAhead = 3
  Straddle = FALSE
  Touch = FALSE
SPECIFICATION DatastoreSpec
INVARIANT PlanIsRemembered
CHECK_DEADLOCK FALSE
