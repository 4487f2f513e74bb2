CONSTANTS
  Instances = {i1, i2}
  HasStart = {i1, i2}
  HasStop = {i1, i2}
  Keys = {k1}
  CALLBACK_WAIT_TIME = 2
  LastTime = 12
  LastState = 7
  MaxDelay = 1
  MaxLate = 0
  PastStarts = FALSE
  SameTime = FALSE
  Creations = {c1, c2}
  Uses = {c3, c4}
  MayOverlap = FALSE
  MayInitAgain = FALSE
  Queues = {queue1}
  InOrder = FALSE
  MaxWait = 2
  MaxTime = 3
  MaxOrders = 3
  Layers = {l1}
  Objects = {o1, o2}
  NoObject = none
  CleanEvery = 2
  SameInstant = FALSE
  StoreKeys = {k1}
  Values = {val}
  NoValue = none
  LastInstant = 3
  MaxAhead = 2
  Straddle = FALSE
  Touch = FALSE
SPECIFICATION PartsSpec
INVARIANTS PartsTypeOK CoreKnows Alternating WaitingIsTimed NoOrphan PlanIsRemembered ValuesAreFresh ShowsTheLog
PROPERTIES CoreIsTold NeverReplaced FollowsTheLog ReachesTheLog
CHECK_DEADLOCK FALSE
