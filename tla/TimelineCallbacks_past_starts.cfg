CONSTANTS
  Instances = {i1}
  HasStart = {i1}
  HasStop = {i1}
  Keys = {k1}
  CALLBACK_WAIT_TIME = 2
  LastTime = 15
  LastState = 9
  MaxDelay = 0
  MaxLate = 0
  PastStarts = TRUE
  SameTime = FALSE
SPECIFICATION CallbacksSpec
INVARIANT CoreKnows
CHECK_DEADLOCK FALSE
