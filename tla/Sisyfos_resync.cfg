CONSTANTS
  Channels = {c1}
  Levels = {0, 1}
  DefaultLevel = 0
  Objects = {}
  Triggers = {t1}
  NoTrigger = none
  MaxStates = 2
  MaxMoves = 1
  MaxRequests = 0
  MayResync = TRUE
  MayOverlap = FALSE
  MayMix = FALSE
SPECIFICATION Spec
PROPERTIES ResyncEnds
CHECK_DEADLOCK FALSE
