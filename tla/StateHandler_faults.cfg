CONSTANTS
  MaxTime = 2
  MaxStates = 3
  MaxPending = 2
  ClockInterval = 1
  Prompt = FALSE
  MayRepeat = TRUE
  ClockMayFail = TRUE
  DiffMayFail = TRUE
SPECIFICATION Spec
INVARIANTS HeadPrepared
PROPERTIES DiffFromActual OnlyStaleAnswersAreEarly
CHECK_DEADLOCK FALSE
