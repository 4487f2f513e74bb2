CONSTANTS
  MaxTime = 2
  MaxStates = 4
  MaxPending = 2
  ClockInterval = 1
  Prompt = TRUE
  MayRepeat = TRUE
  ClockMayFail = FALSE
  DiffMayFail = FALSE
SPECIFICATION Spec
PROPERTY NeverEarly
CHECK_DEADLOCK FALSE
