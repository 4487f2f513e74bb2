CONSTANTS
  MaxTime = 3
  MaxStates = 4
  MaxPending = 2
  ClockInterval = 1
  Prompt = TRUE
  MayRepeat = TRUE
  ClockMayFail = FALSE
  DiffMayFail = FALSE
SPECIFICATION FairSpec
CHECK_DEADLOCK FALSE
INVARIANTS TypeOK NeverStuck
PROPERTIES DueIsExecuted KeepsTheSchedule
