CONSTANTS
  Queues = {qa, qb}
  InOrder = TRUE
  MaxWait = 2
  MaxTime = 3
  MaxOrders = 3
SPECIFICATION FairSpec
INVARIANTS TypeOK OneAtATime NoLostWakeup Covered
PROPERTIES NoOvertaking DueIsSent
CHECK_DEADLOCK FALSE
