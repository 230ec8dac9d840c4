SPECIFICATION FairSpec
CHECK_DEADLOCK FALSE
CONSTANTS
  r1 = r1
  r2 = r2
  Run = {r1, r2}
  Program <- MCProgram
  Capacity = 1
  NotifyUrl = TRUE
INVARIANTS
  TypeOK
  FinishTellsTruth
  NotificationsTakeTurns
  RunningCountsChildren
PROPERTY RunEnds
