SPECIFICATION FairSpec
\* The process ends.
CHECK_DEADLOCK FALSE
CONSTANTS
  MaxHups = 1
  MaxHandlers = 2
  MaxRuns = 1
INVARIANTS
  TypeOK
  TicksSafe
  NoDoubleDelete
PROPERTIES
  ReloadServes
  OldServersEnd
  StopEnds
