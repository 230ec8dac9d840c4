SPECIFICATION Spec
CHECK_DEADLOCK FALSE
CONSTANTS
  MaxHups = 1
  MaxHandlers = 1
  MaxRuns = 1
INVARIANT HttpExited
