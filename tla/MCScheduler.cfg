SPECIFICATION Spec
\* Time is bounded.
CHECK_DEADLOCK FALSE
CONSTANTS
  Units = 4
  MaxDelay = 2
  MaxSeconds = 4
INVARIANTS
  TypeOK
  OncePerSecond
  NeverTwoMissed
