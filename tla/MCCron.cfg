SPECIFICATION FairSpec
CONSTANTS
  Expressions <- MCExpressions
  Starts <- MCStarts
  Offset = 330
  FirstDay = 19600
  LastDay = 20600
INVARIANTS
  TypeOK
  NextMatchesClock
  NextIsEarliest
PROPERTY HourlyEnds
