SPECIFICATION Spec
CONSTANTS
  Expressions <- MCDaily
  Starts <- MCFewStarts
  Offset = 480
  FirstDay = 19600
  LastDay = 20600
INVARIANT NextIsLater
