SPECIFICATION FairSpec
CONSTANTS
  Expressions <- MCLast
  Starts <- MCFewStarts
  Offset = 480
  FirstDay = 19888
  LastDay = 19890
PROPERTY NextIsFound
