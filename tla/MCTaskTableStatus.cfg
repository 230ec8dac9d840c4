SPECIFICATION Spec
CONSTANTS
  w1 = w1
  w2 = w2
  u1 = u1
  u2 = u2
  c1 = c1
  c2 = c2
  Worker = {w1, w2}
  Uuid = {u1, u2}
  Payload <- MCPayload
  Kind = {"save", "status"}
  Empty = Empty
  Absent = Absent
  MaxRequests = 3
  MaxFaults = 0
  MaxCrashes = 0
PROPERTY StatusKeepsTask
