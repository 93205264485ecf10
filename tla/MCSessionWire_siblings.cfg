\* Two views of one window that bind the same session.
SPECIFICATION WireSpec
CONSTANTS
  v1 = v1  v2 = v2  v3 = v3  w1 = w1  w2 = w2
  Views = {v1, v2}
  Windows = {w1, w2}
  WindowOf <- TwoInOne
  Passive = {}
  CallsAfterDown = FALSE
  MaxCalls = 1
  MaxEvents = 4
INVARIANT MountedViewKeepsSession
CHECK_DEADLOCK FALSE
