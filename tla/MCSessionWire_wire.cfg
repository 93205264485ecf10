\* Two views of one window, one of them passive, and the view of another.
SPECIFICATION WireSpec
CONSTANTS
  v1 = v1  v2 = v2  v3 = v3  w1 = w1  w2 = w2
  Views = {v1, v2, v3}
  Windows = {w1, w2}
  WindowOf <- TwoAndOne
  Passive = {v2}
  CallsAfterDown = FALSE
  MaxCalls = 1
  MaxEvents = 5
INVARIANTS
  SettledViewsAgree
PROPERTIES
  DeliversLossyStream
  NewestFrameIsShown
  CallsSettle
CHECK_DEADLOCK FALSE
