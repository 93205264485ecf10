\* A write that fails: the file is truncated, and the viewer is opened for it.
SPECIFICATION Spec
CONSTANTS
  r1 = r1  r2 = r2
  Starters = {r1, r2}
  Stoppers = {"w"}
  Drainer = "drain"
  Streams = {"x"}
  Data = "data"
  None = None
  MaxQueued = 2
  MaxItems <- LongAndEmpty
  MayFail = TRUE
  Unstuck = {r1, r2}
INVARIANT TruncatedIsNotOpened
CHECK_DEADLOCK FALSE
