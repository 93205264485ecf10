\* One recording with more items than its queue has room for.
SPECIFICATION Spec
CONSTANTS
  r1 = r1  r2 = r2
  Starters = {r1}
  Stoppers = {"w"}
  Drainer = "drain"
  Streams = {"x"}
  Data = "data"
  None = None
  MaxQueued = 2
  MaxItems <- Long
  MayFail = TRUE
  Unstuck = {r1}
INVARIANTS
  FramesAreAccounted
  NewestDataWins
