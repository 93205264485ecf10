\* Two calls of start(), one after the other or both waiting in prepare().
SPECIFICATION FairSpec
CONSTANTS
  r1 = r1  r2 = r2
  Starters = {r1, r2}
  Stoppers = {"w"}
  Drainer = "drain"
  Streams = {"x"}
  Data = "data"
  None = None
  MaxQueued = 1
  MaxItems <- TwoAndEmpty
  MayFail = TRUE
  Unstuck = {r1, r2}
INVARIANTS
  FramesAreAccounted
  NewestDataWins
  IdleHoldsNothing
PROPERTY
  StopReturns
