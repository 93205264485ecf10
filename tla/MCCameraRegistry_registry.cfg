\* Two callers, one of which asks for two cameras, alone or in one pass, and the
\* other for the first of them; two openings; advertising may throw.
\* The bound on the openings stops a caller, so deadlock is not checked.
SPECIFICATION FairSpec
CHECK_DEADLOCK FALSE
CONSTANTS
  c1 = c1
  c2 = c2
  left = left
  right = right
  Clients = {c1, c2}
  Serials = {left, right}
  Asks <- PairAndOne
  MaxEntries = 2
  AdvertiseMayFail = TRUE
INVARIANTS
  RefsCountLeases
  OneHandlePerCamera
PROPERTIES
  ReleaseAllLetsGo
  CallsReturn
