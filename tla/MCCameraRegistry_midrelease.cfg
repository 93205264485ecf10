\* Two callers and two cameras show it.
CONSTANTS
  c1 = c1
  c2 = c2
  left = left
  right = right
  Clients = {c1, c2}
  Serials = {left, right}
  Asks <- AskForAll
  MaxEntries = 3
  AdvertiseMayFail = FALSE
SPECIFICATION Spec
CHECK_DEADLOCK FALSE
PROPERTY
  NeverOpenedMidRelease
