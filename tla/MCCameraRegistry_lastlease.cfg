\* One caller that asks for both cameras and one that asks for one of them show it.
CONSTANTS
  c1 = c1
  c2 = c2
  left = left
  right = right
  Clients = {c1, c2}
  Serials = {left, right}
  Asks <- PairAndOne
  MaxEntries = 2
  AdvertiseMayFail = TRUE
SPECIFICATION Spec
CHECK_DEADLOCK FALSE
PROPERTY
  ClosedWithLastLease
