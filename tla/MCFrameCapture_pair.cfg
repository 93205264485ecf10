\* Two streams, one of them with a settle time and only one of the two cameras.
SPECIFICATION Spec
CONSTANTS
  s1 = s1  s2 = s2  L = L  R = R
  Order <- TwoStreams
  CamerasOf <- MixedCameras
  HeldStreams = {s2}
  MaxInFlight = 1
  QueueCapacity = 2
  MaxSeq = 2
  MaxFaults = 1
INVARIANTS
  FlagsAreThoseEngaged
  LinesRest
  VerdictIsRight
PROPERTIES
  FinIsItsOwn
CHECK_DEADLOCK FALSE
