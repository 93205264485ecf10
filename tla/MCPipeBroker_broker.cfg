\* Two windows with one view each of a pipe that is advertised twice; a view may
\* turn to a pipe that is not there.
\* Closed channels and used-up epochs stop the system, so no deadlock check.
SPECIFICATION BrokerFairSpec
CONSTANTS
  left = left
  center = center
  Channels = {c1, c2}
  Slots = {a}
  Pipes = {left, center}
  MaxEpoch <- OnlyLeft
  MaxSelects = 1
INVARIANTS
  ProducerFollowsDemand
PROPERTIES
  MountedViewIsFed
  UnwatchedPipeParks
CHECK_DEADLOCK FALSE
