\* One instance that dies and a quit show it.
SPECIFICATION Spec
CONSTANTS
  MaxInstances = 2
  MaxSwitches = 1
  QuiesceMayFail = FALSE
  SweepMayFail = FALSE
INVARIANT
  QuitLeavesHardwareSafe
CHECK_DEADLOCK FALSE
