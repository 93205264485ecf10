\* Two instances and two switches between them, in which main may quit or crash.
\* The system stops when main has gone, so no deadlock check.
SPECIFICATION FairSpec
CONSTANTS
  MaxInstances = 2
  MaxSwitches = 2
  QuiesceMayFail = TRUE
  SweepMayFail = TRUE
INVARIANTS
  OneHolder
PROPERTIES
  GrantFindsHardwareSafe
  UncleanDeathIsSwept
  WaitingIsGranted
CHECK_DEADLOCK FALSE
