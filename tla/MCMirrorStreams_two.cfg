\* Two JS inputs and a native one compete for two stream ids.
SPECIFICATION StreamsSpec
CONSTANTS
  j1 = j1  j2 = j2  n1 = n1
  JsInputs = {j1, j2}
  NativeInputs = {n1}
  Capacity = 2
  MaxBinds = 1
  MaxToggles = 1
  MaxFrames = 0
INVARIANTS
  StreamsTypeOK
  EveryIdHasOneOwner
  NoStreamIsOrphaned
  NativeOwnsTheWire
  HandleIsLive
PROPERTIES
  UpdatedInputDrives
  EndsAreReached
CHECK_DEADLOCK FALSE
