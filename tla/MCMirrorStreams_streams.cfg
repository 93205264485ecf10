\* One JS and one native input, a reconnect, the user's switch and a capture.
SPECIFICATION StreamsSpec
CONSTANTS
  j1 = j1  j2 = j2  n1 = n1
  JsInputs = {j1}
  NativeInputs = {n1}
  Capacity = 2
  MaxBinds = 2
  MaxToggles = 1
  MaxFrames = 1
INVARIANTS
  EveryIdHasOneOwner
  NoStreamIsOrphaned
  NativeOwnsTheWire
PROPERTIES
  UpdatedInputDrives
CHECK_DEADLOCK FALSE
