\* The handoff to a native input leaves the mirrors to nobody.
SPECIFICATION StreamsSpec
CONSTANTS
  j1 = j1  j2 = j2  n1 = n1
  JsInputs = {j1}
  NativeInputs = {n1}
  Capacity = 2
  MaxBinds = 1
  MaxToggles = 0
  MaxFrames = 0
INVARIANT AttachedStreamDrives
CHECK_DEADLOCK FALSE
