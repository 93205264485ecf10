\* The answer to an input is lost with the device it was asked of.
SPECIFICATION StreamsSpec
CONSTANTS
  j1 = j1  j2 = j2  n1 = n1
  JsInputs = {j1}
  NativeInputs = {}
  Capacity = 2
  MaxBinds = 2
  MaxToggles = 0
  MaxFrames = 0
PROPERTY NextUpdateRetries
CHECK_DEADLOCK FALSE
