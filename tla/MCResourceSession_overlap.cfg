\* One window is enough to see it.
CONSTANTS
  w1 = w1
  Windows = {w1}
  NumResources = 2
  MaxGeneration = 5
SPECIFICATION Spec
INVARIANT
  SerializedBehindDrains
