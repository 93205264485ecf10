\* A pipe consumer and a frame ref with buffers of sizes of their own.
SPECIFICATION Spec
CONSTANTS
  p1 = p1  f1 = f1  g1 = g1
  p2 = p2  g2 = g2
  b1 = b1  b2 = b2  b3 = b3  b4 = b4
  Pipes = {p1}
  Refs = {f1}
  Segments = {g1}
  SegmentOf <- OnePipeSegment
  Sizes = {1, 2}
  SizeOf <- OwnSizes
  Buffers = {b1, b2}
  MaxFrames = 1
  None = None
INVARIANTS
  BuffersHaveOneOwner
SYMMETRY BufferSymmetry
CHECK_DEADLOCK FALSE
