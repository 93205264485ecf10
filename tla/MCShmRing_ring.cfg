\* A preview reader and a burst reader on two slots; the third of three frames
\* is too large for a reader that sized its buffer for the others.
SPECIFICATION FairSpec
CONSTANTS
  LatestReaders = {pane}
  FifoReaders = {burst}
  SlotCount = 2
  MaxRetries = 2
  BigFrames = {3}
  MaxFrames = 3
INVARIANTS
  FramesAreIntact
PROPERTIES
  ImplementsLossyStream
  ClosedIsNoticed
CHECK_DEADLOCK FALSE
