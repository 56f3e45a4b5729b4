CONSTANTS
  Frames <- LongPing
  MaxFrames = 2
  HeaderSizes = {2}
  MaxAhead = 2
  MaxHeader = 3
  ControlMax = 2
SPECIFICATION Spec
INVARIANT
  ControlFramesAreShort
