CONSTANTS
  Frames <- AllFrames
  MaxFrames = 5
  HeaderSizes = {2, 4}
  MaxAhead = 2
  MaxHeader = 3
  ControlMax = 2
SPECIFICATION Spec
INVARIANTS
  StreamTypeOK
  Faithful
  NoFalseAlarm
  AcceptsOnlyLegal
