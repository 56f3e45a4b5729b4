CONSTANTS
  Loop = Loop
  None = None
  u1 = u1
  u2 = u2
  Users = {}
  Answers = {"accept", "reject", "critical"}
  ServerFrames = {"text", "ping", "bigping", "pong", "close", "bad", "critical"}
  MaxServerFrames = 3
  MaxCalls = 2
  MaxPings = 0
  PingTimeout = TRUE
  CloseTimeout = TRUE
  AutoPong = TRUE
  PeerMayStall = FALSE
  PeerMayBreak = TRUE
SPECIFICATION Spec
INVARIANTS
  SessionTypeOK
  FramesInOrder
  ClosedWasSent
  ErrorSendsClose
  DroppedIsShut
PROPERTY
  EventOrder
