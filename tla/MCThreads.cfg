CONSTANTS
  Loop = Loop
  None = None
  u1 = u1
  u2 = u2
  Users = {u1}
  Answers = {"accept", "reject", "critical"}
  ServerFrames = {"text", "ping", "close", "bad"}
  MaxServerFrames = 2
  MaxCalls = 1
  MaxPings = 1
  PingTimeout = TRUE
  CloseTimeout = TRUE
  AutoPong = TRUE
  PeerMayStall = TRUE
  PeerMayBreak = TRUE
SPECIFICATION Spec
INVARIANTS
  OneWriter
  SocketReleased
  GracefulWasAsked
PROPERTIES
  EventOrder
  QuietAfterEnd
