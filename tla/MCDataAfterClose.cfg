CONSTANTS
  Loop = Loop
  None = None
  u1 = u1
  u2 = u2
  Users = {u1, u2}
  Answers = {"accept"}
  ServerFrames = {"text"}
  MaxServerFrames = 1
  MaxCalls = 1
  MaxPings = 0
  PingTimeout = FALSE
  CloseTimeout = TRUE
  AutoPong = TRUE
  PeerMayStall = FALSE
  PeerMayBreak = FALSE
SPECIFICATION Spec
INVARIANT
  NoDataAfterClose
