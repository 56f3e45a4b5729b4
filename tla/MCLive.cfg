CONSTANTS
  Loop = Loop
  None = None
  u1 = u1
  u2 = u2
  Users = {u1}
  Answers = {"accept"}
  ServerFrames = {"close"}
  MaxServerFrames = 2
  MaxCalls = 1
  MaxPings = 0
  PingTimeout = FALSE
  CloseTimeout = TRUE
  AutoPong = TRUE
  PeerMayStall = TRUE
  PeerMayBreak = TRUE
SPECIFICATION FairSpec
PROPERTIES
  CloseCompletes
  LossIsNoticed
