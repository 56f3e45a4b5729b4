CONSTANTS
  PollRate = 2
  PingRate = 11
  PingTimeout = 25
  CloseTimeout = 5
  HandlerMax = 1
  AnswerMax = 1
  Backlog = 2
  Servers = {TRUE, FALSE}
  Horizon = 27
SPECIFICATION Spec
INVARIANTS
  KeepAliveTypeOK
  PingsPaced
  PingsPrompt
  PollsKeepComing
  NoFalseTimeout
  SilenceIsNoticed
  CloseIsBounded
