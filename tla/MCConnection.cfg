CONSTANTS
  ProxyChoices <- SomeProxies
  MaxAddresses = 2
  RecvSize = 2
  MaxReply = 4
  Replies <- SomeReplies
  Text <- SomeText
  Lower <- SomeLower
  Keys <- SomeKeys
  Challenge <- SomeChallenge
  Custom <- SomeCustom
  ServerFrames <- SomeServerFrames
  TextBytes <- Utf8Boundaries
  ClientFrames <- SomeClientFrames
  MaskKeys <- SomeMasks
  Pattern <- SomePattern
  Statuses = {101, 200}
  HeaderLines <- SomeLines
  MaxLines = 3
SPECIFICATION Spec
INVARIANTS
  ConnectionTypeOK
  HandsOverServer
  AddressesTried
  UpgradeAgreed
  ServerFrameUnderstood
  ClientFrameUnderstood
  Utf8Agrees
PROPERTY
  OpeningEnds
CHECK_DEADLOCK FALSE
