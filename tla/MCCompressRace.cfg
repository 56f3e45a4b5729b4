CONSTANTS
  u1 = u1
  u2 = u2
  Deflaters = {u1, u2}
  Plain = {}
  Responses <- Defaults
  MaxMessages = 2
SPECIFICATION Spec
INVARIANT
  ServerReads
