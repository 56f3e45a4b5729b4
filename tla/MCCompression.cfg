CONSTANTS
  u1 = u1
  u2 = u2
  Deflaters = {u1}
  Plain = {u2}
  Responses <- AllResponses
  MaxMessages = 4
SPECIFICATION Spec
INVARIANTS
  CompressionTypeOK
  ServerReads
  ClientReads
