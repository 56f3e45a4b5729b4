CONSTANTS
  Loop = Loop
  None = None
  u1 = u1
  u2 = u2
  Users = {u1, u2}
  MaxConnections = 2
  MaxCalls = 1
SYMMETRY UserSymmetry
SPECIFICATION Spec
INVARIANT ReuseTypeOK
PROPERTY EndedIsQuiet
CHECK_DEADLOCK FALSE
