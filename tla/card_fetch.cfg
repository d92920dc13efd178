SPECIFICATION Spec
CONSTANTS
  u1 = u1
  u2 = u2
  u3 = u3
  s1 = s1
  s2 = s2
  p1 = p1
  p2 = p2
  p3 = p3
  User <- Users
  Age <- Ages3
  MyAge = 19
  Session <- Sessions
  Process <- Processes
  Disconnects <- Third
  Limit = 2
  MinAge = 18
  DefaultAgeDiff = 0
  AgeDiffStep = 1
  MaxAgeDiff = 2
  Unset = Unset
  MaxMoves = 1
SYMMETRY Symmetry
INVARIANTS
  TypeOK
  NeverRepeated
  ShortLeavesFew
CHECK_DEADLOCK FALSE
