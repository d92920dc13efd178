SPECIFICATION Spec
CONSTANTS
  u1 = u1
  u2 = u2
  u3 = u3
  c1 = c1
  c2 = c2
  User <- ThreeUsers
  Chat <- TwoChats
  Members <- BothAsked
  Writers <- FirstWrites
  MaxConnects <- Once
  MaxMessages = 2
INVARIANT NothingMissed
CHECK_DEADLOCK FALSE
