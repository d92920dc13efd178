SPECIFICATION Spec
CONSTANTS
  u1 = u1
  u2 = u2
  u3 = u3
  c1 = c1
  c2 = c2
  User <- ThreeUsers
  Chat <- TwoChats
  Members <- BothAsked
  Writers <- OneAnswers
  MaxConnects <- SecondReturns
  MaxMessages = 2
INVARIANTS
  TypeOK
  ReadByPartner
  FetchKeepsUp
  DeclineReaches
CONSTRAINT ThirdStays
CHECK_DEADLOCK FALSE
