SPECIFICATION Spec
CONSTANTS
  u1 = u1
  u2 = u2
  p1 = p1
  p2 = p2
  User <- TwoUsers
  Place <- OnePlace
  Home <- SameHome
  Anywhere = Anywhere
  Hasty <- Nobody
  Movers <- Nobody
  MaxConnects <- Returning
  MaxRequests = 2
INVARIANTS
  TypeOK
  BlacklistCached
CHECK_DEADLOCK FALSE
