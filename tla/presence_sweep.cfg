SPECIFICATION FairSpec
CONSTANTS
  u1 = u1
  u2 = u2
  p1 = p1
  p2 = p2
  User <- TwoUsers
  Place <- TwoPlaces
  Home <- SameHome
  Anywhere = Anywhere
  Hasty <- First
  Movers <- Second
  MaxConnects <- Absent
  MaxRequests = 1
INVARIANTS
  SettledAccounted
  Notifiable
PROPERTIES
  GoneAreSwept
CHECK_DEADLOCK FALSE
