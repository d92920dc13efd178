SPECIFICATION FairSpec
CONSTANTS
  i1 = i1
  i2 = i2
  i3 = i3
  i4 = i4
  i5 = i5
  l1 = l1
  l2 = l2
  l3 = l3
  r1 = r1
  r2 = r2
  all = all
  Person <- People
  Registered <- WithAccount
  Fresh <- Last
  Login <- ThreeLogins
  Attempts <- MostlyTwo
  Request <- TwoRequests
  Updater = Updater
  Hasty <- Impatient
  Scenarios <- AllScenarios
  MaxFailures = 1
  SwipesDefault = 1
  SwipesPerPeriod = 2
  FeedbackDiff = 1
  RatingBonus = 2
  MaxRequests = 2
  Key <- OneList
  Filter <- Listed
  PopularLimit = 2
INVARIANTS
  TypeOK
  OneAccount
  SwipesAccounted
  ReapOncePerPeriod
PROPERTIES
  TokensSettle
  ProfilesSettle
  PopularSettles
CHECK_DEADLOCK FALSE
