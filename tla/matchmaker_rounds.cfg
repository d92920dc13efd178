SPECIFICATION Spec
CONSTANTS
  u1 = u1
  u2 = u2
  u3 = u3
  m = m
  f = f
  User <- MCUser
  NoUser = NoUser
  Age <- MCAge
  Gender <- MCGender
  AnyGender = AnyGender
  FilterValue <- MCFilterValue
  DefaultAgeDiff = 0
  AgeDiffStep = 5
  MaxAgeDiff = 5
  BlacklistEnabled = TRUE
  MaxCandidates = 1
  WeightCap = 1
  PostMayFail = TRUE
  RoundInputs <- CallInputs
INVARIANTS
  TypeOK
  MutualMatch
  EmptyInGraph
  MaximalRound
PROPERTIES
  PairsFromLobby
