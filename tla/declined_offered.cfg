SPECIFICATION Spec
CONSTANTS
  u1 = u1
  u2 = u2
  u3 = u3
  m = m
  f = f
  User <- TwoUsers
  NoUser = NoUser
  FilterValue <- AllFilters
  ChatPartner <- NoChats
  BlacklistEnabled = TRUE
  SwipeBlacklistEnabled = TRUE
  AckRequested = FALSE
  LateClose = FALSE
  MaxConnects = 2
  MaxWire = 1
  Age <- SameAge
  Gender <- OneGender
  AnyGender = AnyGender
  DefaultAgeDiff = 0
  AgeDiffStep = 0
  MaxAgeDiff = 0
  MaxCandidates = 1
  WeightCap = 0
  FilterChoice <- NoFilter
  Moves <- DeclinesAndDrops
  MayTimeOut = FALSE
  PostMayFail = FALSE
  MayRestart = FALSE
SYMMETRY Symmetry
PROPERTY
  DeclinedApart
