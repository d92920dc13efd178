SPECIFICATION Spec
CONSTANTS
  u1 = u1
  u2 = u2
  u3 = u3
  m = m
  f = f
  User <- ThreeUsers
  NoUser = NoUser
  FilterValue <- AllFilters
  ChatPartner <- NoChats
  BlacklistEnabled = FALSE
  SwipeBlacklistEnabled = TRUE
  AckRequested = FALSE
  LateClose = FALSE
  MaxConnects = 1
  MaxWire = 2
  Age <- SameAge
  Gender <- OneGender
  AnyGender = AnyGender
  DefaultAgeDiff = 0
  AgeDiffStep = 0
  MaxAgeDiff = 0
  MaxCandidates = 1
  WeightCap = 0
  FilterChoice <- NoFilter
  Moves <- CallsAndDrops
  MayTimeOut = FALSE
  PostMayFail = FALSE
  MayRestart = FALSE
SYMMETRY Symmetry
PROPERTY
  LeaverTellsPartner
