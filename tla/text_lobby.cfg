SPECIFICATION Spec
CONSTANTS
  u1 = u1
  u2 = u2
  u3 = u3
  User <- ThreeUsers
  Direct = Direct
  Meets <- ThirdIsLate
  Writers <- First
  MaxOpens <- FirstTwice
  MaxMessages = 2
  MaxFailures = 1
INVARIANTS
  TypeOK
  RegistrationsGo
  OpenIsReached
  StoredAtHome
  OnlyAccepted
  Transcript
CHECK_DEADLOCK FALSE
