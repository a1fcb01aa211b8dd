SPECIFICATION Spec
CONSTANTS
  Users = {u1}
  RefreshLife = 3
  AccessLife = 2
  MaxDelay = 1
  MaxTime = 5
  None = None
INVARIANTS
  TypeOK
  OneSessionPerLogin
  SignOutIsFinal
PROPERTIES
  NoRevival
  AccessOutlivesSession
