SPECIFICATION Spec
CONSTANTS
  Users = {u1}
  RefreshLife = 3
  AccessLife = 2
  MaxDelay = 1
  MaxTime = 3
  None = None
PROPERTIES
  ReuseRevokesAll
