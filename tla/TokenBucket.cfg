SPECIFICATION Spec
CONSTANTS
  Policies <- SmallPolicies
  Scale = 2
  MaxDelay = 1
  MaxTime = 4
  MaxDebt = 4
INVARIANTS
  TypeOK
  RateBound
  ResetIsHonest
PROPERTIES
  BlockedWithinWindow
