SPECIFICATION Spec
CONSTANTS
  Keys = {k1}
  Verifiers = {v1, v2}
  Admins = {a1}
  Grants = {g1}
  Expiries = {2}
  GracePeriods = {}
  TTL = 1
  MaxStall = 1
  MaxTime = 4
  None = None
SYMMETRY Symmetry
INVARIANTS
  TypeOK
  BoundedStaleness
  ClosedCacheClean
PROPERTIES
  BoundedExposure
  ImplementsKeyLife
