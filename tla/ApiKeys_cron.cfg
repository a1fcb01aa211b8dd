CHECK_DEADLOCK FALSE
SPECIFICATION FairSpec
CONSTANTS
  Keys = {k1, k2}
  Verifiers = {}
  Admins = {a1}
  Grants = {g1, g2}
  Expiries = {}
  GracePeriods = {1}
  TTL = 1
  MaxStall = 1
  MaxTime = 3
  None = None
PROPERTIES
  RotationFinalised
  HeirMissesOnlyRecentUpdates
