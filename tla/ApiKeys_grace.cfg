SPECIFICATION Spec
CONSTANTS
  Keys = {k1, k2}
  Verifiers = {v1}
  Admins = {a1}
  Grants = {g1}
  Expiries = {}
  GracePeriods = {4}
  TTL = 1
  MaxStall = 1
  MaxTime = 5
  None = None
SYMMETRY Symmetry
VIEW Stripped
PROPERTIES
  GraceHonoured
  CronSparesUsable
  DeadlineIsFinal
