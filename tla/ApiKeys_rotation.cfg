CHECK_DEADLOCK FALSE
SPECIFICATION Spec
CONSTANTS
  Keys = {k1, k2, k3}
  Verifiers = {}
  Admins = {a1, a2}
  Grants = {g1}
  Expiries = {}
  GracePeriods = {1}
  TTL = 1
  MaxStall = 1
  MaxTime = 2
  None = None
SYMMETRY Symmetry
VIEW Stripped
PROPERTIES
  OneHeirPerActivation
