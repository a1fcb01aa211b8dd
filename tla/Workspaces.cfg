SPECIFICATION Spec
CONSTANTS
  Words <- SmallWords
  Parts <- SmallParts
  KeyNames <- SmallNames
  Users = {u1, u2}
  Slugs = {s1, s2}
  Workspaces = {w1, w2}
  Apis = {x1, x2}
  Titles = {t1, t2}
  Ids = {i1, i2}
  Requests = {r1, r2}
  None = None
SYMMETRY Symmetry
INVARIANTS
  TypeOK
  GuardStillHolds
  PrefixesRoundTrip
PROPERTIES
  OnlyOwnerChanges
