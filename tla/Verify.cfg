SPECIFICATION SpecVerify
CONSTANTS
  free = free
  pro = pro
  enterprise = enterprise
  Plans <- SmallPlans
  MonthlyQuota <- SmallQuota
  Requests = {r1, r2}
  Changers = {c1}
  MaxCount = 3
  MaxLost = 1
  None = None
SYMMETRY Symmetry
VIEW Stripped
INVARIANTS
  StagesOK
  OneRestorePerRequest
  LimitFollowsPlan
PROPERTIES
  GrantsWithinQuota
  RefusedOnlyWhenUsedUp
  ChargedIfPassed
