CHECK_DEADLOCK FALSE
SPECIFICATION Spec
CONSTANTS
  Handlers = {h1, h2}
  Workers = {w1, w2}
  MaxCodes = 2
  Attempts = 3
  MaxStalls = 1
  None = None
INVARIANTS
  TypeOK
  LossesExplained
  OneMailPerCode
PROPERTIES
  NewestArrivesLast
  JobsEnd
