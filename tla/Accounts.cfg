SPECIFICATION Spec
CONSTANTS
  Emails = {e1}
  Codes = {c1, c2, c3}
  Handlers = {h1, h2}
  OtpLife = 2
  MaxTime = 3
  None = None
SYMMETRY Symmetry
INVARIANTS
  TypeOK
  OneSuccessPerRow
  SupersededNeverVerifies
  OneLiveCode
  LiveCodeNotRefused
